------------------------------ MODULE SendingProofs ------------------------------
(***************************************************************************)
(* Theorems about Sending, for any number of Sessions, accounts, nodes and *)
(* retries, and whatever users call and goes wrong.                        *)
(***************************************************************************)
EXTENDS SendingProperties, SequenceLemmas

----------------------------------------------------------------------------
(* Types.                                                                  *)

Copies   == {"peer", "self"}
Hash     == Nat \X Copies \X Nat
Profile  == [name : Nat, avatar : Avatar \cup {Undefined}]
Carried  == Range(EventOrder) \cup {"config"}
Message  == [hash : Hash, from : Account, kind : Carried, sync : BOOLEAN, ts : Nat,
             about : Nat, profile : Profile]
Event    == [kind : Range(EventOrder), hash : Hash, from : Account, about : Nat]
Telling  == [event : Event, by : Nat]
PlanStep == [do : {"store", "delete", "poll"}, to : Account, msg : Message \cup {NoMsg},
             hashes : SUBSET Hash]
SnodeRef == [node : Snode, fetch : Nat]
Cache    == [snodes : (SUBSET SnodeRef) \cup {Undefined}, ourSwarms : (SUBSET Ref) \cup {Undefined},
             ourSwarm : Ref \cup {Undefined}, fetches : Nat]
Asking   == {"locate", "snodes", "swarms", "ask", "sent"}
At       == Asking \cup {"upload", "save", "received", "marking", "resolved", "rejected", "lost"}
Op       == [dev : Device, id : Nat, kind : Kinds, plan : Seq(PlanStep), step : Nat, at : At,
             nodes : SUBSET SnodeRef, list : SUBSET Ref, target : Ref \cup {Undefined},
             tries : 0..MaxRetries, misdirected : SUBSET Ref, got : Seq(Message),
             fresh : Seq(Message), until : Nat]

StateTypes ==
    /\ members \in [Account -> (SUBSET Node) \ {{}}]
    /\ box \in [Account -> Seq(Message)]
    /\ gone \in [Account -> SUBSET Hash]
    /\ cache \in [Device -> Cache]
    /\ ops \subseteq Op
    /\ clock \in Nat
    /\ profile \in [Device -> Profile]
    /\ disk \in [Device -> Profile]
    /\ loading \in [Device -> Profile]
    /\ seen \in [Device -> SUBSET Hash]
    /\ events \in [Device -> Seq(Telling)]

\* What is stored as a step of a plan.
StoreFor(d, id, kind, s) ==
    /\ s.msg \in Message
    /\ s.msg.ts = id /\ s.msg.hash[1] = id /\ s.msg.from = AccountOf[d]
    /\ s.msg.kind = "message" => kind = "message"
    /\ s.msg.sync => s.to = AccountOf[d] /\ s.msg.kind \in Both
    /\ s.msg.kind = "message" /\ ~s.msg.sync => s.to # AccountOf[d]

\* A step of a plan, of operation id of kind, at time now.
StepFor(d, id, kind, now, s) ==
    /\ s \in PlanStep
    /\ s.do = "store" => StoreFor(d, id, kind, s) /\ s.msg.profile.name <= now
    /\ s.do # "store" => s.to = AccountOf[d]

\* A plan that operation id of kind may have.
PlanFor(d, id, kind, now, plan) ==
    /\ plan \in Seq(PlanStep)
    /\ \A i \in 1..Len(plan) : StepFor(d, id, kind, now, plan[i])
    /\ \A i, j \in 1..Len(plan) :
         plan[i].do = "store" /\ plan[j].do = "store" /\ plan[i].msg.hash = plan[j].msg.hash => i = j
    /\ \/ \A i \in 1..Len(plan) : plan[i].do = "poll"
       \/ \A i \in 1..Len(plan) : plan[i].do # "poll"

----------------------------------------------------------------------------
(* The plans.                                                              *)

LEMMA PeerIsAnother ==
    ASSUME NEW d \in Device
    PROVE  Peer(d) \in Account /\ Peer(d) # AccountOf[d] /\ AccountOf[d] \in Account
  BY PeerAssumption, SwarmsAssumption DEF Peer

LEMMA NoProfileTyped == NoProfile \in Profile
  BY DEF NoProfile, Profile

LEMMA MessageTyped ==
    ASSUME NEW h \in Hash, NEW from \in Account, NEW kind \in Carried, NEW sync \in BOOLEAN,
           NEW ts \in Nat, NEW about \in Nat, NEW prof \in Profile
    PROVE  [hash |-> h, from |-> from, kind |-> kind, sync |-> sync, ts |-> ts, about |-> about,
            profile |-> prof] \in Message
  BY DEF Message

IsMsg(m, o, from, kind, copy, i, about, prof) ==
    /\ m \in Message
    /\ m.hash = <<o, copy, i>> /\ m.hash[1] = o /\ m.from = from /\ m.kind = kind
    /\ m.ts = o /\ m.about = about /\ m.profile = prof
    /\ m.sync <=> copy = "self" /\ kind \in Both

LEMMA MessageFields ==
    ASSUME NEW o \in Nat, NEW from \in Account, NEW kind \in Carried, NEW copy \in Copies,
           NEW i \in Nat, NEW about \in Nat, NEW prof \in Profile
    PROVE  IsMsg(Msg(o, from, kind, copy, i, about, prof), o, from, kind, copy, i, about, prof)
<1> DEFINE m == Msg(o, from, kind, copy, i, about, prof)
           h == <<o, copy, i>>
           sync == copy = "self" /\ kind \in Both
<1>1. h \in Hash /\ h[1] = o /\ sync \in BOOLEAN
  BY DEF Hash
<1>2. m = [hash |-> h, from |-> from, kind |-> kind, sync |-> sync, ts |-> o, about |-> about,
           profile |-> prof]
  BY Zenon DEF Msg
<1> HIDE DEF m, h, sync
<1>3. m \in Message
  BY <1>1, <1>2, MessageTyped
<1>4. /\ m.hash = h /\ m.from = from /\ m.kind = kind
      /\ m.ts = o /\ m.about = about /\ m.profile = prof
  BY <1>2
<1>5. m.sync = sync
  BY <1>2, Zenon
<1> QED
  BY <1>1, <1>3, <1>4, <1>5, Zenon DEF m, h, sync, IsMsg

\* A message for the peer, and one for the own devices.
IsStep(t, to, d, o, kind, copy, i, about) ==
    /\ t \in PlanStep /\ t.do = "store" /\ t.to = to
    /\ IsMsg(t.msg, o, AccountOf[d], kind, copy, i, Wrapped(kind, about, o), NoProfile)

LEMMA Addressed ==
    ASSUME NEW d \in Device, NEW o \in Nat, NEW kind \in Carried, NEW i \in Nat, NEW about \in Nat
    PROVE  /\ IsStep(ToPeer(d, o, kind, i, about), Peer(d), d, o, kind, "peer", i, about)
           /\ IsStep(ToSelf(d, o, kind, i, about), AccountOf[d], d, o, kind, "self", i, about)
<1> DEFINE p == ToPeer(d, o, kind, i, about)
           s == ToSelf(d, o, kind, i, about)
<1>1. Wrapped(kind, about, o) \in Nat
  BY DEF Wrapped
<1>2. /\ Peer(d) \in Account /\ AccountOf[d] \in Account /\ NoProfile \in Profile
      /\ "peer" \in Copies /\ "self" \in Copies
  BY PeerIsAnother, NoProfileTyped DEF Copies
<1>3. /\ p = [do |-> "store", to |-> Peer(d), hashes |-> {},
              msg |-> Msg(o, AccountOf[d], kind, "peer", i, Wrapped(kind, about, o), NoProfile)]
      /\ s = [do |-> "store", to |-> AccountOf[d], hashes |-> {},
              msg |-> Msg(o, AccountOf[d], kind, "self", i, Wrapped(kind, about, o), NoProfile)]
  BY DEF ToPeer, ToSelf, StoreStep
<1> DEFINE about1 == Wrapped(kind, about, o)
           mp == Msg(o, AccountOf[d], kind, "peer", i, about1, NoProfile)
           ms == Msg(o, AccountOf[d], kind, "self", i, about1, NoProfile)
<1>4. IsMsg(mp, o, AccountOf[d], kind, "peer", i, about1, NoProfile)
  BY <1>1, <1>2, MessageFields
<1>5. IsMsg(ms, o, AccountOf[d], kind, "self", i, about1, NoProfile)
  BY <1>1, <1>2, MessageFields
<1> HIDE DEF mp, ms
<1>7. p = [do |-> "store", to |-> Peer(d), hashes |-> {}, msg |-> mp]
      /\ s = [do |-> "store", to |-> AccountOf[d], hashes |-> {}, msg |-> ms]
  BY <1>3 DEF mp, ms
<1>8. /\ p.do = "store" /\ p.to = Peer(d) /\ p.msg = mp
      /\ s.do = "store" /\ s.to = AccountOf[d] /\ s.msg = ms
  BY <1>7
<1>9. p \in PlanStep /\ s \in PlanStep
  BY <1>2, <1>4, <1>5, <1>7 DEF PlanStep, IsMsg
<1> HIDE DEF about1, p, s
<1>10. /\ IsStep(p, Peer(d), d, o, kind, "peer", i, about)
       /\ IsStep(s, AccountOf[d], d, o, kind, "self", i, about)
  BY <1>4, <1>5, <1>8, <1>9, Zenon DEF about1, IsStep
<1> QED
  BY <1>10 DEF p, s

----------------------------------------------------------------------------
(* The operations.                                                         *)

\* What no step of an operation with a plan changes, and what no step of a request does.
Alike(o, p) == p.dev = o.dev /\ p.id = o.id /\ p.kind = o.kind /\ p.plan = o.plan
Same(o, p)  == /\ p.dev = o.dev /\ p.id = o.id /\ p.kind = o.kind /\ p.plan = o.plan
               /\ p.fresh = o.fresh /\ p.until = o.until

Blank(o) == /\ o.nodes = {} /\ o.list = {} /\ o.target = Undefined /\ o.tries = MaxRetries
            /\ o.misdirected = {} /\ o.got = <<>>

LEMMA OpFields ==
    ASSUME NEW o \in Op
    PROVE  /\ o.dev \in Device /\ o.id \in Nat /\ o.kind \in Kinds /\ o.plan \in Seq(PlanStep)
           /\ o.step \in Nat /\ o.at \in At /\ o.nodes \in SUBSET SnodeRef
           /\ o.list \in SUBSET Ref /\ o.target \in Ref \cup {Undefined}
           /\ o.tries \in 0..MaxRetries /\ o.misdirected \in SUBSET Ref /\ o.got \in Seq(Message)
           /\ o.fresh \in Seq(Message) /\ o.until \in Nat
  BY DEF Op

LEMMA ClearedOp ==
    ASSUME NEW o \in Op, NEW at \in At
    PROVE  /\ Cleared(o, at) \in Op /\ Same(o, Cleared(o, at)) /\ Blank(Cleared(o, at))
           /\ Cleared(o, at).at = at /\ Cleared(o, at).step = o.step
<1> DEFINE c == Cleared(o, at)
<1>1. MaxRetries \in 0..MaxRetries /\ <<>> \in Seq(Message)
  BY SwarmsAssumption
<1>2. c = [o EXCEPT !.at = at, !.nodes = {}, !.list = {}, !.target = Undefined,
                    !.tries = MaxRetries, !.misdirected = {}, !.got = <<>>]
  BY DEF Cleared
<1> HIDE DEF c
<1>3. c \in Op
  BY <1>1, <1>2 DEF Op
<1>4. Same(o, c) /\ c.at = at /\ c.step = o.step
  BY <1>2 DEF Op, Same
<1>5. Blank(c)
  BY <1>2 DEF Op, Blank
<1> QED
  BY <1>3, <1>4, <1>5 DEF c

LEMMA RejectedOp ==
    ASSUME NEW o \in Op
    PROVE  /\ Rejected(o) \in Op /\ Same(o, Rejected(o)) /\ Blank(Rejected(o))
           /\ Rejected(o).at = "rejected" /\ Rejected(o).step = o.step
  BY ClearedOp DEF Rejected, At

LEMMA AdvancedOp ==
    ASSUME NEW o \in Op
    PROVE  /\ Advanced(o) \in Op /\ Same(o, Advanced(o)) /\ Blank(Advanced(o))
           /\ \/ o.step = Len(o.plan) /\ Advanced(o).at = "resolved" /\ Advanced(o).step = o.step
              \/ o.step # Len(o.plan) /\ Advanced(o).at = "locate" /\ Advanced(o).step = o.step + 1
<1>1. CASE o.step = Len(o.plan)
  BY <1>1, ClearedOp DEF Advanced, At
<1>2. CASE o.step # Len(o.plan)
  <2> DEFINE c == Cleared(o, "locate")
  <2>1. c \in Op /\ Same(o, c) /\ Blank(c) /\ c.at = "locate"
    BY ClearedOp DEF At, Asking
  <2>2. Advanced(o) = [c EXCEPT !.step = o.step + 1]
    BY <1>2 DEF Advanced
  <2> HIDE DEF c
  <2>3. o.step + 1 \in Nat
    BY OpFields
  <2> DEFINE p == Advanced(o)
  <2> HIDE DEF p
  <2>4. p = [c EXCEPT !.step = o.step + 1]
    BY <2>2 DEF p
  <2>5. p \in Op
    BY <2>1, <2>3, <2>4 DEF Op
  <2>6. p.step = o.step + 1 /\ p.at = c.at
    BY <2>1, <2>4 DEF Op
  <2>8. Same(c, p)
    BY <2>1, <2>4 DEF Op, Same
  <2>7. Blank(p)
    BY <2>1, <2>4 DEF Op, Blank
  <2> QED
    BY <1>2, <2>1, <2>5, <2>6, <2>7, <2>8 DEF Same, p
<1> QED
  BY <1>1, <1>2

LEMMA AgainOp ==
    ASSUME NEW o \in Op, NEW at \in At
    PROVE  /\ Again(o, at) \in Op /\ Same(o, Again(o, at)) /\ Again(o, at).step = o.step
           /\ Again(o, at).target = Undefined
           /\ \/ o.tries = 0 /\ Again(o, at) = Rejected(o)
              \/ /\ o.tries # 0 /\ Again(o, at).at = at /\ Again(o, at).nodes = o.nodes
                 /\ Again(o, at).list = o.list /\ Again(o, at).misdirected = o.misdirected
                 /\ Again(o, at).got = o.got
<1>1. CASE o.tries = 0
  BY <1>1, RejectedOp DEF Again, Blank
<1>2. CASE o.tries # 0
  <2>1. o.tries - 1 \in 0..MaxRetries
    BY <1>2, SwarmsAssumption, OpFields
  <2>2. Again(o, at) = [o EXCEPT !.at = at, !.target = Undefined, !.tries = o.tries - 1]
    BY <1>2 DEF Again
  <2> QED
    BY <1>2, <2>1, <2>2 DEF Op, Same
<1> QED
  BY <1>1, <1>2

LEMMA KindsCarried ==
    /\ Range(EventOrder) = {"message", "syncMessage", "reaction", "unreact", "unsend", "read",
                            "typing", "screenshot", "mediaSaved", "accept", "call"}
    /\ Carried = Range(EventOrder) \cup {"config"}
<1> DEFINE all == {"message", "syncMessage", "reaction", "unreact", "unsend", "read",
                   "typing", "screenshot", "mediaSaved", "accept", "call"}
<1>1. DOMAIN EventOrder = {1, 2, 3, 4, 5, 6, 7, 8, 9, 10, 11}
  BY DEF EventOrder
<1>2. Range(EventOrder) = {EventOrder[k] : k \in {1, 2, 3, 4, 5, 6, 7, 8, 9, 10, 11}}
  BY <1>1 DEF Range
<1>3. /\ EventOrder[1] = "message" /\ EventOrder[2] = "syncMessage" /\ EventOrder[3] = "reaction"
      /\ EventOrder[4] = "unreact" /\ EventOrder[5] = "unsend" /\ EventOrder[6] = "read"
      /\ EventOrder[7] = "typing" /\ EventOrder[8] = "screenshot" /\ EventOrder[9] = "mediaSaved"
      /\ EventOrder[10] = "accept" /\ EventOrder[11] = "call"
  BY DEF EventOrder
<1>4. Range(EventOrder) = all
  BY <1>2, <1>3
<1> QED
  BY <1>4 DEF Carried

LEMMA StepsAddressed ==
    ASSUME NEW d \in Device, NEW id \in Nat, NEW kind, NEW now \in Nat,
           NEW k \in Carried, k = "message" => kind = "message", NEW i \in Nat, NEW about \in Nat
    PROVE  /\ StepFor(d, id, kind, now, ToPeer(d, id, k, i, about))
           /\ StepFor(d, id, kind, now, ToSelf(d, id, k, i, about))
<1> DEFINE p == ToPeer(d, id, k, i, about)
           s == ToSelf(d, id, k, i, about)
           x == Wrapped(k, about, id)
<1> HIDE DEF p, s, x
<1>2. /\ p \in PlanStep /\ p.do = "store" /\ p.to = Peer(d)
      /\ IsMsg(p.msg, id, AccountOf[d], k, "peer", i, x, NoProfile)
      /\ s \in PlanStep /\ s.do = "store" /\ s.to = AccountOf[d]
      /\ IsMsg(s.msg, id, AccountOf[d], k, "self", i, x, NoProfile)
  BY Addressed DEF p, s, x, IsStep
<1>3. NoProfile.name = 0 /\ Peer(d) # AccountOf[d] /\ "peer" # "self"
  BY PeerIsAnother DEF NoProfile
<1>4. StepFor(d, id, kind, now, p)
  BY <1>2, <1>3 DEF StepFor, StoreFor, IsMsg, Both
<1>5. StepFor(d, id, kind, now, s)
  BY <1>2, <1>3 DEF StepFor, StoreFor, IsMsg, Both
<1> QED
  BY <1>4, <1>5 DEF p, s

\* What is stored has a hash.
Hashed(t, hash) == t.do = "store" /\ t.msg.hash = hash

LEMMA StepsHashed ==
    ASSUME NEW d \in Device, NEW id \in Nat, NEW k \in Carried, NEW i \in Nat, NEW about \in Nat
    PROVE  /\ Hashed(ToPeer(d, id, k, i, about), <<id, "peer", i>>)
           /\ Hashed(ToSelf(d, id, k, i, about), <<id, "self", i>>)
<1>1. /\ IsStep(ToPeer(d, id, k, i, about), Peer(d), d, id, k, "peer", i, about)
      /\ IsStep(ToSelf(d, id, k, i, about), AccountOf[d], d, id, k, "self", i, about)
  BY Addressed
<1> QED
  BY <1>1 DEF IsStep, IsMsg, Hashed

LEMMA OneStep ==
    ASSUME NEW d, NEW id, NEW kind, NEW now, NEW s, StepFor(d, id, kind, now, s)
    PROVE  PlanFor(d, id, kind, now, <<s>>) /\ <<s>> # <<>>
  BY DEF PlanFor, StepFor

LEMMA TwoSteps ==
    ASSUME NEW d, NEW id, NEW kind, NEW now, NEW s, StepFor(d, id, kind, now, s),
           NEW t, StepFor(d, id, kind, now, t), s.do = "store", t.do = "store",
           s.msg.hash # t.msg.hash
    PROVE  PlanFor(d, id, kind, now, <<s, t>>) /\ <<s, t>> # <<>>
  BY DEF PlanFor, StepFor

LEMMA SendPlanned ==
    ASSUME NEW d \in Device, NEW id \in Nat, NEW now \in Nat, NEW kind \in Both \cup Notices,
           NEW about \in Nat, NEW plan \in Plans(d, id, kind, about)
    PROVE  PlanFor(d, id, kind, now, plan) /\ plan # <<>>
<1>1. kind \in Carried
  BY KindsCarried DEF Carried, Both, Notices
<1> DEFINE p(x) == ToPeer(d, id, kind, 1, x)
           s(x) == ToSelf(d, id, kind, 1, x)
<1>2. ASSUME NEW x \in Nat
      PROVE  /\ PlanFor(d, id, kind, now, <<p(x), s(x)>>) /\ <<p(x), s(x)>> # <<>>
             /\ PlanFor(d, id, kind, now, <<p(x)>>) /\ <<p(x)>> # <<>>
             /\ PlanFor(d, id, kind, now, <<s(x)>>) /\ <<s(x)>> # <<>>
  <2>1. /\ StepFor(d, id, kind, now, p(x)) /\ StepFor(d, id, kind, now, s(x))
        /\ Hashed(p(x), <<id, "peer", 1>>)
        /\ Hashed(s(x), <<id, "self", 1>>)
    <3>1. StepFor(d, id, kind, now, p(x)) /\ StepFor(d, id, kind, now, s(x))
      BY <1>1, StepsAddressed
    <3>2. /\ Hashed(p(x), <<id, "peer", 1>>)
          /\ Hashed(s(x), <<id, "self", 1>>)
      BY <1>1, StepsHashed
    <3> QED
      BY <3>1, <3>2
  <2> HIDE DEF p, s
  <2>2. p(x).msg.hash # s(x).msg.hash
    BY <2>1 DEF Hashed
  <2> QED
    BY <2>1, <2>2, OneStep, TwoSteps DEF Hashed
<1>3. CASE kind = "message"
  BY <1>2, <1>3 DEF Plans, MessagePlan
<1>4. CASE kind \in {"reaction", "unreact"}
  BY <1>2, <1>4 DEF Plans, ReactionPlan
<1>5. CASE kind = "call"
  <2>1. PICK sync \in BOOLEAN : plan = CallPlan(d, id, sync)
    BY <1>5 DEF Plans
  <2>2. plan \in {<<p(0)>>, <<s(0)>>}
    BY <1>5, <2>1 DEF CallPlan
  <2> QED
    BY <1>2, <2>2
<1>6. CASE kind \in {"read", "typing", "screenshot", "mediaSaved", "accept"}
  <2>1. plan \in {<<p(0)>>, <<p(about)>>}
    BY <1>6 DEF Plans, ReadPlan, TypingPlan, NotificationPlan, AcceptPlan
  <2> QED
    BY <1>2, <2>1
<1> QED
  BY <1>3, <1>4, <1>5, <1>6 DEF Both, Notices

LEMMA PollPlanned ==
    ASSUME NEW d \in Device, NEW id \in Nat, NEW now \in Nat
    PROVE  PlanFor(d, id, "poll", now, PollPlan(d)) /\ PollPlan(d) # <<>>
<1>1. StepFor(d, id, "poll", now, [do |-> "poll", to |-> AccountOf[d], msg |-> NoMsg, hashes |-> {}])
  BY PeerIsAnother DEF StepFor, PlanStep
<1> QED
  BY <1>1, OneStep DEF PollPlan

LEMMA ConfigPlanned ==
    ASSUME NEW d \in Device, NEW id \in Nat, NEW now \in Nat, profile[d] \in Profile,
           profile[d].name <= now
    PROVE  PlanFor(d, id, "rename", now, ConfigPlan(d, id)) /\ ConfigPlan(d, id) # <<>>
<1> DEFINE m == Msg(id, AccountOf[d], "config", "self", 1, 0, profile[d])
           s == [do |-> "store", to |-> AccountOf[d], msg |-> m, hashes |-> {}]
<1>1. AccountOf[d] \in Account /\ "self" \in Copies /\ "config" \in Carried /\ 0 \in Nat /\ 1 \in Nat
  BY PeerIsAnother DEF Copies, Carried
<1>2. IsMsg(m, id, AccountOf[d], "config", "self", 1, 0, profile[d])
  BY <1>1, MessageFields, Zenon
<1> HIDE DEF m
<1>3. s \in PlanStep
  BY <1>1, <1>2 DEF PlanStep, IsMsg
<1>4. s.do = "store" /\ s.msg = m /\ s.to = AccountOf[d]
  OBVIOUS
<1>5. ConfigPlan(d, id) = <<s>>
  BY DEF ConfigPlan, StoreStep, m
<1> HIDE DEF s
<1>6. StepFor(d, id, "rename", now, s)
  BY <1>2, <1>3, <1>4 DEF StepFor, StoreFor, IsMsg, Carried, Both
<1> QED
  BY <1>5, <1>6, OneStep

\* c is a followed by b.
Follows(a, b, c) == /\ Len(c) = Len(a) + Len(b)
                    /\ \A i \in 1..Len(a) : c[i] = a[i]
                    /\ \A i \in 1..Len(b) : c[i + Len(a)] = b[i]

LEMMA Concatenation ==
    ASSUME NEW X, NEW a \in Seq(X), NEW b \in Seq(X)
    PROVE  a \o b \in Seq(X) /\ Follows(a, b, a \o b)
<1>1. a \o b \in Seq(X) /\ Len(a \o b) = Len(a) + Len(b)
  OBVIOUS
<1>2. \A i \in 1..Len(a) : (a \o b)[i] = a[i]
  OBVIOUS
<1>3. \A i \in 1..Len(b) : (a \o b)[i + Len(a)] = b[i]
  OBVIOUS
<1> QED
  BY <1>1, <1>2, <1>3 DEF Follows

LEMMA DeletePlanned ==
    ASSUME NEW d \in Device, NEW id \in Nat, NEW now \in Nat, NEW abouts \in Seq(Nat)
    PROVE  PlanFor(d, id, "delete", now, DeletePlan(d, id, abouts)) /\ DeletePlan(d, id, abouts) # <<>>
<1> DEFINE f == FromSwarm(d, abouts)
           n == Len(abouts)
           peers == [i \in DOMAIN abouts |-> ToPeer(d, id, "unsend", i, abouts[i])]
           selves == [i \in DOMAIN abouts |-> ToSelf(d, id, "unsend", i, abouts[i])]
           plan == <<f>> \o (peers \o selves)
<1>1. /\ f \in PlanStep /\ f.do = "delete" /\ f.to = AccountOf[d]
  <2>1. {<<abouts[i], "peer", 1>> : i \in DOMAIN abouts} \in SUBSET Hash
    BY DEF Hash, Copies
  <2> QED
    BY <2>1, PeerIsAnother DEF FromSwarm, PlanStep
<1>2. n \in Nat /\ DOMAIN abouts = 1..n /\ "unsend" \in Carried
  BY KindsCarried DEF Carried
<1>3. ASSUME NEW i \in 1..n
      PROVE  /\ StepFor(d, id, "delete", now, peers[i]) /\ StepFor(d, id, "delete", now, selves[i])
             /\ peers[i].do = "store" /\ peers[i].msg.hash = <<id, "peer", i>>
             /\ selves[i].do = "store" /\ selves[i].msg.hash = <<id, "self", i>>
  <2>1. i \in Nat /\ abouts[i] \in Nat /\ ("unsend" = "message" => "delete" = "message")
    BY <1>2
  <2>2. peers[i] = ToPeer(d, id, "unsend", i, abouts[i]) /\ selves[i] = ToSelf(d, id, "unsend", i, abouts[i])
    BY <1>2
  <2> HIDE DEF peers, selves
  <2>3. /\ StepFor(d, id, "delete", now, ToPeer(d, id, "unsend", i, abouts[i]))
        /\ StepFor(d, id, "delete", now, ToSelf(d, id, "unsend", i, abouts[i]))
    BY <1>2, <2>1, StepsAddressed
  <2>4. /\ Hashed(ToPeer(d, id, "unsend", i, abouts[i]), <<id, "peer", i>>)
        /\ Hashed(ToSelf(d, id, "unsend", i, abouts[i]), <<id, "self", i>>)
    BY <1>2, <2>1, StepsHashed
  <2> QED
    BY <2>2, <2>3, <2>4 DEF Hashed
<1>4. peers \in Seq(PlanStep) /\ Len(peers) = n /\ selves \in Seq(PlanStep) /\ Len(selves) = n
  <2>1. \A i \in 1..n : peers[i] \in PlanStep /\ selves[i] \in PlanStep
    BY <1>3 DEF StepFor
  <2>2. peers \in [1..n -> PlanStep] /\ selves \in [1..n -> PlanStep]
    BY <1>2, <2>1
  <2> HIDE DEF peers, selves, n
  <2> QED
    BY <1>2, <2>2
<1>5. DeletePlan(d, id, abouts) = plan
  BY DEF DeletePlan, Unsends
<1> HIDE DEF f, peers, selves, n
<1>6. /\ plan \in Seq(PlanStep) /\ Len(plan) = n + n + 1
      /\ plan[1] = f
      /\ \A i \in 1..n : plan[i + 1] = peers[i] /\ plan[i + n + 1] = selves[i]
  <2> DEFINE both == peers \o selves
             head == <<f>>
  <2>1. both \in Seq(PlanStep) /\ Follows(peers, selves, both)
    BY <1>4, Concatenation
  <2>2. head \in Seq(PlanStep) /\ Len(head) = 1 /\ head[1] = f
    BY <1>1
  <2> HIDE DEF head, both
  <2>5. plan \in Seq(PlanStep) /\ Follows(head, both, plan)
    BY <2>1, <2>2, Concatenation DEF head, both
  <2> HIDE DEF plan
  <2>6. /\ Len(both) = n + n
        /\ \A i \in 1..n : both[i] = peers[i] /\ both[i + n] = selves[i]
    BY <1>2, <1>4, <2>1 DEF Follows
  <2>3. /\ Len(plan) = n + n + 1 /\ plan[1] = f
        /\ \A i \in 1..(n + n) : plan[i + 1] = both[i]
    BY <1>2, <2>2, <2>5, <2>6 DEF Follows
  <2>4. ASSUME NEW i \in 1..n
        PROVE  plan[i + 1] = peers[i] /\ plan[i + n + 1] = selves[i]
    <3>1. i \in 1..(n + n) /\ i + n \in 1..(n + n) /\ i + n + 1 = (i + n) + 1
      BY <1>2
    <3> QED
      BY <2>6, <2>3, <3>1
  <2> QED
    BY <2>3, <2>4, <2>5
<1> HIDE DEF plan
<1>7. ASSUME NEW i \in 1..Len(plan), i # 1
      PROVE  \/ i - 1 \in 1..n /\ plan[i] = peers[i - 1]
             \/ i - n - 1 \in 1..n /\ plan[i] = selves[i - n - 1]
  <2>1. CASE i <= n + 1
    <3>1. i - 1 \in 1..n /\ (i - 1) + 1 = i
      BY <1>2, <1>6, <1>7, <2>1
    <3> QED
      BY <1>6, <3>1
  <2>2. CASE ~(i <= n + 1)
    <3>1. i - n - 1 \in 1..n /\ (i - n - 1) + n + 1 = i
      BY <1>2, <1>6, <1>7, <2>2
    <3> QED
      BY <1>6, <3>1
  <2> QED
    BY <2>1, <2>2
<1>8. ASSUME NEW i \in 1..Len(plan)
      PROVE  StepFor(d, id, "delete", now, plan[i]) /\ plan[i].do # "poll"
  <2>1. CASE i = 1
    BY <2>1, <1>1, <1>6 DEF StepFor
  <2>2. CASE i # 1
    BY <2>2, <1>3, <1>7
  <2> QED
    BY <2>1, <2>2
<1>9. ASSUME NEW i \in 1..Len(plan), plan[i].do = "store"
      PROVE  \/ i - 1 \in 1..n /\ plan[i].msg.hash = <<id, "peer", i - 1>>
             \/ i - n - 1 \in 1..n /\ plan[i].msg.hash = <<id, "self", i - n - 1>>
  BY <1>1, <1>3, <1>6, <1>7, <1>9, SMTT(30)
<1>10. ASSUME NEW i \in 1..Len(plan), NEW j \in 1..Len(plan), plan[i].do = "store", plan[j].do = "store",
              plan[i].msg.hash = plan[j].msg.hash
       PROVE  i = j
  <2>1. \/ i - 1 \in 1..n /\ plan[i].msg.hash = <<id, "peer", i - 1>>
        \/ i - n - 1 \in 1..n /\ plan[i].msg.hash = <<id, "self", i - n - 1>>
    BY <1>9, <1>10
  <2>2. \/ j - 1 \in 1..n /\ plan[j].msg.hash = <<id, "peer", j - 1>>
        \/ j - n - 1 \in 1..n /\ plan[j].msg.hash = <<id, "self", j - n - 1>>
    BY <1>9, <1>10
  <2>3. i - 1 = j - 1 \/ i - n - 1 = j - n - 1
    BY <1>10, <2>1, <2>2
  <2> QED
    BY <1>2, <1>6, <2>3
<1>11. PlanFor(d, id, "delete", now, plan)
  BY <1>6, <1>8, <1>10 DEF PlanFor
<1>12. plan # <<>>
  BY <1>2, <1>6
<1> QED
  BY <1>5, <1>11, <1>12

----------------------------------------------------------------------------
(* What the steps keep.                                                    *)

MessageOK(m, now) == m \in Message /\ m.ts \in 1..now /\ m.profile.name <= now

HasSnodes(c, now) == c.snodes \in SUBSET [node : Snode, fetch : 1..now]
HasSwarms(c)      == c.ourSwarms \in SUBSET [node : Node, fetch : 1..c.fetches]

CacheOK(c, now) ==
    /\ c \in Cache
    /\ c.snodes # Undefined => HasSnodes(c, now)
    /\ c.ourSwarms # Undefined => HasSwarms(c)
    /\ c.ourSwarm # Undefined => c.ourSwarm \in [node : Node, fetch : 1..c.fetches] /\ HasSwarms(c)

\* An operation, with the cache and the box of its Session: what is undefined is not used.
OpOK(o, c, b, now) ==
    /\ o \in Op
    /\ o.id \in 1..now
    /\ o.plan = <<>> => o.step = 1
    /\ o.plan # <<>> => PlanFor(o.dev, o.id, o.kind, now, o.plan) /\ o.step \in 1..Len(o.plan)
    /\ o.at \in Asking \cup {"received", "marking"} => o.plan # <<>>
    /\ o.at \in {"upload", "save"} => o.plan = <<>>
    /\ o.at \in {"received", "marking"} => Step(o).do = "poll"
    /\ o.at = "marking" => o.got # <<>>
    /\ o.at = "sent" <=> o.target # Undefined
    /\ o.at = "swarms" => HasSnodes(c, now)
    /\ o.at \in {"ask", "sent"} /\ Own(o) => HasSwarms(c)
    /\ Range(o.got) \subseteq Range(b)
    /\ \A m \in Range(o.fresh) : MessageOK(m, now)

OpsOK == \A o \in ops : OpOK(o, cache[o.dev], box[AccountOf[o.dev]], clock)

Typed ==
    /\ StateTypes
    /\ \A a \in Account : \A i \in 1..Len(box[a]) : MessageOK(box[a][i], clock)
    /\ \A d \in Device : CacheOK(cache[d], clock)
    /\ OpsOK
    /\ \A o, p \in ops : o.id = p.id => o = p
    /\ \A d \in Device : /\ profile[d].name <= clock /\ disk[d].name <= clock
                         /\ loading[d].name <= clock

\* What an operation may rely on stays.
CacheGrows(c, e, now) == /\ HasSnodes(c, now) => HasSnodes(e, now)
                         /\ HasSwarms(c) => HasSwarms(e)

LEMMA TypedImpliesTypeOK == Typed => TypeOK
<1> SUFFICES ASSUME Typed PROVE TypeOK
  OBVIOUS
<1>1. members \in [Account -> (SUBSET Node) \ {{}}]
  BY DEF Typed, StateTypes
<1>2. \A a \in Account : \A i \in DOMAIN box[a] : box[a][i].ts \in 1..clock
  <2>1. \A a \in Account : DOMAIN box[a] = 1..Len(box[a])
    BY DEF Typed, StateTypes
  <2> QED
    BY <2>1 DEF Typed, MessageOK
<1>3. gone \in [Account -> SUBSET (Nat \X {"peer", "self"} \X Nat)]
  BY DEF Typed, StateTypes, Hash, Copies
<1>4. ASSUME NEW d \in Device
      PROVE  LET c == cache[d]
             IN  /\ c.snodes # Undefined => c.snodes \subseteq [node : Snode, fetch : 1..clock]
                 /\ c.ourSwarms # Undefined => c.ourSwarms \subseteq [node : Node, fetch : 1..c.fetches]
                 /\ c.ourSwarm # Undefined => c.ourSwarm.fetch \in 1..c.fetches
  <2>1. CacheOK(cache[d], clock)
    BY DEF Typed
  <2> QED
    BY <2>1 DEF CacheOK, HasSnodes, HasSwarms
<1>5. ASSUME NEW o \in ops
      PROVE  /\ o.dev \in Device /\ o.kind \in Kinds /\ o.id \in 1..clock /\ o.tries \in 0..MaxRetries
             /\ o.at \in {"upload", "save", "locate", "snodes", "swarms", "ask", "sent", "received",
                          "marking", "resolved", "rejected", "lost"}
             /\ o.step \in DOMAIN o.plan \/ o.plan = <<>>
             /\ o.at = "sent" <=> o.target # Undefined
  <2>1. OpOK(o, cache[o.dev], box[AccountOf[o.dev]], clock)
    BY DEF Typed, OpsOK
  <2>2. o \in Op
    BY <2>1 DEF OpOK
  <2>3. o.dev \in Device /\ o.kind \in Kinds /\ o.tries \in 0..MaxRetries
    BY <2>2, OpFields
  <2>4. o.at \in {"upload", "save", "locate", "snodes", "swarms", "ask", "sent", "received",
                  "marking", "resolved", "rejected", "lost"}
    BY <2>2, OpFields DEF At, Asking
  <2>5. o.plan # <<>> => o.step \in DOMAIN o.plan
    <3>1. DOMAIN o.plan = 1..Len(o.plan)
      BY <2>2, OpFields
    <3> QED
      BY <2>1, <3>1 DEF OpOK
  <2> QED
    BY <2>1, <2>3, <2>4, <2>5 DEF OpOK
<1>6. ASSUME NEW d \in Device
      PROVE  /\ profile[d].name \in 0..clock
             /\ profile[d].avatar # Undefined => profile[d].avatar \in Avatar
             /\ disk[d].avatar # Undefined => disk[d].avatar \in Avatar
  <2>1. profile[d] \in Profile /\ disk[d] \in Profile /\ clock \in Nat /\ profile[d].name <= clock
    BY DEF Typed, StateTypes
  <2> QED
    BY <2>1 DEF Profile
<1>7. \A o, p \in ops : o.id = p.id => o = p
  BY DEF Typed
<1> QED
  BY <1>1, <1>2, <1>3, <1>4, <1>5, <1>6, <1>7 DEF TypeOK

LEMMA PlanLater ==
    ASSUME NEW d, NEW id, NEW kind, NEW now \in Nat, NEW later \in Nat, now <= later,
           NEW plan, PlanFor(d, id, kind, now, plan)
    PROVE  PlanFor(d, id, kind, later, plan)
<1>1. ASSUME NEW s, StepFor(d, id, kind, now, s)
      PROVE  StepFor(d, id, kind, later, s)
  <2>1. CASE s.do = "store"
    <3>1. s.msg.profile.name \in Nat /\ s.msg.profile.name <= now
      BY <1>1, <2>1 DEF StepFor, StoreFor, Message, Profile
    <3> QED
      BY <1>1, <2>1, <3>1 DEF StepFor
  <2>2. CASE s.do # "store"
    BY <1>1, <2>2 DEF StepFor
  <2> QED
    BY <2>1, <2>2
<1> QED
  BY <1>1 DEF PlanFor

LEMMA OpLater ==
    ASSUME NEW o, NEW c, NEW b, NEW now \in Nat, OpOK(o, c, b, now),
           NEW e, NEW bb, NEW later \in Nat, CacheGrows(c, e, now), Range(b) \subseteq Range(bb), now <= later
    PROVE  OpOK(o, e, bb, later)
<1>1. o.plan # <<>> => PlanFor(o.dev, o.id, o.kind, later, o.plan)
  BY PlanLater DEF OpOK
<1>2. o.id \in 1..later
  BY DEF OpOK
<1>3. HasSnodes(c, now) => HasSnodes(e, later)
  BY DEF CacheGrows, HasSnodes
<1>4. ASSUME NEW m, MessageOK(m, now)
      PROVE  MessageOK(m, later)
  BY <1>4 DEF MessageOK, Message, Profile
<1> QED
  BY <1>1, <1>2, <1>3, <1>4 DEF OpOK, CacheGrows

LEMMA RangeAppend ==
    ASSUME NEW X, NEW s \in Seq(X), NEW x \in X
    PROVE  /\ Append(s, x) \in Seq(X) /\ Len(Append(s, x)) = Len(s) + 1
           /\ Append(s, x)[Len(s) + 1] = x /\ \A i \in 1..Len(s) : Append(s, x)[i] = s[i]
           /\ Range(s) \subseteq Range(Append(s, x))
           /\ Range(Append(s, x)) = Range(s) \cup {x}
<1> DEFINE t == Append(s, x)
<1>1. /\ t \in Seq(X) /\ Len(t) = Len(s) + 1 /\ t[Len(s) + 1] = x /\ Len(s) \in Nat
      /\ \A i \in 1..Len(s) : t[i] = s[i]
  OBVIOUS
<1>2. DOMAIN s = 1..Len(s) /\ DOMAIN t = 1..(Len(s) + 1)
  BY <1>1
<1> HIDE DEF t
<1>3. Range(s) \subseteq Range(t)
  BY <1>1, <1>2 DEF Range
<1>4. Range(t) = Range(s) \cup {x}
  BY <1>1, <1>2, <1>3 DEF Range
<1> QED
  BY <1>1, <1>3, <1>4 DEF t

----------------------------------------------------------------------------
(* The steps of a request.                                                 *)

\* What a request leaves behind of what others rely on, and what it puts in a box.
Surroundings(o) ==
    /\ members' = members
    /\ box' \in [Account -> Seq(Message)]
    /\ \A a \in Account : \A i \in 1..Len(box'[a]) : MessageOK(box'[a][i], clock)
    /\ \A a \in Account :
         \/ box'[a] = box[a]
         \/ /\ o.at = "sent" /\ Step(o).do = "store" /\ a = Step(o).to
            /\ Step(o).msg \notin Range(box[a])
            /\ box'[a] = Append(box[a], Step(o).msg)
    /\ gone' \in [Account -> SUBSET Hash]
    /\ cache' \in [Device -> Cache]
    /\ \A d \in Device : CacheOK(cache'[d], clock) /\ CacheGrows(cache[d], cache'[d], clock)

\* o stays in its step, or has done it.
Progress(o, p) ==
    \/ p.step = o.step /\ p.at \notin {"resolved", "upload", "save", "marking"}
    \/ /\ o.at = "sent"
       /\ Step(o).do = "store" => Step(o).msg \in Range(box'[Step(o).to])
       /\ \/ p.step = o.step /\ p.step = Len(o.plan) /\ p.at = "resolved"
          \/ p.step = o.step + 1 /\ p.at = "locate"

Turns(o, p) == /\ Becomes(o, p) /\ Same(o, p) /\ Progress(o, p)
               /\ OpOK(p, cache'[o.dev], box'[AccountOf[o.dev]], clock)

LEMMA TypedFacts ==
    ASSUME Typed, NEW o \in ops
    PROVE  /\ OpOK(o, cache[o.dev], box[AccountOf[o.dev]], clock)
           /\ o \in Op /\ o.dev \in Device /\ AccountOf[o.dev] \in Account
           /\ CacheOK(cache[o.dev], clock) /\ clock \in Nat
           /\ cache \in [Device -> Cache] /\ box \in [Account -> Seq(Message)]
           /\ gone \in [Account -> SUBSET Hash] /\ members \in [Account -> (SUBSET Node) \ {{}}]
<1>1. OpOK(o, cache[o.dev], box[AccountOf[o.dev]], clock)
  BY DEF Typed, OpsOK
<1>2. o \in Op /\ o.dev \in Device
  BY <1>1, OpFields DEF OpOK
<1> QED
  BY <1>1, <1>2, PeerIsAnother DEF Typed, StateTypes

LEMMA CachesOK ==
    ASSUME Typed, NEW o \in ops, NEW c, Caches(o, c), CacheOK(c, clock), CacheGrows(cache[o.dev], c, clock)
    PROVE  /\ cache' \in [Device -> Cache] /\ cache'[o.dev] = c
           /\ \A d \in Device : CacheOK(cache'[d], clock) /\ CacheGrows(cache[d], cache'[d], clock)
<1>1. cache' = [cache EXCEPT ![o.dev] = c] /\ c \in Cache
  BY DEF Caches, CacheOK
<1>2. cache' \in [Device -> Cache] /\ cache'[o.dev] = c /\ \A d \in Device \ {o.dev} : cache'[d] = cache[d]
  BY <1>1, TypedFacts
<1> QED
  BY <1>2 DEF CacheGrows, Typed

LEMMA BoxKept ==
    ASSUME Typed, NEW o \in ops, UNCHANGED <<members, box, gone>>
    PROVE  /\ members' = members
           /\ box' \in [Account -> Seq(Message)]
           /\ \A a \in Account : \A i \in 1..Len(box'[a]) : MessageOK(box'[a][i], clock)
           /\ \A a \in Account : box'[a] = box[a]
           /\ gone' \in [Account -> SUBSET Hash]
  BY DEF Typed, StateTypes

LEMMA CacheKept ==
    ASSUME Typed, cache' = cache
    PROVE  /\ cache' \in [Device -> Cache]
           /\ \A d \in Device : CacheOK(cache'[d], clock) /\ CacheGrows(cache[d], cache'[d], clock)
  BY DEF Typed, StateTypes, CacheGrows

LEMMA StepTyped ==
    ASSUME NEW o, NEW c, NEW b, NEW now, OpOK(o, c, b, now), o.plan # <<>>
    PROVE  /\ Step(o) \in PlanStep /\ o.step \in 1..Len(o.plan) /\ Len(o.plan) \in Nat
           /\ Step(o).to \in Account
           /\ StepFor(o.dev, o.id, o.kind, now, Step(o))
           /\ Step(o).do = "store" => StoreFor(o.dev, o.id, o.kind, Step(o)) /\ MessageOK(Step(o).msg, now)
           /\ Step(o).do # "store" => Own(o)
           /\ Step(o).do \in {"store", "delete", "poll"}
<1>1. PlanFor(o.dev, o.id, o.kind, now, o.plan) /\ o.step \in 1..Len(o.plan) /\ o.id \in 1..now
  BY DEF OpOK
<1>2. StepFor(o.dev, o.id, o.kind, now, Step(o))
  BY <1>1 DEF PlanFor, Step
<1>3. Step(o) \in PlanStep
  BY <1>2 DEF StepFor
<1>4. Step(o).do = "store" => StoreFor(o.dev, o.id, o.kind, Step(o)) /\ MessageOK(Step(o).msg, now)
  BY <1>1, <1>2 DEF StepFor, StoreFor, MessageOK
<1>5. Step(o).do # "store" => Own(o)
  BY <1>2 DEF StepFor, Own
<1>6. Len(o.plan) \in Nat
  BY <1>1 DEF PlanFor
<1> QED
  BY <1>1, <1>2, <1>3, <1>4, <1>5, <1>6 DEF PlanStep

\* The invariant of an operation that stays in its step.
LEMMA OpStays ==
    ASSUME NEW o, NEW c, NEW b, NEW now \in Nat, OpOK(o, c, b, now), NEW e, NEW bb,
           NEW p \in Op, Same(o, p), p.step = o.step,
           p.at \in Asking \cup {"received", "marking"} => o.plan # <<>>,
           p.at \in {"upload", "save"} => o.plan = <<>>,
           p.at \in {"received", "marking"} => Step(o).do = "poll",
           p.at = "marking" => p.got # <<>>,
           p.at = "sent" <=> p.target # Undefined,
           p.at = "swarms" => HasSnodes(e, now),
           p.at \in {"ask", "sent"} /\ Own(o) => HasSwarms(e),
           Range(p.got) \subseteq Range(bb)
    PROVE  OpOK(p, e, bb, now) /\ Own(p) = Own(o)
<1>1. Step(p) = Step(o)
  BY DEF Same, Step
<1>2. Own(p) = Own(o)
  BY <1>1 DEF Same, Own
<1>3. p.dev = o.dev /\ p.id = o.id /\ p.kind = o.kind /\ p.plan = o.plan /\ p.fresh = o.fresh
  BY DEF Same
<1> QED
  BY <1>1, <1>2, <1>3 DEF OpOK

LEMMA NothingGot == Range(<<>>) = {}
  BY DEF Range

\* One that gives up.
LEMMA OpRejected ==
    ASSUME NEW o, NEW c, NEW b, NEW now \in Nat, OpOK(o, c, b, now), NEW e, NEW bb
    PROVE  /\ OpOK(Rejected(o), e, bb, now) /\ Same(o, Rejected(o))
           /\ Rejected(o).step = o.step /\ Rejected(o).at = "rejected"
<1> DEFINE p == Rejected(o)
<1>1. o \in Op
  BY DEF OpOK
<1>2. /\ p \in Op /\ Same(o, p) /\ p.step = o.step /\ p.at = "rejected" /\ p.target = Undefined
      /\ p.got = <<>>
  BY <1>1, RejectedOp DEF Blank
<1> HIDE DEF p
<1>3. OpOK(p, e, bb, now)
  BY <1>2, OpStays, NothingGot DEF Asking
<1> QED
  BY <1>2, <1>3 DEF p

\* A step of a request that only looks.
LEMMA QuietStep ==
    ASSUME Typed, NEW o \in ops, UNCHANGED <<members, box, gone>>,
           cache' \in [Device -> Cache],
           \A d \in Device : CacheOK(cache'[d], clock) /\ CacheGrows(cache[d], cache'[d], clock)
    PROVE  Surroundings(o)
  BY BoxKept DEF Surroundings

LEMMA LocateTurns ==
    ASSUME Typed, NEW o \in ops, Locate(o)
    PROVE  Surroundings(o) /\ \E p : Turns(o, p)
<1> DEFINE c == cache[o.dev]
           b == box[AccountOf[o.dev]]
<1>1. /\ OpOK(o, c, b, clock) /\ o \in Op /\ o.dev \in Device /\ CacheOK(c, clock) /\ clock \in Nat
  BY TypedFacts
<1>2. o.at = "locate" /\ UNCHANGED <<members, box, gone, cache>>
  BY DEF Locate
<1>3. Surroundings(o)
  BY <1>2, CacheKept, QuietStep
<1>4. o.plan # <<>> /\ o.target = Undefined /\ Range(o.got) \subseteq Range(b)
  BY <1>1, <1>2 DEF OpOK, Asking
<1>5. cache'[o.dev] = c /\ box'[AccountOf[o.dev]] = b
  BY <1>2
<1> HIDE DEF c, b
<1>6. CASE Own(o) /\ c.ourSwarm # Undefined
  <2> DEFINE p == [o EXCEPT !.at = "ask", !.list = {c.ourSwarm}]
  <2>1. c.ourSwarm \in Ref /\ HasSwarms(c)
    BY <1>1, <1>6 DEF CacheOK, Cache
  <2>2. Becomes(o, p)
    BY <1>6 DEF Locate, c
  <2>3. p \in Op /\ p.at = "ask" /\ p.target = o.target /\ p.got = o.got /\ p.step = o.step
    BY <1>1, <2>1 DEF Op, At, Asking
  <2>4. Same(o, p)
    BY <1>1 DEF Op, Same
  <2> HIDE DEF p
  <2>5. OpOK(p, c, b, clock)
    BY <1>1, <1>4, <2>1, <2>3, <2>4, OpStays
  <2> QED
    BY <1>3, <1>5, <2>2, <2>3, <2>4, <2>5 DEF Turns, Progress
<1>7. CASE ~(Own(o) /\ c.ourSwarm # Undefined) /\ c.snodes # Undefined
  <2> DEFINE p == [o EXCEPT !.at = "swarms", !.nodes = c.snodes]
  <2>1. c.snodes \in SUBSET SnodeRef /\ HasSnodes(c, clock)
    BY <1>1, <1>7 DEF CacheOK, Cache
  <2>2. Becomes(o, p)
    BY <1>7 DEF Locate, c
  <2>3. p \in Op /\ p.at = "swarms" /\ p.target = o.target /\ p.got = o.got /\ p.step = o.step
    BY <1>1, <2>1 DEF Op, At, Asking
  <2>4. Same(o, p)
    BY <1>1 DEF Op, Same
  <2> HIDE DEF p
  <2>5. OpOK(p, c, b, clock)
    BY <1>1, <1>4, <2>1, <2>3, <2>4, OpStays
  <2> QED
    BY <1>3, <1>5, <2>2, <2>3, <2>4, <2>5 DEF Turns, Progress
<1>8. CASE ~(Own(o) /\ c.ourSwarm # Undefined) /\ c.snodes = Undefined
  <2> DEFINE p == [o EXCEPT !.at = "snodes"]
  <2>2. Becomes(o, p)
    BY <1>8 DEF Locate, c
  <2>3. p \in Op /\ p.at = "snodes" /\ p.target = o.target /\ p.got = o.got /\ p.step = o.step
    BY <1>1 DEF Op, At, Asking
  <2>4. Same(o, p)
    BY <1>1 DEF Op, Same
  <2> HIDE DEF p
  <2>5. OpOK(p, c, b, clock)
    BY <1>1, <1>4, <2>3, <2>4, OpStays
  <2> QED
    BY <1>3, <1>5, <2>2, <2>3, <2>4, <2>5 DEF Turns, Progress
<1> QED
  BY <1>6, <1>7, <1>8

LEMMA RejectedTurns ==
    ASSUME Typed, NEW o \in ops, Becomes(o, Rejected(o))
    PROVE  \E p : Turns(o, p)
<1>1. OpOK(o, cache[o.dev], box[AccountOf[o.dev]], clock) /\ clock \in Nat
  BY TypedFacts
<1>2. /\ OpOK(Rejected(o), cache'[o.dev], box'[AccountOf[o.dev]], clock) /\ Same(o, Rejected(o))
      /\ Rejected(o).step = o.step /\ Rejected(o).at = "rejected"
  BY <1>1, OpRejected
<1> QED
  BY <1>2 DEF Turns, Progress

LEMMA GetSnodesTurns ==
    ASSUME Typed, NEW o \in ops, GetSnodes(o)
    PROVE  Surroundings(o) /\ \E p : Turns(o, p)
<1> DEFINE c == cache[o.dev]
           b == box[AccountOf[o.dev]]
<1>1. /\ OpOK(o, c, b, clock) /\ o \in Op /\ o.dev \in Device /\ CacheOK(c, clock) /\ clock \in Nat
  BY TypedFacts
<1>2. o.at = "snodes" /\ UNCHANGED <<members, box, gone>>
  BY DEF GetSnodes
<1>4. o.plan # <<>> /\ o.target = Undefined /\ Range(o.got) \subseteq Range(b)
  BY <1>1, <1>2 DEF OpOK, Asking
<1>5. box'[AccountOf[o.dev]] = b
  BY <1>2
<1> HIDE DEF c, b
<1>6. CASE /\ Becomes(o, [o EXCEPT !.at = "swarms", !.nodes = Snodes(o)])
           /\ Caches(o, [cache[o.dev] EXCEPT !.snodes = Snodes(o)])
  <2> DEFINE p == [o EXCEPT !.at = "swarms", !.nodes = Snodes(o)]
             e == [c EXCEPT !.snodes = Snodes(o)]
  <2>1. Snodes(o) \in SUBSET SnodeRef /\ Snodes(o) \subseteq [node : Snode, fetch : 1..clock]
    <3>1. o.id \in Nat /\ o.id \in 1..clock
      BY <1>1 DEF OpOK
    <3> QED
      BY <3>1 DEF Snodes, SnodeRef
  <2>2. Becomes(o, p) /\ Caches(o, e)
    BY <1>6 DEF c
  <2>3. p \in Op /\ p.at = "swarms" /\ p.target = o.target /\ p.got = o.got /\ p.step = o.step
    BY <1>1, <2>1 DEF Op, At, Asking
  <2>4. Same(o, p)
    BY <1>1 DEF Op, Same
  <2>5. /\ e \in Cache /\ e.snodes = Snodes(o) /\ e.ourSwarms = c.ourSwarms
        /\ e.ourSwarm = c.ourSwarm /\ e.fetches = c.fetches
    BY <1>1, <2>1 DEF CacheOK, Cache
  <2> HIDE DEF p, e
  <2>6. CacheOK(e, clock) /\ CacheGrows(c, e, clock)
    BY <1>1, <2>1, <2>5 DEF CacheOK, CacheGrows, HasSnodes, HasSwarms
  <2>7. /\ cache' \in [Device -> Cache] /\ cache'[o.dev] = e
        /\ \A d \in Device : CacheOK(cache'[d], clock) /\ CacheGrows(cache[d], cache'[d], clock)
    BY <2>2, <2>6, CachesOK DEF c
  <2>8. Surroundings(o)
    BY <1>2, <2>7, QuietStep
  <2>9. OpOK(p, e, b, clock)
    BY <1>1, <1>4, <2>1, <2>3, <2>4, <2>5, OpStays DEF HasSnodes
  <2> QED
    BY <1>5, <2>2, <2>3, <2>4, <2>7, <2>8, <2>9 DEF Turns, Progress
<1>7. CASE Becomes(o, Rejected(o)) /\ UNCHANGED cache
  BY <1>2, <1>7, RejectedTurns, CacheKept, QuietStep
<1> QED
  BY <1>6, <1>7 DEF GetSnodes

AskingFor(o, l) == [Cleared(o, "ask") EXCEPT !.list = l]

LEMMA AskingOp ==
    ASSUME NEW o \in Op, NEW l \in SUBSET Ref
    PROVE  /\ AskingFor(o, l) \in Op /\ Same(o, AskingFor(o, l))
           /\ AskingFor(o, l).at = "ask" /\ AskingFor(o, l).step = o.step
           /\ AskingFor(o, l).target = Undefined /\ AskingFor(o, l).got = <<>>
           /\ AskingFor(o, l).list = l /\ AskingFor(o, l).misdirected = {}
<1> DEFINE q == Cleared(o, "ask")
<1>1. q \in Op /\ Same(o, q) /\ Blank(q) /\ q.at = "ask" /\ q.step = o.step
  BY ClearedOp DEF At, Asking
<1> HIDE DEF q
<1> DEFINE p == [q EXCEPT !.list = l]
<1>2. p \in Op /\ p.at = q.at /\ p.step = q.step /\ p.target = q.target /\ p.got = q.got
  BY <1>1 DEF Op
<1>3. p.list = l /\ p.misdirected = q.misdirected
  BY <1>1 DEF Op
<1>4. Same(q, p)
  BY <1>1 DEF Op, Same
<1> HIDE DEF p
<1>5. /\ p \in Op /\ Same(o, p) /\ p.at = "ask" /\ p.step = o.step /\ p.target = Undefined
      /\ p.got = <<>> /\ p.list = l /\ p.misdirected = {}
  BY <1>1, <1>2, <1>3, <1>4 DEF Same, Blank
<1>6. AskingFor(o, l) = p
  BY DEF AskingFor, p, q
<1> QED
  BY <1>5, <1>6

LEMMA GetSwarmsTurns ==
    ASSUME Typed, NEW o \in ops, GetSwarms(o)
    PROVE  Surroundings(o) /\ \E p : Turns(o, p)
<1> DEFINE c == cache[o.dev]
           b == box[AccountOf[o.dev]]
           Refs(fetch) == {[node |-> n, fetch |-> fetch] : n \in members[Step(o).to]}
<1>1. /\ OpOK(o, c, b, clock) /\ o \in Op /\ o.dev \in Device /\ CacheOK(c, clock) /\ clock \in Nat
  BY TypedFacts
<1>2. o.at = "swarms" /\ UNCHANGED <<members, box, gone>>
  BY DEF GetSwarms
<1>3. /\ o.plan # <<>> /\ o.target = Undefined /\ Range(o.got) \subseteq Range(b)
      /\ HasSnodes(c, clock)
  BY <1>1, <1>2 DEF OpOK, Asking
<1>4. box'[AccountOf[o.dev]] = b
  BY <1>2
<1>5. Step(o).to \in Account /\ members[Step(o).to] \subseteq Node
  BY <1>1, <1>3, StepTyped, TypedFacts
<1>6. ASSUME NEW f \in Nat
      PROVE  Refs(f) \in SUBSET Ref /\ \A r \in Refs(f) : r \in Ref /\ r.fetch = f
  BY <1>5 DEF Ref
<1>7. c.fetches \in Nat /\ c \in Cache
  BY <1>1 DEF CacheOK, Cache
<1> HIDE DEF c, b
<1>8. CASE Own(o) /\ \E r \in Refs(c.fetches + 1) :
                        /\ Caches(o, [c EXCEPT !.ourSwarms = Refs(c.fetches + 1),
                                               !.ourSwarm = r, !.fetches = c.fetches + 1])
                        /\ Becomes(o, AskingFor(o, {r}))
  <2> DEFINE f == c.fetches + 1
             rs == Refs(c.fetches + 1)
  <2>1. PICK r \in rs : /\ Caches(o, [c EXCEPT !.ourSwarms = rs, !.ourSwarm = r, !.fetches = f])
                        /\ Becomes(o, AskingFor(o, {r}))
    BY <1>8
  <2>2. f \in Nat /\ f \in 1..f
    BY <1>7
  <2>3. rs \in SUBSET Ref /\ r \in Ref /\ rs \subseteq [node : Node, fetch : 1..f]
    BY <1>6, <2>2 DEF Ref
  <2> HIDE DEF rs
  <2> DEFINE e == [c EXCEPT !.ourSwarms = rs, !.ourSwarm = r, !.fetches = f]
             p == AskingFor(o, {r})
  <2>4. /\ e \in Cache /\ e.snodes = c.snodes /\ e.ourSwarms = rs /\ e.ourSwarm = r /\ e.fetches = f
    BY <1>7, <2>2, <2>3 DEF Cache
  <2>5. /\ p \in Op /\ Same(o, p) /\ p.at = "ask" /\ p.step = o.step /\ p.target = Undefined
        /\ p.got = <<>>
    BY <1>1, <2>3, AskingOp
  <2> HIDE DEF e, p, f
  <2>6. CacheOK(e, clock) /\ CacheGrows(c, e, clock) /\ HasSwarms(e)
    BY <1>1, <2>3, <2>4 DEF CacheOK, CacheGrows, HasSnodes, HasSwarms
  <2>7. /\ cache' \in [Device -> Cache] /\ cache'[o.dev] = e
        /\ \A d \in Device : CacheOK(cache'[d], clock) /\ CacheGrows(cache[d], cache'[d], clock)
    BY <2>1, <2>6, CachesOK DEF c, e
  <2>8. Surroundings(o)
    BY <1>2, <2>7, QuietStep
  <2>9. OpOK(p, e, b, clock)
    BY <1>1, <1>3, <2>5, <2>6, OpStays, NothingGot
  <2> QED
    BY <1>4, <2>1, <2>5, <2>7, <2>8, <2>9 DEF Turns, Progress, p
<1>9. CASE ~Own(o) /\ Becomes(o, AskingFor(o, Refs(0))) /\ UNCHANGED cache
  <2> DEFINE p == AskingFor(o, Refs(0))
  <2>1. Refs(0) \in SUBSET Ref
    BY <1>6
  <2>2. /\ p \in Op /\ Same(o, p) /\ p.at = "ask" /\ p.step = o.step /\ p.target = Undefined
        /\ p.got = <<>>
    BY <1>1, <2>1, AskingOp
  <2>3. Becomes(o, p) /\ UNCHANGED cache
    BY <1>9
  <2> HIDE DEF p
  <2>4. OpOK(p, c, b, clock)
    BY <1>1, <1>3, <1>9, <2>2, OpStays, NothingGot
  <2>5. Surroundings(o)
    BY <1>2, <2>3, CacheKept, QuietStep
  <2> QED
    BY <1>4, <2>2, <2>3, <2>4, <2>5 DEF Turns, Progress, c
<1>10. CASE /\ \E r \in o.nodes : Caches(o, [c EXCEPT !.snodes = Without(c.snodes, r)])
            /\ Becomes(o, Again(o, "swarms"))
  <2>1. PICK r \in o.nodes : Caches(o, [c EXCEPT !.snodes = Without(c.snodes, r)])
    BY <1>10
  <2> DEFINE left == Without(c.snodes, r)
             e == [c EXCEPT !.snodes = left]
             p == Again(o, "swarms")
  <2>2. left \subseteq [node : Snode, fetch : 1..clock] /\ left \in SUBSET SnodeRef
    BY <1>1, <1>3 DEF Without, HasSnodes, SnodeRef
  <2> HIDE DEF left
  <2>3. /\ e \in Cache /\ e.snodes = left /\ e.ourSwarms = c.ourSwarms
        /\ e.ourSwarm = c.ourSwarm /\ e.fetches = c.fetches
    BY <1>7, <2>2 DEF Cache
  <2>4. Caches(o, e) /\ Becomes(o, p)
    BY <1>10, <2>1 DEF left
  <2>5. "swarms" \in At
    BY DEF At, Asking
  <2> HIDE DEF e
  <2>6. CacheOK(e, clock) /\ CacheGrows(c, e, clock) /\ HasSnodes(e, clock)
    BY <1>1, <2>2, <2>3 DEF CacheOK, CacheGrows, HasSnodes, HasSwarms
  <2>7. /\ cache' \in [Device -> Cache] /\ cache'[o.dev] = e
        /\ \A d \in Device : CacheOK(cache'[d], clock) /\ CacheGrows(cache[d], cache'[d], clock)
    BY <2>4, <2>6, CachesOK DEF c
  <2>8. Surroundings(o)
    BY <1>2, <2>7, QuietStep
  <2>9. CASE p = Rejected(o)
    BY <2>4, <2>8, <2>9, RejectedTurns
  <2>10. CASE p # Rejected(o)
    <3>1. /\ p \in Op /\ Same(o, p) /\ p.at = "swarms" /\ p.step = o.step /\ p.target = Undefined
          /\ p.got = o.got
      BY <1>1, <2>5, <2>10, AgainOp
    <3> HIDE DEF p
    <3>2. OpOK(p, e, b, clock)
      BY <1>1, <1>3, <2>6, <3>1, OpStays
    <3> QED
      BY <1>4, <2>4, <2>7, <2>8, <3>1, <3>2 DEF Turns, Progress
  <2> QED
    BY <2>9, <2>10
<1>11. CASE Becomes(o, Rejected(o)) /\ UNCHANGED cache
  BY <1>2, <1>11, RejectedTurns, CacheKept, QuietStep
<1> QED
  BY <1>8, <1>9, <1>10, <1>11 DEF GetSwarms, c, AskingFor

LEMMA AskTurns ==
    ASSUME Typed, NEW o \in ops, Ask(o)
    PROVE  Surroundings(o) /\ \E p : Turns(o, p)
<1> DEFINE c == cache[o.dev]
           b == box[AccountOf[o.dev]]
           ours == Own(o) /\ o.list = {}
           from == IF ours THEN c.ourSwarms ELSE o.list
<1>1. /\ OpOK(o, c, b, clock) /\ o \in Op /\ o.dev \in Device /\ CacheOK(c, clock) /\ clock \in Nat
  BY TypedFacts
<1>2. o.at = "ask" /\ UNCHANGED <<members, box, gone>>
  BY DEF Ask
<1>3. /\ o.plan # <<>> /\ o.target = Undefined /\ Range(o.got) \subseteq Range(b)
      /\ Own(o) => HasSwarms(c)
  BY <1>1, <1>2 DEF OpOK, Asking
<1>4. box'[AccountOf[o.dev]] = b
  BY <1>2
<1>5. from \in SUBSET Ref /\ (ours => from \subseteq [node : Node, fetch : 1..c.fetches])
  BY <1>1, <1>3, OpFields DEF HasSwarms, Ref
<1>6. c \in Cache
  BY <1>1 DEF CacheOK
<1> HIDE DEF c, b, from
<1>7. CASE \E r \in from : /\ Becomes(o, [o EXCEPT !.at = "sent", !.target = r])
                           /\ Caches(o, IF ours THEN [c EXCEPT !.ourSwarm = r] ELSE c)
  <2>1. PICK r \in from : /\ Becomes(o, [o EXCEPT !.at = "sent", !.target = r])
                          /\ Caches(o, IF ours THEN [c EXCEPT !.ourSwarm = r] ELSE c)
    BY <1>7
  <2> DEFINE p == [o EXCEPT !.at = "sent", !.target = r]
             x == [c EXCEPT !.ourSwarm = r]
             e == IF ours THEN x ELSE c
  <2>2. r \in Ref /\ r # Undefined /\ (ours => r \in [node : Node, fetch : 1..c.fetches])
    BY <1>5, RefAssumption
  <2>3. p \in Op /\ p.at = "sent" /\ p.target = r /\ p.got = o.got /\ p.step = o.step
    BY <1>1, <2>2 DEF Op, At, Asking
  <2>4. Same(o, p)
    BY <1>1 DEF Op, Same
  <2>5. /\ x \in Cache /\ x.snodes = c.snodes /\ x.ourSwarms = c.ourSwarms
        /\ x.ourSwarm = r /\ x.fetches = c.fetches
    BY <1>6, <2>2 DEF Cache
  <2>6. Becomes(o, p) /\ Caches(o, e)
    BY <2>1
  <2> HIDE DEF p, x
  <2>7. CacheOK(e, clock) /\ CacheGrows(c, e, clock) /\ (Own(o) => HasSwarms(e))
    <3>1. CASE ours
      BY <1>1, <1>3, <2>2, <2>5, <3>1 DEF CacheOK, CacheGrows, HasSnodes, HasSwarms
    <3>2. CASE ~ours
      BY <1>1, <1>3, <3>2 DEF CacheGrows
    <3> QED
      BY <3>1, <3>2
  <2> HIDE DEF e
  <2>8. /\ cache' \in [Device -> Cache] /\ cache'[o.dev] = e
        /\ \A d \in Device : CacheOK(cache'[d], clock) /\ CacheGrows(cache[d], cache'[d], clock)
    BY <2>6, <2>7, CachesOK DEF c
  <2>9. Surroundings(o)
    BY <1>2, <2>8, QuietStep
  <2>10. OpOK(p, e, b, clock)
    BY <1>1, <1>3, <2>2, <2>3, <2>4, <2>7, OpStays
  <2> QED
    BY <1>4, <2>3, <2>4, <2>6, <2>8, <2>9, <2>10 DEF Turns, Progress
<1>8. CASE /\ Becomes(o, Rejected(o))
           /\ Caches(o, IF ours THEN [c EXCEPT !.ourSwarm = Undefined] ELSE c)
  <2> DEFINE x == [c EXCEPT !.ourSwarm = Undefined]
             e == IF ours THEN x ELSE c
  <2>1. /\ x \in Cache /\ x.snodes = c.snodes /\ x.ourSwarms = c.ourSwarms
        /\ x.ourSwarm = Undefined /\ x.fetches = c.fetches
    BY <1>6 DEF Cache
  <2>2. Caches(o, e)
    BY <1>8
  <2> HIDE DEF x
  <2>3. CacheOK(e, clock) /\ CacheGrows(c, e, clock)
    BY <1>1, <2>1 DEF CacheOK, CacheGrows, HasSnodes, HasSwarms
  <2> HIDE DEF e
  <2>4. /\ cache' \in [Device -> Cache]
        /\ \A d \in Device : CacheOK(cache'[d], clock) /\ CacheGrows(cache[d], cache'[d], clock)
    BY <2>2, <2>3, CachesOK DEF c
  <2> QED
    BY <1>2, <1>8, <2>4, QuietStep, RejectedTurns
<1> QED
  BY <1>7, <1>8 DEF Ask, c, from

LEMMA DoesTyped ==
    ASSUME Typed, NEW o \in ops, o.at = "sent", Does(o) \/ UNCHANGED <<box, gone>>, UNCHANGED members,
           cache' \in [Device -> Cache],
           \A d \in Device : CacheOK(cache'[d], clock) /\ CacheGrows(cache[d], cache'[d], clock)
    PROVE  /\ Surroundings(o)
           /\ Range(box[AccountOf[o.dev]]) \subseteq Range(box'[AccountOf[o.dev]])
           /\ Does(o) /\ Step(o).do = "store" => Step(o).msg \in Range(box'[Step(o).to])
<1>1. /\ OpOK(o, cache[o.dev], box[AccountOf[o.dev]], clock)
      /\ box \in [Account -> Seq(Message)] /\ gone \in [Account -> SUBSET Hash]
      /\ clock \in Nat /\ AccountOf[o.dev] \in Account
  BY TypedFacts
<1>2. o.plan # <<>>
  BY <1>1 DEF OpOK, Asking
<1> DEFINE a == Step(o).to
           m == Step(o).msg
<1>3. /\ Step(o) \in PlanStep /\ a \in Account /\ Step(o).do \in {"store", "delete", "poll"}
      /\ Step(o).do = "store" => MessageOK(m, clock)
  BY <1>1, <1>2, StepTyped
<1>4. \A x \in Account : \A i \in 1..Len(box[x]) : MessageOK(box[x][i], clock)
  BY DEF Typed
<1> HIDE DEF a, m
<1>5. CASE Step(o).do = "store" /\ Does(o)
  <2>1. /\ box' = IF \E i \in DOMAIN box[a] : box[a][i] = m THEN box
                  ELSE [box EXCEPT ![a] = Append(box[a], m)]
        /\ gone' = gone
    BY <1>5 DEF Does, Stores, a, m
  <2>2. box[a] \in Seq(Message) /\ DOMAIN box[a] = 1..Len(box[a]) /\ m \in Message
    BY <1>1, <1>3, <1>5 DEF MessageOK
  <2>3. CASE m \in Range(box[a])
    <3>1. box' = box
      BY <2>1, <2>3 DEF Range
    <3> QED
      BY <1>1, <1>4, <2>1, <2>3, <3>1 DEF Surroundings, a, m
  <2>4. CASE m \notin Range(box[a])
    <3> DEFINE t == Append(box[a], m)
    <3>1. /\ t \in Seq(Message) /\ Len(t) = Len(box[a]) + 1 /\ t[Len(box[a]) + 1] = m
          /\ \A i \in 1..Len(box[a]) : t[i] = box[a][i]
          /\ Range(box[a]) \subseteq Range(t) /\ Range(t) = Range(box[a]) \cup {m}
      BY <2>2, RangeAppend
    <3>2. box' = [box EXCEPT ![a] = t]
      BY <2>1, <2>4 DEF Range
    <3> HIDE DEF t
    <3>3. /\ box' \in [Account -> Seq(Message)] /\ box'[a] = t
          /\ \A x \in Account \ {a} : box'[x] = box[x]
      BY <1>1, <1>3, <3>1, <3>2
    <3>4. \A i \in 1..Len(t) : MessageOK(t[i], clock)
      <4>1. Len(box[a]) \in Nat
        BY <2>2
      <4> QED
        BY <1>3, <1>4, <1>5, <3>1, <4>1
    <3>5. \A x \in Account : \A i \in 1..Len(box'[x]) : MessageOK(box'[x][i], clock)
      BY <1>4, <3>3, <3>4
    <3>6. ASSUME NEW x \in Account
          PROVE  \/ box'[x] = box[x]
                 \/ x = Step(o).to /\ box'[x] = Append(box[x], Step(o).msg)
      <4>1. CASE x = a
        <5>1. box'[a] = Append(box[a], m)
          BY <3>3 DEF t
        <5> QED
          BY <4>1, <5>1, Zenon DEF a, m
      <4>2. CASE x # a
        <5>1. box'[x] = box[x]
          BY <3>3, <4>2
        <5> QED
          BY <5>1, Zenon
      <4> QED
        BY <4>1, <4>2, Zenon
    <3>7. Range(box[AccountOf[o.dev]]) \subseteq Range(box'[AccountOf[o.dev]])
      BY <1>1, <3>1, <3>3
    <3>8. Step(o).msg \notin Range(box[Step(o).to]) /\ Step(o).msg \in Range(box'[Step(o).to])
      BY <2>4, <3>1, <3>3 DEF a, m
    <3> QED
      BY <1>1, <1>5, <2>1, <3>3, <3>5, <3>6, <3>7, <3>8 DEF Surroundings
  <2> QED
    BY <2>3, <2>4
<1>6. CASE Step(o).do = "delete" /\ Does(o)
  <2>1. box' = box /\ gone' = [gone EXCEPT ![a] = gone[a] \cup Step(o).hashes]
    BY <1>6 DEF Does, Deletes, a
  <2>2. Step(o).hashes \in SUBSET Hash
    BY <1>3 DEF PlanStep
  <2>3. gone' \in [Account -> SUBSET Hash]
    BY <1>1, <1>3, <2>1, <2>2
  <2> QED
    BY <1>1, <1>4, <1>6, <2>1, <2>3 DEF Surroundings
<1>7. CASE UNCHANGED <<box, gone>> /\ ~(Step(o).do = "store" /\ Does(o))
  BY <1>1, <1>4, <1>7 DEF Surroundings
<1> QED
  BY <1>3, <1>5, <1>6, <1>7 DEF Does

LEMMA AnswersTurns ==
    ASSUME Typed, NEW o \in ops, Answers(o)
    PROVE  Surroundings(o) /\ \E p : Turns(o, p)
<1> DEFINE c == cache[o.dev]
           b == box[AccountOf[o.dev]]
           bb == box'[AccountOf[o.dev]]
<1>1. /\ OpOK(o, c, b, clock) /\ o \in Op /\ o.dev \in Device /\ CacheOK(c, clock) /\ clock \in Nat
      /\ box \in [Account -> Seq(Message)] /\ AccountOf[o.dev] \in Account
  BY TypedFacts
<1>2. o.at = "sent" /\ UNCHANGED <<members, cache>> /\ Does(o)
  BY DEF Answers
<1>3. o.plan # <<>> /\ o.id \in 1..clock
  BY <1>1, <1>2 DEF OpOK, Asking
<1>4. /\ Surroundings(o) /\ Range(b) \subseteq Range(bb)
      /\ Step(o).do = "store" => Step(o).msg \in Range(box'[Step(o).to])
  BY <1>2, CacheKept, DoesTyped
<1>5. /\ PlanFor(o.dev, o.id, o.kind, clock, o.plan) /\ o.step \in 1..Len(o.plan)
      /\ Step(o).do # "store" => Own(o)
      /\ Len(o.plan) \in Nat /\ Step(o).to \in Account
  BY <1>1, <1>3, StepTyped DEF OpOK
<1>6. cache'[o.dev] = c
  BY <1>2
<1> HIDE DEF c, b, bb
<1>7. CASE Step(o).do # "poll"
  <2> DEFINE p == Advanced(o)
  <2>1. Becomes(o, p)
    BY <1>7 DEF Answers
  <2>2. /\ p \in Op /\ Same(o, p) /\ Blank(p)
        /\ \/ o.step = Len(o.plan) /\ p.at = "resolved" /\ p.step = o.step
           \/ o.step # Len(o.plan) /\ p.at = "locate" /\ p.step = o.step + 1
    BY <1>1, AdvancedOp
  <2> HIDE DEF p
  <2>3. p.step \in 1..Len(p.plan)
    BY <1>5, <2>2 DEF Same
  <2>4. OpOK(p, c, bb, clock)
    BY <1>1, <1>3, <1>5, <2>2, <2>3, NothingGot DEF OpOK, Same, Blank
  <2>5. Progress(o, p)
    BY <1>2, <1>4, <2>2 DEF Progress
  <2> QED
    BY <1>4, <1>6, <2>1, <2>2, <2>4, <2>5 DEF Turns, bb
<1>8. CASE Step(o).do = "poll"
  <2> DEFINE q == Cleared(o, "received")
             k == Kept(Step(o).to)
             p == [q EXCEPT !.got = k]
  <2>1. /\ q \in Op /\ Same(o, q) /\ Blank(q) /\ q.at = "received" /\ q.step = o.step
    BY <1>1, ClearedOp DEF At
  <2>2. k \in Seq(Message) /\ Range(k) \subseteq Range(box[Step(o).to])
    <3> DEFINE s == box[Step(o).to]
    <3>1. s \in Seq(Message)
      BY <1>1, <1>5
    <3> HIDE DEF s
    <3>2. /\ k \in Seq(Message)
          /\ \A i \in 1..Len(k) : k[i] \in {m \in Range(s) : m.hash \notin gone[Step(o).to]}
      BY <3>1, FilteredElements DEF Kept, s
    <3> HIDE DEF k
    <3>3. DOMAIN k = 1..Len(k)
      BY <3>2
    <3>4. \A i \in DOMAIN k : k[i] \in Range(s)
      BY <3>2, <3>3
    <3>5. Range(k) = {k[i] : i \in DOMAIN k}
      BY DEF Range
    <3> QED
      BY <3>2, <3>4, <3>5 DEF s
  <2>3. Becomes(o, p)
    BY <1>8 DEF Answers
  <2> HIDE DEF q, k
  <2>4. p \in Op /\ p.at = q.at /\ p.step = q.step /\ p.target = q.target /\ p.got = k
    BY <2>1, <2>2 DEF Op
  <2>5. Same(q, p)
    BY <2>1 DEF Op, Same
  <2> HIDE DEF p
  <2>6. p.at = "received" /\ p.step = o.step /\ p.target = Undefined /\ Same(o, p)
    BY <2>1, <2>4, <2>5 DEF Same, Blank
  <2>7. Range(p.got) \subseteq Range(bb)
    BY <1>4, <1>5, <1>8, <2>2, <2>4 DEF Own, b
  <2>8. OpOK(p, c, bb, clock)
    BY <1>1, <1>3, <1>8, <2>4, <2>6, <2>7, OpStays DEF Asking
  <2>9. Progress(o, p)
    BY <2>6 DEF Progress
  <2> QED
    BY <1>4, <1>6, <2>3, <2>6, <2>8, <2>9 DEF Turns, bb
<1> QED
  BY <1>7, <1>8

\* One that asks again, or gives up.
LEMMA AsksAgain ==
    ASSUME NEW o, NEW c, NEW b, NEW now \in Nat, OpOK(o, c, b, now), NEW e, NEW bb,
           NEW q \in Op, Same(o, q), q.step = o.step, q.got = o.got, o.plan # <<>>,
           Own(o) => HasSwarms(e), Range(b) \subseteq Range(bb)
    PROVE  /\ OpOK(Again(q, "ask"), e, bb, now) /\ Same(o, Again(q, "ask"))
           /\ Again(q, "ask").step = o.step /\ Again(q, "ask").at \in {"ask", "rejected"}
<1> DEFINE p == Again(q, "ask")
<1>1. p \in Op /\ Same(q, p) /\ p.step = q.step /\ p.target = Undefined
  BY AgainOp DEF At, Asking
<1>2. p.at \in {"ask", "rejected"} /\ (p.got = q.got \/ p.got = <<>>)
  <2>1. CASE p = Rejected(q)
    BY <2>1, RejectedOp DEF Blank
  <2>2. CASE p # Rejected(q)
    BY <2>2, AgainOp DEF At, Asking
  <2> QED
    BY <2>1, <2>2
<1> HIDE DEF p
<1>3. Same(o, p) /\ p.step = o.step
  BY <1>1 DEF Same
<1>4. Range(p.got) \subseteq Range(bb)
  BY <1>2, NothingGot DEF OpOK
<1>5. OpOK(p, e, bb, now)
  BY <1>1, <1>2, <1>3, <1>4, OpStays DEF Asking
<1> QED
  BY <1>2, <1>3, <1>5 DEF p

\* The cache without a node of our swarm.
LEMMA CacheWithout ==
    ASSUME NEW c, NEW now, CacheOK(c, now), HasSwarms(c), NEW r
    PROVE  LET e == [c EXCEPT !.ourSwarms = Without(c.ourSwarms, r)]
           IN  CacheOK(e, now) /\ CacheGrows(c, e, now) /\ HasSwarms(e)
<1> DEFINE left == Without(c.ourSwarms, r)
           e == [c EXCEPT !.ourSwarms = left]
<1>1. left \subseteq [node : Node, fetch : 1..c.fetches] /\ left \in SUBSET Ref /\ c \in Cache
  BY DEF HasSwarms, Without, Ref, CacheOK, Cache
<1> HIDE DEF left
<1>2. /\ e \in Cache /\ e.snodes = c.snodes /\ e.ourSwarms = left
      /\ e.ourSwarm = c.ourSwarm /\ e.fetches = c.fetches
  BY <1>1 DEF Cache
<1> HIDE DEF e
<1>3. CacheOK(e, now) /\ CacheGrows(c, e, now) /\ HasSwarms(e)
  BY <1>1, <1>2 DEF CacheOK, CacheGrows, HasSnodes, HasSwarms
<1> QED
  BY <1>3 DEF e, left

LEMMA MissesTurns ==
    ASSUME Typed, NEW o \in ops, Misses(o)
    PROVE  Surroundings(o) /\ \E p : Turns(o, p)
<1> DEFINE c == cache[o.dev]
           b == box[AccountOf[o.dev]]
<1>1. /\ OpOK(o, c, b, clock) /\ o \in Op /\ o.dev \in Device /\ CacheOK(c, clock) /\ clock \in Nat
  BY TypedFacts
<1>2. o.at = "sent" /\ UNCHANGED <<members, box, gone>>
  BY DEF Misses
<1>3. /\ o.plan # <<>> /\ Range(o.got) \subseteq Range(b) /\ o.target # Undefined
      /\ Own(o) => HasSwarms(c)
  BY <1>1, <1>2 DEF OpOK, Asking
<1>4. box'[AccountOf[o.dev]] = b
  BY <1>2
<1>5. o.target \in Ref
  BY <1>1, <1>3, OpFields
<1>6. CASE Becomes(o, Rejected(o)) /\ UNCHANGED cache
  BY <1>2, <1>6, RejectedTurns, CacheKept, QuietStep
<1>7. CASE /\ Becomes(o, Misdirected(o, c))
           /\ Caches(o, IF c.ourSwarms = Undefined THEN c
                        ELSE [c EXCEPT !.ourSwarms = Without(c.ourSwarms, o.target)])
  <2>1. CASE c.ourSwarms = Undefined
    <3>1. Becomes(o, Rejected(o)) /\ Caches(o, c)
      BY <1>7, <2>1 DEF Misdirected
    <3>2. CacheGrows(c, c, clock)
      BY DEF CacheGrows
    <3> QED
      BY <1>1, <1>2, <3>1, <3>2, CachesOK, RejectedTurns, QuietStep
  <2>2. CASE c.ourSwarms # Undefined
    <3> DEFINE e == [c EXCEPT !.ourSwarms = Without(c.ourSwarms, o.target)]
               q == [o EXCEPT !.list = Without(o.list, o.target),
                              !.misdirected = o.misdirected \cup {o.target}]
               p == Again(q, "ask")
    <3>1. Becomes(o, p) /\ Caches(o, e)
      BY <1>7, <2>2 DEF Misdirected
    <3>2. CacheOK(e, clock) /\ CacheGrows(c, e, clock) /\ HasSwarms(e)
      BY <1>1, <2>2, CacheWithout DEF CacheOK
    <3>3. Without(o.list, o.target) \in SUBSET Ref /\ o.misdirected \cup {o.target} \in SUBSET Ref
      BY <1>1, <1>5, OpFields DEF Without
    <3>4. q \in Op /\ q.step = o.step /\ q.got = o.got
      BY <1>1, <3>3 DEF Op
    <3>5. Same(o, q)
      BY <1>1 DEF Op, Same
    <3> HIDE DEF e, q
    <3>6. /\ cache' \in [Device -> Cache] /\ cache'[o.dev] = e
          /\ \A d \in Device : CacheOK(cache'[d], clock) /\ CacheGrows(cache[d], cache'[d], clock)
      BY <3>1, <3>2, CachesOK
    <3>7. OpOK(p, e, b, clock) /\ Same(o, p) /\ p.step = o.step /\ p.at \in {"ask", "rejected"}
      BY <1>1, <1>3, <3>2, <3>4, <3>5, AsksAgain
    <3> HIDE DEF p
    <3>8. Surroundings(o)
      BY <1>2, <3>6, QuietStep
    <3> QED
      BY <1>4, <3>1, <3>6, <3>7, <3>8 DEF Turns, Progress
  <2> QED
    BY <2>1, <2>2
<1> QED
  BY <1>6, <1>7 DEF Misses

LEMMA LosesAnswerTurns ==
    ASSUME Typed, NEW o \in ops, LosesAnswer(o)
    PROVE  Surroundings(o) /\ \E p : Turns(o, p)
<1> DEFINE c == cache[o.dev]
           b == box[AccountOf[o.dev]]
           bb == box'[AccountOf[o.dev]]
<1>1. /\ OpOK(o, c, b, clock) /\ o \in Op /\ o.dev \in Device /\ CacheOK(c, clock) /\ clock \in Nat
  BY TypedFacts
<1>2. o.at = "sent" /\ UNCHANGED members /\ (Does(o) \/ UNCHANGED <<box, gone>>)
  BY DEF LosesAnswer
<1>3. /\ o.plan # <<>> /\ Range(o.got) \subseteq Range(b)
      /\ Own(o) => HasSwarms(c)
  BY <1>1, <1>2 DEF OpOK, Asking
<1>4. /\ Step(o).do \in {"store", "delete", "poll"}
      /\ Step(o).do # "store" => Own(o)
  BY <1>1, <1>3, StepTyped
<1>5. ASSUME cache' \in [Device -> Cache],
             \A d \in Device : CacheOK(cache'[d], clock) /\ CacheGrows(cache[d], cache'[d], clock)
      PROVE  Surroundings(o) /\ Range(b) \subseteq Range(bb)
  BY <1>2, <1>5, DoesTyped
<1> HIDE DEF b, bb
<1>6. CASE Step(o).do = "store"
  <2> DEFINE p == Again(o, "ask")
  <2>1. Becomes(o, p) /\ UNCHANGED cache
    BY <1>6 DEF LosesAnswer
  <2>2. Surroundings(o) /\ Range(b) \subseteq Range(bb)
    BY <1>5, <2>1, CacheKept
  <2>3. Same(o, o)
    BY DEF Same
  <2>4. OpOK(p, c, bb, clock) /\ Same(o, p) /\ p.step = o.step /\ p.at \in {"ask", "rejected"}
    BY <1>1, <1>3, <2>2, <2>3, AsksAgain
  <2> HIDE DEF p
  <2> QED
    BY <2>1, <2>2, <2>4 DEF Turns, Progress, bb
<1>7. CASE Step(o).do = "delete"
  <2>1. Becomes(o, Rejected(o)) /\ UNCHANGED cache
    BY <1>7 DEF LosesAnswer
  <2> QED
    BY <1>5, <2>1, CacheKept, RejectedTurns
<1>8. CASE Step(o).do = "poll"
  <2> DEFINE left == Without(c.ourSwarms, o.target)
  <2>0. HasSwarms(c) /\ c \in Cache
    BY <1>1, <1>3, <1>4, <1>8 DEF CacheOK
  <2>1. left \subseteq [node : Node, fetch : 1..c.fetches] /\ left \in SUBSET Ref
    BY <2>0 DEF HasSwarms, Without, Ref, Cache
  <2>2. CASE \E r \in left : /\ Becomes(o, AskingFor(o, {r}))
                             /\ Caches(o, [c EXCEPT !.ourSwarms = left, !.ourSwarm = r])
    <3>1. PICK r \in left : /\ Becomes(o, AskingFor(o, {r}))
                            /\ Caches(o, [c EXCEPT !.ourSwarms = left, !.ourSwarm = r])
      BY <2>2
    <3> DEFINE e == [c EXCEPT !.ourSwarms = left, !.ourSwarm = r]
               p == AskingFor(o, {r})
    <3>2. r \in Ref /\ r \in [node : Node, fetch : 1..c.fetches]
      BY <2>1
    <3> HIDE DEF left
    <3>3. /\ e \in Cache /\ e.snodes = c.snodes /\ e.ourSwarms = left
          /\ e.ourSwarm = r /\ e.fetches = c.fetches
      BY <2>0, <2>1, <3>2 DEF Cache
    <3>4. /\ p \in Op /\ Same(o, p) /\ p.at = "ask" /\ p.step = o.step /\ p.target = Undefined
          /\ p.got = <<>>
      BY <1>1, <3>2, AskingOp
    <3>5. Becomes(o, p) /\ Caches(o, e)
      BY <3>1
    <3> HIDE DEF e, p
    <3>6. CacheOK(e, clock) /\ CacheGrows(c, e, clock) /\ HasSwarms(e)
      BY <1>1, <2>1, <3>2, <3>3 DEF CacheOK, CacheGrows, HasSnodes, HasSwarms
    <3>7. /\ cache' \in [Device -> Cache] /\ cache'[o.dev] = e
          /\ \A d \in Device : CacheOK(cache'[d], clock) /\ CacheGrows(cache[d], cache'[d], clock)
      BY <3>5, <3>6, CachesOK
    <3>8. OpOK(p, e, bb, clock)
      BY <1>1, <1>3, <3>4, <3>6, OpStays, NothingGot DEF Asking
    <3> QED
      BY <1>5, <3>4, <3>5, <3>7, <3>8 DEF Turns, Progress, bb
  <2>3. CASE /\ Becomes(o, Rejected(o))
             /\ Caches(o, [c EXCEPT !.ourSwarms = {}, !.ourSwarm = Undefined])
    <3> DEFINE e == [c EXCEPT !.ourSwarms = {}, !.ourSwarm = Undefined]
    <3>1. /\ e \in Cache /\ e.snodes = c.snodes /\ e.ourSwarms = {}
          /\ e.ourSwarm = Undefined /\ e.fetches = c.fetches
      BY <2>0 DEF Cache
    <3>2. Caches(o, e)
      BY <2>3
    <3> HIDE DEF e
    <3>3. CacheOK(e, clock) /\ CacheGrows(c, e, clock)
      BY <1>1, <3>1 DEF CacheOK, CacheGrows, HasSnodes, HasSwarms
    <3> QED
      BY <1>5, <2>3, <3>2, <3>3, CachesOK, RejectedTurns
  <2> QED
    BY <1>8, <2>2, <2>3 DEF LosesAnswer, AskingFor
<1> QED
  BY <1>4, <1>6, <1>7, <1>8

LEMMA RequestTurns ==
    ASSUME Typed, NEW o \in ops, Request(o)
    PROVE  Surroundings(o) /\ \E p : Turns(o, p)
<1>1. CASE AnswersInvalid(o)
  <2>1. Becomes(o, Rejected(o)) /\ UNCHANGED <<members, box, gone, cache>>
    BY <1>1 DEF AnswersInvalid
  <2> QED
    BY <2>1, RejectedTurns, CacheKept, QuietStep
<1> QED
  BY <1>1, LocateTurns, GetSnodesTurns, GetSwarmsTurns, AskTurns, AnswersTurns, MissesTurns,
     LosesAnswerTurns DEF Request

----------------------------------------------------------------------------
(* What a poll brings.                                                     *)

\* The event of a message.
LEMMA EventForMessage ==
    ASSUME NEW m \in Message
    PROVE  /\ EventFor(m).kind = EventOf(m) /\ EventFor(m).hash = m.hash /\ EventFor(m).from = m.from
           /\ EventOf(m) \in {"message", "syncMessage"} => EventFor(m).about = m.ts
           /\ EventOf(m) \notin {"message", "syncMessage", "call"} => EventFor(m).about = m.about
           /\ EventOf(m) = "call" => EventFor(m).about = 0
           /\ EventOf(m) \in Range(EventOrder) => EventFor(m) \in Event
<1>1. /\ m.hash \in Hash /\ m.from \in Account /\ m.ts \in Nat /\ m.about \in Nat /\ 0 \in Nat
  BY DEF Message
<1>2. EventOf(m) \in {"message", "syncMessage"} \/ EventOf(m) = m.kind
  BY DEF EventOf
<1> DEFINE Is(e, about) == e = [kind |-> EventOf(m), hash |-> m.hash, from |-> m.from, about |-> about]
<1>3. ASSUME NEW e, NEW about \in Nat, Is(e, about)
      PROVE  /\ e.kind = EventOf(m) /\ e.hash = m.hash /\ e.from = m.from /\ e.about = about
             /\ EventOf(m) \in Range(EventOrder) => e \in Event
  BY <1>1, <1>3 DEF Event
<1>4. CASE EventOf(m) \in {"message", "syncMessage"}
  <2>1. Is(EventFor(m), m.ts)
    BY <1>4 DEF EventFor, MessageEvent
  <2> HIDE DEF Is
  <2> QED
    BY <1>1, <1>3, <1>4, <2>1
<1>5. CASE EventOf(m) = "call"
  <2>1. Is(EventFor(m), 0)
    BY <1>5 DEF EventFor, CallEvent
  <2> HIDE DEF Is
  <2> QED
    BY <1>1, <1>3, <1>5, <2>1
<1>6. CASE EventOf(m) \notin {"message", "syncMessage", "call"}
  <2>1. Is(EventFor(m), m.about)
    BY <1>2, <1>6 DEF EventFor, ReactionEvent, NoticeEvent
  <2> HIDE DEF Is
  <2> QED
    BY <1>1, <1>3, <1>6, <2>1
<1> QED
  BY <1>4, <1>5, <1>6

\* The events of a kind in a batch.
EventsOf(batch, k) == LET ms == Filtered(batch, {m \in Range(batch) : EventOf(m) = EventOrder[k]})
                      IN  [i \in DOMAIN ms |-> EventFor(ms[i])]

LEMMA EventsOfTyped ==
    ASSUME NEW batch \in Seq(Message), NEW k \in DOMAIN EventOrder
    PROVE  EventsOf(batch, k) \in Seq(Event)
<1> DEFINE ms == Filtered(batch, {m \in Range(batch) : EventOf(m) = EventOrder[k]})
<1>1. /\ ms \in Seq(Message)
      /\ \A i \in 1..Len(ms) : ms[i] \in {m \in Range(batch) : EventOf(m) = EventOrder[k]}
  BY FilteredElements
<1>2. EventsOf(batch, k) = [i \in DOMAIN ms |-> EventFor(ms[i])]
  BY DEF EventsOf
<1> HIDE DEF ms
<1>3. DOMAIN ms = 1..Len(ms) /\ Len(ms) \in Nat
  BY <1>1
<1>4. ASSUME NEW i \in 1..Len(ms)
      PROVE  EventFor(ms[i]) \in Event
  <2>1. ms[i] \in Message /\ EventOf(ms[i]) \in Range(EventOrder)
    BY <1>1, <1>3 DEF Range
  <2> QED
    BY <2>1, EventForMessage
<1>5. EventsOf(batch, k) \in [1..Len(ms) -> Event]
  BY <1>2, <1>3, <1>4
<1> QED
  BY <1>3, <1>5

LEMMA EmittedTyped ==
    ASSUME NEW batch \in Seq(Message)
    PROVE  /\ [k \in DOMAIN EventOrder |-> EventsOf(batch, k)] \in Seq(Seq(Event))
           /\ Emitted(batch) = FlattenSeq([k \in DOMAIN EventOrder |-> EventsOf(batch, k)])
           /\ Emitted(batch) \in Seq(Event)
<1> DEFINE ss == [k \in DOMAIN EventOrder |-> EventsOf(batch, k)]
<1>1. DOMAIN EventOrder = 1..11
  BY DEF EventOrder
<1>2. ss \in [1..11 -> Seq(Event)]
  BY <1>1, EventsOfTyped
<1>3. ss \in Seq(Seq(Event))
  BY <1>2
<1>4. Emitted(batch) = FlattenSeq(ss)
  BY DEF Emitted, EventsOf
<1> HIDE DEF ss
<1>5. FlattenSeq(ss) \in Seq(Event)
  BY <1>3, FlattenElements
<1> QED
  BY <1>3, <1>4, <1>5 DEF ss

\* The configuration that is applied.
LEMMA AppliedOf ==
    ASSUME NEW batch \in Seq(Message), Configs(batch) # {}
    PROVE  \E m \in Configs(batch) :
              /\ m \in Message /\ m \in Range(batch) /\ m.kind = "config"
              /\ Usable(m.profile.avatar) => Applied(batch) = m.profile
              /\ ~Usable(m.profile.avatar) => Applied(batch) = [m.profile EXCEPT !.avatar = Undefined]
<1> DEFINE cs == Configs(batch)
           least == CHOOSE x \in cs : \A y \in cs : x.ts <= y.ts
           times == {x.ts : x \in cs}
<1>1. \A x \in cs : x \in Message /\ x \in Range(batch) /\ x.kind = "config"
  BY DEF Configs, Range
<1>2. times \in SUBSET Nat /\ times # {}
  BY <1>1 DEF Message
<1>3. PICK t \in times : \A n \in times : t <= n
  BY <1>2, Least
<1>4. \E x \in cs : \A y \in cs : x.ts <= y.ts
  BY <1>3
<1> HIDE DEF cs
<1>5. least \in cs
  BY <1>4
<1>6. Applied(batch) = IF Usable(least.profile.avatar) THEN least.profile
                       ELSE [least.profile EXCEPT !.avatar = Undefined]
  BY DEF Applied, cs
<1> HIDE DEF least
<1> QED
  BY <1>1, <1>5, <1>6 DEF cs

LEMMA AppliedTyped ==
    ASSUME NEW batch \in Seq(Message), Configs(batch) # {}
    PROVE  /\ Applied(batch) \in Profile /\ Synced(Applied(batch)) \in Profile
           /\ Synced(Applied(batch)).name = Applied(batch).name
           /\ \E m \in Range(batch) : Applied(batch).name = m.profile.name
<1>1. PICK m \in Configs(batch) :
              /\ m \in Message /\ m \in Range(batch) /\ m.kind = "config"
              /\ Usable(m.profile.avatar) => Applied(batch) = m.profile
              /\ ~Usable(m.profile.avatar) => Applied(batch) = [m.profile EXCEPT !.avatar = Undefined]
  BY AppliedOf
<1> DEFINE a == Applied(batch)
<1> HIDE DEF a
<1>2. m.profile \in Profile
  BY <1>1 DEF Message
<1>3. a \in Profile /\ a.name = m.profile.name
  BY <1>1, <1>2 DEF Profile, a
<1>4. Synced(a) \in Profile /\ Synced(a).name = a.name
  <2>1. CASE a.avatar = Undefined
    BY <1>3, <2>1 DEF Synced
  <2>2. CASE a.avatar # Undefined
    <3> DEFINE v == [a.avatar EXCEPT !.key = FALSE]
    <3>1. v \in Avatar
      BY <1>3, <2>2 DEF Profile, Avatar
    <3>2. Synced(a) = [a EXCEPT !.avatar = v]
      BY <2>2 DEF Synced
    <3> HIDE DEF v
    <3> QED
      BY <1>3, <3>1, <3>2 DEF Profile
  <2> QED
    BY <2>1, <2>2
<1> QED
  BY <1>1, <1>3, <1>4 DEF a

----------------------------------------------------------------------------
(* Every step keeps the types.                                             *)

LEMMA SurroundingsGrow ==
    ASSUME Typed, NEW o \in ops, Surroundings(o), NEW a \in Account
    PROVE  Range(box[a]) \subseteq Range(box'[a])
<1>1. box[a] \in Seq(Message)
  BY DEF Typed, StateTypes
<1>2. CASE box'[a] = box[a]
  BY <1>2
<1>3. CASE box'[a] # box[a]
  <2>1. /\ o.at = "sent" /\ Step(o).do = "store" /\ box'[a] = Append(box[a], Step(o).msg)
    BY <1>3 DEF Surroundings
  <2>2. OpOK(o, cache[o.dev], box[AccountOf[o.dev]], clock) /\ o.plan # <<>>
    BY <2>1, TypedFacts DEF OpOK, Asking
  <2>3. Step(o).msg \in Message
    BY <2>1, <2>2, StepTyped DEF MessageOK
  <2> QED
    BY <1>1, <2>1, <2>3, RangeAppend
<1> QED
  BY <1>2, <1>3

\* One operation takes a step.
LEMMA OpsTurn ==
    ASSUME Typed, NEW o \in ops, NEW p, Becomes(o, p), Alike(o, p),
           OpOK(p, cache'[o.dev], box'[AccountOf[o.dev]], clock), clock' = clock,
           \A d \in Device : CacheGrows(cache[d], cache'[d], clock),
           \A a \in Account : Range(box[a]) \subseteq Range(box'[a])
    PROVE  /\ ops' \subseteq Op /\ OpsOK'
           /\ (\A x, y \in ops : x.id = y.id => x = y)'
<1>1. ops' = (ops \ {o}) \cup {p} /\ p.dev = o.dev /\ p.id = o.id
  BY DEF Becomes, Alike
<1>2. ASSUME NEW q \in ops', q # p
      PROVE  q \in ops /\ q # o /\ OpOK(q, cache'[q.dev], box'[AccountOf[q.dev]], clock)
  <2>1. q \in ops /\ q # o
    BY <1>1, <1>2
  <2>2. /\ OpOK(q, cache[q.dev], box[AccountOf[q.dev]], clock) /\ q.dev \in Device
        /\ AccountOf[q.dev] \in Account /\ clock \in Nat
    BY <2>1, TypedFacts
  <2>3. OpOK(q, cache'[q.dev], box'[AccountOf[q.dev]], clock)
    BY <2>2, OpLater
  <2> QED
    BY <2>1, <2>3
<1>3. ASSUME NEW q \in ops'
      PROVE  OpOK(q, cache'[q.dev], box'[AccountOf[q.dev]], clock)
  BY <1>1, <1>2
<1>4. OpsOK'
  BY <1>3 DEF OpsOK
<1>5. ops' \subseteq Op
  BY <1>3 DEF OpOK
<1>6. ASSUME NEW x \in ops', NEW y \in ops', x.id = y.id
      PROVE  x = y
  <2>1. \A u, v \in ops : u.id = v.id => u = v
    BY DEF Typed
  <2> QED
    BY <1>1, <1>2, <1>6, <2>1
<1> QED
  BY <1>4, <1>5, <1>6

\* An operation that has just been called.
Opened(p, d, id, kind, plan, at) ==
    /\ p \in Op /\ p.dev = d /\ p.id = id /\ p.kind = kind /\ p.plan = plan
    /\ p.step = 1 /\ p.at = at /\ Blank(p) /\ p.fresh = <<>> /\ p.until = 0

LEMMA PlainOp ==
    ASSUME NEW d \in Device, NEW id \in Nat, NEW kind \in Kinds, NEW plan \in Seq(PlanStep)
    PROVE  Opened(NewOp(d, id, kind, plan), d, id, kind, plan, "locate")
<1>1. MaxRetries \in 0..MaxRetries /\ <<>> \in Seq(Message) /\ 1 \in Nat
  BY SwarmsAssumption
<1> DEFINE q == NewOp(d, id, kind, plan)
<1>2. q = [dev |-> d, id |-> id, kind |-> kind, plan |-> plan, step |-> 1, at |-> "locate",
           nodes |-> {}, list |-> {}, target |-> Undefined, tries |-> MaxRetries,
           misdirected |-> {}, got |-> <<>>, fresh |-> <<>>, until |-> 0]
  BY DEF NewOp
<1> HIDE DEF q
<1>3. q \in Op
  BY <1>1, <1>2 DEF Op, At, Asking
<1>4. /\ q.dev = d /\ q.id = id /\ q.kind = kind /\ q.plan = plan /\ q.step = 1 /\ q.at = "locate"
      /\ q.fresh = <<>> /\ q.until = 0
  BY <1>2
<1>5. Blank(q)
  BY <1>2 DEF Blank
<1> QED
  BY <1>3, <1>4, <1>5 DEF Opened, q

LEMMA NewOpTyped ==
    ASSUME NEW d \in Device, NEW id \in Nat, NEW kind \in Kinds, NEW plan \in Seq(PlanStep), NEW at \in At
    PROVE  Opened([NewOp(d, id, kind, plan) EXCEPT !.at = at], d, id, kind, plan, at)
<1> DEFINE q == NewOp(d, id, kind, plan)
<1>1. Opened(q, d, id, kind, plan, "locate")
  BY PlainOp
<1> HIDE DEF q
<1>3. q \in Op /\ Blank(q)
  BY <1>1 DEF Opened
<1>4. /\ q.dev = d /\ q.id = id /\ q.kind = kind /\ q.plan = plan /\ q.step = 1
      /\ q.fresh = <<>> /\ q.until = 0
  BY <1>1 DEF Opened
<1> DEFINE p == [q EXCEPT !.at = at]
<1>6. p \in Op /\ p.at = at /\ p.step = q.step
  BY <1>3 DEF Op
<1>7. Same(q, p)
  BY <1>3 DEF Op, Same
<1>8. Blank(p)
  BY <1>3 DEF Op, Blank
<1> HIDE DEF p
<1>9. /\ p \in Op /\ p.dev = d /\ p.id = id /\ p.kind = kind /\ p.plan = plan /\ p.step = 1 /\ p.at = at
      /\ p.fresh = <<>> /\ p.until = 0
  BY <1>4, <1>6, <1>7 DEF Same
<1> QED
  BY <1>8, <1>9 DEF p, q, Opened

\* An operation is called, with a plan or none yet.
LEMMA StartsTyped ==
    ASSUME Typed, NEW d \in Device, NEW kind \in Kinds, NEW plan, NEW at, Starts(d, kind, plan, at),
           \/ plan = <<>> /\ at \in {"upload", "save"}
           \/ PlanFor(d, clock + 1, kind, clock + 1, plan) /\ plan # <<>> /\ at = "locate",
           UNCHANGED <<members, box, gone, cache, loading, seen, events>>,
           profile' \in [Device -> Profile], disk' \in [Device -> Profile],
           \A x \in Device : profile'[x].name <= clock + 1 /\ disk'[x].name <= clock + 1
    PROVE  Typed'
<1> DEFINE p == [NewOp(d, clock + 1, kind, plan) EXCEPT !.at = at]
<1>1. clock \in Nat /\ clock' = clock + 1 /\ clock + 1 \in Nat /\ ops' = ops \cup {p} /\ StateTypes
  BY DEF Starts, Typed, StateTypes
<1>2. plan \in Seq(PlanStep) /\ at \in At
  <2>1. CASE plan = <<>> /\ at \in {"upload", "save"}
    BY <2>1 DEF At
  <2>2. CASE PlanFor(d, clock + 1, kind, clock + 1, plan) /\ at = "locate"
    BY <2>2 DEF PlanFor, At, Asking
  <2> QED
    BY <2>1, <2>2
<1>3. /\ p \in Op /\ p.dev = d /\ p.id = clock + 1 /\ p.kind = kind /\ p.plan = plan
      /\ p.step = 1 /\ p.at = at /\ Blank(p) /\ p.fresh = <<>>
  BY <1>1, <1>2, NewOpTyped DEF Opened
<1> HIDE DEF p
<1>4. OpOK(p, cache[p.dev], box[AccountOf[p.dev]], clock + 1)
  <2>1. p.plan # <<>> => p.step \in 1..Len(p.plan)
    BY <1>2, <1>3
  <2>2. p.id \in 1..(clock + 1)
    BY <1>1, <1>3
  <2>3. /\ p.at \in {"upload", "save", "locate"} /\ p.target = Undefined /\ Range(p.got) = {}
        /\ Range(p.fresh) = {}
    BY <1>3, NothingGot DEF Blank
  <2> QED
    BY <1>3, <2>1, <2>2, <2>3 DEF OpOK, Asking
<1>5. ASSUME NEW q \in ops
      PROVE  /\ OpOK(q, cache[q.dev], box[AccountOf[q.dev]], clock + 1) /\ q.id # p.id
  <2>1. OpOK(q, cache[q.dev], box[AccountOf[q.dev]], clock)
    BY TypedFacts
  <2>2. CacheGrows(cache[q.dev], cache[q.dev], clock)
    BY DEF CacheGrows
  <2>3. OpOK(q, cache[q.dev], box[AccountOf[q.dev]], clock + 1)
    BY <1>1, <2>1, <2>2, OpLater
  <2>4. q.id \in 1..clock
    BY <2>1 DEF OpOK
  <2> QED
    BY <1>1, <1>3, <2>3, <2>4
<1>6. OpsOK' /\ ops' \subseteq Op
  BY <1>1, <1>4, <1>5, ZenonT(60) DEF OpsOK, OpOK
<1>7. ASSUME NEW x \in ops', NEW y \in ops', x.id = y.id
      PROVE  x = y
  <2>1. \A u, v \in ops : u.id = v.id => u = v
    BY DEF Typed
  <2> QED
    BY <1>1, <1>5, <1>7, <2>1
<1>8. \A a \in Account : \A i \in 1..Len(box'[a]) : MessageOK(box'[a][i], clock')
  <2>1. ASSUME NEW m, MessageOK(m, clock)
        PROVE  MessageOK(m, clock + 1)
    <3>1. m.profile.name \in Nat
      BY <2>1 DEF MessageOK, Message, Profile
    <3> QED
      BY <1>1, <2>1, <3>1 DEF MessageOK
  <2> QED
    BY <1>1, <2>1 DEF Typed
<1>9. \A x \in Device : CacheOK(cache'[x], clock')
  BY <1>1 DEF Typed, CacheOK, HasSnodes
<1>10. \A x \in Device : loading'[x].name <= clock'
  <2>1. \A x \in Device : loading[x].name <= clock /\ loading[x].name \in Nat
    BY DEF Typed, StateTypes, Profile
  <2> QED
    BY <1>1, <2>1
<1>11. StateTypes'
  BY <1>1, <1>6 DEF StateTypes
<1> QED
  BY <1>1, <1>6, <1>7, <1>8, <1>9, <1>10, <1>11 DEF Typed

LEMMA InitTyped == Init => Typed
<1> SUFFICES ASSUME Init PROVE Typed
  OBVIOUS
<1>1. NoProfile \in Profile /\ NoProfile.name = 0
  BY NoProfileTyped DEF NoProfile
<1>2. NewCache \in Cache /\ NewCache.snodes = Undefined /\ NewCache.ourSwarms = Undefined
      /\ NewCache.ourSwarm = Undefined
  BY DEF NewCache, Cache
<1>3. CacheOK(NewCache, 0)
  BY <1>2 DEF CacheOK
<1>4. StateTypes
  BY <1>1, <1>2, SwarmsAssumption DEF Init, StateTypes
<1>5. \A a \in Account : box[a] = <<>>
  BY DEF Init
<1> QED
  BY <1>1, <1>3, <1>4, <1>5 DEF Init, Typed, OpsOK

LEMMA ProfilesTyped ==
    ASSUME Typed
    PROVE  /\ profile \in [Device -> Profile] /\ disk \in [Device -> Profile] /\ loading \in [Device -> Profile]
           /\ clock \in Nat /\ clock + 1 \in Nat
           /\ \A d \in Device :
                /\ profile[d].name \in 0..clock /\ disk[d].name \in 0..clock /\ loading[d].name \in 0..clock
                /\ profile[d].name <= clock + 1 /\ disk[d].name <= clock + 1
<1>1. /\ profile \in [Device -> Profile] /\ disk \in [Device -> Profile] /\ loading \in [Device -> Profile]
      /\ clock \in Nat
  BY DEF Typed, StateTypes
<1>2. \A d \in Device : profile[d].name \in Nat /\ disk[d].name \in Nat /\ loading[d].name \in Nat
  BY <1>1 DEF Profile
<1>3. \A d \in Device : profile[d].name <= clock /\ disk[d].name <= clock /\ loading[d].name <= clock
  BY DEF Typed
<1> QED
  BY <1>1, <1>2, <1>3

LEMMA SendTyped ==
    ASSUME Typed, NEW d \in Device, NEW kind \in Both \cup Notices, Send(d, kind)
    PROVE  Typed'
<1>0. PICK about \in Abouts(d, kind) :
         \E plan \in Plans(d, clock + 1, kind, about) : Starts(d, kind, plan, "locate")
  BY DEF Send
<1>1. PICK plan \in Plans(d, clock + 1, kind, about) : Starts(d, kind, plan, "locate")
  BY <1>0
<1>2. UNCHANGED <<members, box, gone, cache, profile, disk, loading, seen, events>>
  BY DEF Send
<1>3. about \in Nat
  <2>1. events[d] \in Seq(Telling)
    BY DEF Typed, StateTypes
  <2>2. \A j \in DOMAIN events[d] : events[d][j].event.about \in Nat
    <3>1. \A j \in DOMAIN events[d] : events[d][j] \in Telling
      BY <2>1
    <3> QED
      BY <3>1 DEF Telling, Event
  <2> QED
    BY <1>1, <2>2 DEF Abouts, Heard
<1>4. clock + 1 \in Nat
  BY ProfilesTyped
<1>5. PlanFor(d, clock + 1, kind, clock + 1, plan) /\ plan # <<>>
  BY <1>1, <1>3, <1>4, SendPlanned
<1>6. kind \in Kinds
  BY DEF Kinds
<1> QED
  BY <1>1, <1>2, <1>5, <1>6, StartsTyped, ProfilesTyped

LEMMA DeleteMessagesTyped ==
    ASSUME Typed, NEW d \in Device, DeleteMessages(d)
    PROVE  Typed'
<1>1. PICK abouts \in {<<x>> : x \in Sent(d)} \cup {<<x, y>> : x, y \in Sent(d)} :
         Starts(d, "delete", DeletePlan(d, clock + 1, abouts), "locate")
  BY DEF DeleteMessages
<1>2. UNCHANGED <<members, box, gone, cache, profile, disk, loading, seen, events>>
  BY DEF DeleteMessages
<1>3. Sent(d) \subseteq Nat
  BY OpFields DEF Sent, Typed, StateTypes
<1>4. abouts \in Seq(Nat)
  <2>1. CASE \E x \in Sent(d) : abouts = <<x>>
    BY <1>3, <2>1
  <2>2. CASE \E x, y \in Sent(d) : abouts = <<x, y>>
    BY <1>3, <2>2
  <2> QED
    BY <1>1, <2>1, <2>2
<1>5. clock + 1 \in Nat /\ "delete" \in Kinds
  BY ProfilesTyped DEF Kinds
<1>6. /\ PlanFor(d, clock + 1, "delete", clock + 1, DeletePlan(d, clock + 1, abouts))
      /\ DeletePlan(d, clock + 1, abouts) # <<>>
  BY <1>4, <1>5, DeletePlanned
<1> QED
  BY <1>1, <1>2, <1>5, <1>6, StartsTyped, ProfilesTyped

LEMMA StartPollTyped ==
    ASSUME Typed, NEW d \in Device, StartPoll(d)
    PROVE  Typed'
<1>1. /\ Starts(d, "poll", PollPlan(d), "locate")
      /\ UNCHANGED <<members, box, gone, cache, profile, disk, loading, seen, events>>
  BY DEF StartPoll
<1>2. clock + 1 \in Nat /\ "poll" \in Kinds
  BY ProfilesTyped DEF Kinds
<1>3. PlanFor(d, clock + 1, "poll", clock + 1, PollPlan(d)) /\ PollPlan(d) # <<>>
  BY <1>2, PollPlanned
<1> QED
  BY <1>1, <1>2, <1>3, StartsTyped, ProfilesTyped

LEMMA SetDisplayNameTyped ==
    ASSUME Typed, NEW d \in Device, SetDisplayName(d)
    PROVE  Typed'
<1>1. /\ Starts(d, "rename", <<>>, "save")
      /\ profile' = [profile EXCEPT ![d].name = clock + 1]
      /\ disk' = [disk EXCEPT ![d].name = clock + 1]
      /\ UNCHANGED <<members, box, gone, cache, loading, seen, events>>
  BY DEF SetDisplayName
<1>2. /\ profile' \in [Device -> Profile] /\ disk' \in [Device -> Profile]
      /\ \A x \in Device : profile'[x].name <= clock + 1 /\ disk'[x].name <= clock + 1
  <2>1. ASSUME NEW q \in Profile
        PROVE  [q EXCEPT !.name = clock + 1] \in Profile /\ [q EXCEPT !.name = clock + 1].name = clock + 1
    BY ProfilesTyped DEF Profile
  <2> QED
    BY <1>1, <2>1, ProfilesTyped
<1>3. "rename" \in Kinds
  BY DEF Kinds
<1> QED
  BY <1>1, <1>2, <1>3, StartsTyped

LEMMA SetAvatarTyped ==
    ASSUME Typed, NEW d \in Device, SetAvatar(d)
    PROVE  Typed'
<1>1. /\ Starts(d, "avatar", <<>>, "upload")
      /\ UNCHANGED <<members, box, gone, cache, profile, disk, loading, seen, events>>
  BY DEF SetAvatar
<1>2. "avatar" \in Kinds
  BY DEF Kinds
<1> QED
  BY <1>1, <1>2, StartsTyped, ProfilesTyped

\* An operation goes on, and nothing else but the profiles and what has been seen changes.
LEMMA ContinuesTyped ==
    ASSUME Typed, NEW o \in ops, NEW p, Becomes(o, p), Alike(o, p),
           OpOK(p, cache[o.dev], box[AccountOf[o.dev]], clock),
           UNCHANGED <<members, box, gone, cache, clock, loading>>,
           profile' \in [Device -> Profile], disk' \in [Device -> Profile],
           \A x \in Device : profile'[x].name <= clock /\ disk'[x].name <= clock,
           seen' \in [Device -> SUBSET Hash], events' \in [Device -> Seq(Telling)]
    PROVE  Typed'
<1>1. \A d \in Device : CacheGrows(cache[d], cache'[d], clock)
  BY DEF CacheGrows
<1>2. /\ ops' \subseteq Op /\ OpsOK'
      /\ (\A x, y \in ops : x.id = y.id => x = y)'
  BY <1>1, OpsTurn
<1>3. StateTypes'
  BY <1>2 DEF Typed, StateTypes
<1>4. /\ \A a \in Account : \A i \in 1..Len(box'[a]) : MessageOK(box'[a][i], clock')
      /\ \A d \in Device : CacheOK(cache'[d], clock') /\ loading'[d].name <= clock'
  BY DEF Typed
<1> QED
  BY <1>2, <1>3, <1>4 DEF Typed

\* An operation without a plan yet, or that ends.
LEMMA OpEnds ==
    ASSUME NEW o, NEW c, NEW b, NEW now \in Nat, OpOK(o, c, b, now), NEW at \in {"resolved", "rejected", "lost"},
           NEW e, NEW bb
    PROVE  OpOK(Cleared(o, at), e, bb, now) /\ Same(o, Cleared(o, at)) /\ Cleared(o, at).at = at
<1> DEFINE p == Cleared(o, at)
<1>1. /\ p \in Op /\ Same(o, p) /\ p.step = o.step /\ p.at = at /\ p.target = Undefined /\ p.got = <<>>
  BY ClearedOp DEF OpOK, Blank, At
<1> HIDE DEF p
<1>2. OpOK(p, e, bb, now)
  BY <1>1, OpStays, NothingGot DEF Asking
<1> QED
  BY <1>1, <1>2 DEF p

LEMMA DoneOp ==
    ASSUME NEW o \in Op, NEW at \in At, clock \in Nat
    PROVE  /\ Done(o, at) \in Op /\ Alike(o, Done(o, at)) /\ Blank(Done(o, at))
           /\ Done(o, at).at = at /\ Done(o, at).step = o.step
           /\ Done(o, at).fresh = o.fresh /\ Done(o, at).until = clock
<1> DEFINE q == Cleared(o, at)
           p == Done(o, at)
<1>1. q \in Op /\ Same(o, q) /\ Blank(q) /\ q.at = at /\ q.step = o.step
  BY ClearedOp
<1>2. p = [q EXCEPT !.until = clock]
  BY DEF Done
<1> HIDE DEF p, q
<1>3. p \in Op /\ p.until = clock /\ p.fresh = q.fresh /\ p.at = q.at /\ p.step = q.step
  BY <1>1, <1>2 DEF Op
<1>4. Alike(q, p)
  BY <1>1, <1>2 DEF Op, Alike
<1>5. Blank(p)
  BY <1>1, <1>2 DEF Op, Blank
<1> QED
  BY <1>1, <1>3, <1>4, <1>5 DEF p, Same, Alike

\* A poll that is done with its messages, or an operation that a restart ends.
LEMMA DoneEnds ==
    ASSUME NEW o, NEW c, NEW b, NEW now \in Nat, OpOK(o, c, b, now), clock \in Nat,
           NEW at \in {"resolved", "rejected", "lost"}, NEW e, NEW bb
    PROVE  OpOK(Done(o, at), e, bb, now) /\ Alike(o, Done(o, at)) /\ Done(o, at).at = at
<1> DEFINE p == Done(o, at)
<1>1. /\ p \in Op /\ Alike(o, p) /\ p.step = o.step /\ p.at = at /\ p.target = Undefined
      /\ p.got = <<>> /\ p.fresh = o.fresh
  BY DoneOp DEF OpOK, Blank, At
<1> HIDE DEF p
<1>2. Step(p) = Step(o)
  BY <1>1 DEF Alike, Step
<1>3. Own(p) = Own(o)
  BY <1>1, <1>2 DEF Alike, Own
<1>4. p.dev = o.dev /\ p.id = o.id /\ p.kind = o.kind /\ p.plan = o.plan
  BY <1>1 DEF Alike
<1>5. OpOK(p, e, bb, now)
  BY <1>1, <1>2, <1>3, <1>4, NothingGot DEF OpOK, Asking
<1> QED
  BY <1>1, <1>5 DEF p

LEMMA DisplayNameSavedTyped ==
    ASSUME Typed, NEW o \in ops, DisplayNameSaved(o)
    PROVE  Typed'
<1> DEFINE plan == ConfigPlan(o.dev, o.id)
           p == [o EXCEPT !.at = "locate", !.plan = plan]
           c == cache[o.dev]
           b == box[AccountOf[o.dev]]
<1>1. OpOK(o, c, b, clock) /\ o \in Op /\ o.dev \in Device /\ clock \in Nat
  BY TypedFacts
<1>2. /\ o.kind = "rename" /\ o.at = "save" /\ Becomes(o, p)
      /\ UNCHANGED <<members, box, gone, cache, clock, loading, profile, disk, seen, events>>
  BY DEF DisplayNameSaved, userVars
<1>3. /\ o.id \in Nat /\ o.id \in 1..clock /\ o.step = 1 /\ o.target = Undefined /\ Range(o.got) \subseteq Range(b)
      /\ \A m \in Range(o.fresh) : MessageOK(m, clock)
  BY <1>1, <1>2 DEF OpOK
<1>4. PlanFor(o.dev, o.id, "rename", clock, plan) /\ plan # <<>>
  BY <1>1, <1>3, ConfigPlanned, ProfilesTyped, SMTT(30)
<1>5. Len(plan) = 1 /\ plan \in Seq(PlanStep)
  BY <1>4 DEF PlanFor, ConfigPlan
<1> HIDE DEF plan, c, b
<1>6. /\ p \in Op /\ p.dev = o.dev /\ p.id = o.id /\ p.kind = o.kind /\ p.plan = plan /\ p.step = o.step
      /\ p.at = "locate" /\ p.target = o.target /\ p.got = o.got /\ p.fresh = o.fresh
  BY <1>1, <1>5 DEF Op, At, Asking
<1> HIDE DEF p
<1>7. OpOK(p, c, b, clock)
  <2>1. p.step \in 1..Len(p.plan)
    <3>1. p.step = 1 /\ Len(p.plan) = 1
      BY <1>3, <1>5, <1>6, Zenon
    <3> QED
      BY <3>1
  <2> QED
    BY <1>2, <1>3, <1>4, <1>6, <2>1 DEF OpOK
<1>8. ops' = (ops \ {o}) \cup {p}
  BY <1>2 DEF Becomes
<1>9. ASSUME NEW x \in ops', x # p
      PROVE  x \in ops /\ x # o /\ OpOK(x, cache[x.dev], box[AccountOf[x.dev]], clock)
  BY <1>8, <1>9, TypedFacts
<1>10. OpsOK' /\ ops' \subseteq Op
  <2>1. \A x \in ops' : OpOK(x, cache[x.dev], box[AccountOf[x.dev]], clock)
    BY <1>6, <1>7, <1>9 DEF c, b
  <2> QED
    BY <1>2, <2>1 DEF OpsOK, OpOK
<1>11. ASSUME NEW x \in ops', NEW y \in ops', x.id = y.id
       PROVE  x = y
  <2>1. \A u, v \in ops : u.id = v.id => u = v
    BY DEF Typed
  <2> QED
    BY <1>6, <1>8, <1>9, <1>11, <2>1
<1>12. StateTypes'
  BY <1>2, <1>10 DEF Typed, StateTypes
<1> QED
  BY <1>2, <1>10, <1>11, <1>12 DEF Typed

LEMMA AvatarKept ==
    ASSUME Typed, NEW f \in [Device -> Profile], NEW d \in Device, NEW v \in Avatar \cup {Undefined},
           \A x \in Device : f[x].name <= clock
    PROVE  /\ [f EXCEPT ![d].avatar = v] \in [Device -> Profile]
           /\ \A x \in Device : [f EXCEPT ![d].avatar = v][x].name = f[x].name
<1>1. ASSUME NEW q \in Profile
      PROVE  [q EXCEPT !.avatar = v] \in Profile /\ [q EXCEPT !.avatar = v].name = q.name
  BY DEF Profile
<1> QED
  BY <1>1

LEMMA UploadedTyped ==
    ASSUME Typed, NEW o \in ops, Uploaded(o)
    PROVE  Typed'
<1> DEFINE c == cache[o.dev]
           b == box[AccountOf[o.dev]]
<1>1. OpOK(o, c, b, clock) /\ o \in Op /\ o.dev \in Device /\ clock \in Nat /\ o.id \in Nat
  BY TypedFacts, OpFields
<1>2. o.at = "upload" /\ UNCHANGED <<members, box, gone, cache, clock, profile, loading, seen, events>>
  BY DEF Uploaded
<1>3. /\ seen' \in [Device -> SUBSET Hash] /\ events' \in [Device -> Seq(Telling)]
      /\ profile' \in [Device -> Profile] /\ \A x \in Device : profile'[x].name <= clock
  BY <1>2 DEF Typed, StateTypes
<1>4. CASE /\ Becomes(o, [o EXCEPT !.at = "save"])
           /\ disk' = [disk EXCEPT ![o.dev].avatar = [of |-> o.id, key |-> TRUE]]
  <2> DEFINE p == [o EXCEPT !.at = "save"]
             v == [of |-> o.id, key |-> TRUE]
  <2>1. Becomes(o, p) /\ disk' = [disk EXCEPT ![o.dev].avatar = v] /\ v \in Avatar
    BY <1>1, <1>4 DEF Avatar
  <2>2. /\ o.plan = <<>> /\ o.target = Undefined /\ Range(o.got) \subseteq Range(b)
    BY <1>1, <1>2 DEF OpOK
  <2>3. p \in Op /\ p.step = o.step /\ p.at = "save" /\ p.target = o.target /\ p.got = o.got
    BY <1>1 DEF Op, At
  <2>4. Same(o, p)
    BY <1>1 DEF Op, Same
  <2> HIDE DEF p, v, c, b
  <2>5. OpOK(p, c, b, clock)
    BY <1>1, <2>2, <2>3, <2>4, OpStays DEF Asking
  <2>6. disk' \in [Device -> Profile] /\ \A x \in Device : disk'[x].name <= clock
    <3>1. disk \in [Device -> Profile] /\ \A x \in Device : disk[x].name <= clock
      BY DEF Typed, StateTypes
    <3> QED
      BY <1>1, <2>1, <3>1, AvatarKept
  <2> QED
    BY <1>2, <1>3, <2>1, <2>4, <2>5, <2>6, ContinuesTyped DEF c, b, Same, Alike
<1>5. CASE Becomes(o, Rejected(o)) /\ UNCHANGED disk
  <2>1. OpOK(Rejected(o), c, b, clock) /\ Alike(o, Rejected(o))
    BY <1>1, OpRejected DEF Same, Alike
  <2>2. disk' \in [Device -> Profile] /\ \A x \in Device : disk'[x].name <= clock
    BY <1>5 DEF Typed, StateTypes
  <2> QED
    BY <1>2, <1>3, <1>5, <2>1, <2>2, ContinuesTyped
<1> QED
  BY <1>4, <1>5 DEF Uploaded

LEMMA AvatarSavedTyped ==
    ASSUME Typed, NEW o \in ops, AvatarSaved(o)
    PROVE  Typed'
<1> DEFINE v == [of |-> o.id, key |-> TRUE]
           p == Cleared(o, "resolved")
<1>1. /\ OpOK(o, cache[o.dev], box[AccountOf[o.dev]], clock) /\ o \in Op /\ o.dev \in Device
      /\ clock \in Nat /\ v \in Avatar
  BY TypedFacts, OpFields DEF Avatar
<1>2. /\ Becomes(o, p) /\ profile' = [profile EXCEPT ![o.dev].avatar = v]
      /\ UNCHANGED <<members, box, gone, cache, clock, disk, loading, seen, events>>
  BY DEF AvatarSaved
<1>3. OpOK(p, cache[o.dev], box[AccountOf[o.dev]], clock) /\ Alike(o, p)
  BY <1>1, OpEnds DEF Same, Alike
<1> HIDE DEF v, p
<1>4. profile' \in [Device -> Profile] /\ \A x \in Device : profile'[x].name <= clock
  <2>1. profile \in [Device -> Profile] /\ \A x \in Device : profile[x].name <= clock
    BY DEF Typed, StateTypes
  <2> QED
    BY <1>1, <1>2, <2>1, AvatarKept
<1>5. /\ seen' \in [Device -> SUBSET Hash] /\ events' \in [Device -> Seq(Telling)]
      /\ disk' \in [Device -> Profile] /\ \A x \in Device : disk'[x].name <= clock
  BY <1>2 DEF Typed, StateTypes
<1> QED
  BY <1>2, <1>3, <1>4, <1>5, ContinuesTyped

LEMMA RequestsTyped ==
    ASSUME Typed, NEW o \in ops, Requests(o)
    PROVE  Typed'
<1>1. Surroundings(o) /\ UNCHANGED <<clock, profile, disk, loading, seen, events>>
  BY RequestTurns DEF Requests
<1>2. PICK p : Turns(o, p)
  BY RequestTurns DEF Requests
<1>3. /\ ops' \subseteq Op /\ OpsOK'
      /\ (\A x, y \in ops : x.id = y.id => x = y)'
  <2>1. \A a \in Account : Range(box[a]) \subseteq Range(box'[a])
    BY <1>1, SurroundingsGrow
  <2>2. \A d \in Device : CacheGrows(cache[d], cache'[d], clock)
    BY <1>1 DEF Surroundings
  <2> QED
    BY <1>1, <1>2, <2>1, <2>2, OpsTurn DEF Turns, Same, Alike
<1>4. StateTypes'
  BY <1>1, <1>3 DEF Surroundings, Typed, StateTypes
<1> QED
  BY <1>1, <1>3, <1>4 DEF Surroundings, Typed

LEMMA HeadAndTail ==
    ASSUME NEW X, NEW s \in Seq(X), s # <<>>
    PROVE  /\ Head(s) \in X /\ Tail(s) \in Seq(X)
           /\ Len(s) \in Nat \ {0} /\ Len(Tail(s)) = Len(s) - 1
           /\ Head(s) = s[1] /\ \A i \in 1..Len(Tail(s)) : Tail(s)[i] = s[i + 1]
           /\ Range(s) = {Head(s)} \cup Range(Tail(s))
<1> DEFINE t == Tail(s)
<1>1. /\ Head(s) \in X /\ t \in Seq(X) /\ Len(s) \in Nat \ {0} /\ Len(t) = Len(s) - 1
      /\ Head(s) = s[1] /\ \A i \in 1..Len(t) : t[i] = s[i + 1]
  OBVIOUS
<1>2. DOMAIN s = 1..Len(s) /\ DOMAIN t = 1..Len(t)
  BY <1>1
<1> HIDE DEF t
<1>3. ASSUME NEW x \in Range(s)
      PROVE  x \in {s[1]} \cup Range(t)
  <2>1. PICK i \in 1..Len(s) : x = s[i]
    BY <1>2 DEF Range
  <2>2. i = 1 \/ (i - 1 \in 1..Len(t) /\ t[i - 1] = s[i])
    BY <1>1
  <2> QED
    BY <1>2, <2>1, <2>2 DEF Range
<1>4. s[1] \in Range(s)
  BY <1>1, <1>2 DEF Range
<1>5. ASSUME NEW x \in Range(t)
      PROVE  x \in Range(s)
  <2>1. PICK i \in 1..Len(t) : x = t[i]
    BY <1>2 DEF Range
  <2>2. i + 1 \in 1..Len(s) /\ t[i] = s[i + 1]
    BY <1>1
  <2> QED
    BY <1>2, <2>1, <2>2 DEF Range
<1> QED
  BY <1>1, <1>3, <1>4, <1>5 DEF t

\* The messages of a box, and so those that a poll has got.
LEMMA GotOK ==
    ASSUME Typed, NEW o \in ops
    PROVE  /\ \A m \in Range(box[AccountOf[o.dev]]) : MessageOK(m, clock)
           /\ \A m \in Range(o.got) : MessageOK(m, clock)
<1>1. /\ OpOK(o, cache[o.dev], box[AccountOf[o.dev]], clock)
      /\ AccountOf[o.dev] \in Account /\ box \in [Account -> Seq(Message)]
  BY TypedFacts
<1> DEFINE b == box[AccountOf[o.dev]]
<1>2. DOMAIN b = 1..Len(b)
  BY <1>1
<1>3. \A i \in 1..Len(b) : MessageOK(b[i], clock)
  BY <1>1 DEF Typed
<1> HIDE DEF b
<1>4. \A m \in Range(b) : MessageOK(m, clock)
  BY <1>2, <1>3 DEF Range
<1> QED
  BY <1>1, <1>4 DEF b, OpOK

LEMMA NothingElse ==
    ASSUME Typed, UNCHANGED <<profile, disk>>
    PROVE  /\ profile' \in [Device -> Profile] /\ disk' \in [Device -> Profile]
           /\ \A x \in Device : profile'[x].name <= clock /\ disk'[x].name <= clock
  BY DEF Typed, StateTypes

\* What storage.has() makes of a poll.
Checked(o) == IF Head(o.got).hash \in seen[o.dev] THEN [o EXCEPT !.got = Tail(o.got)]
                                                  ELSE [o EXCEPT !.at = "marking"]

LEMMA CheckedOp ==
    ASSUME Typed, NEW o \in ops, HasSeen(o)
    PROVE  /\ Checked(o) \in Op /\ Same(o, Checked(o)) /\ Checked(o).step = o.step
           /\ Checked(o).target = o.target /\ Checked(o).misdirected = o.misdirected
           /\ \/ Checked(o).at = "received" /\ Checked(o).got = Tail(o.got)
              \/ /\ Checked(o).at = "marking" /\ Checked(o).got = o.got
                 /\ Head(o.got).hash \notin seen[o.dev]
<1>1. o \in Op /\ o.at = "received" /\ o.got # <<>> /\ o.got \in Seq(Message)
  BY TypedFacts, OpFields DEF HasSeen
<1> DEFINE t == Tail(o.got)
           p == Checked(o)
<1>2. t \in Seq(Message)
  BY <1>1, HeadAndTail
<1> HIDE DEF t
<1>3. CASE Head(o.got).hash \in seen[o.dev]
  <2>1. p = [o EXCEPT !.got = t]
    BY <1>3 DEF Checked, t
  <2> HIDE DEF p
  <2> QED
    BY <1>1, <1>2, <2>1 DEF Op, Same, p, t
<1>4. CASE Head(o.got).hash \notin seen[o.dev]
  <2>1. p = [o EXCEPT !.at = "marking"]
    BY <1>4 DEF Checked
  <2> HIDE DEF p
  <2> QED
    BY <1>1, <1>4, <2>1 DEF Op, At, Same, p
<1> QED
  BY <1>3, <1>4

LEMMA HasSeenTyped ==
    ASSUME Typed, NEW o \in ops, HasSeen(o)
    PROVE  Typed'
<1> DEFINE p == Checked(o)
           c == cache[o.dev]
           b == box[AccountOf[o.dev]]
<1>1. OpOK(o, c, b, clock) /\ clock \in Nat /\ o.got \in Seq(Message)
  BY TypedFacts, OpFields
<1>2. /\ o.at = "received" /\ o.got # <<>> /\ Becomes(o, p)
      /\ UNCHANGED <<members, box, gone, cache, clock, loading, profile, disk, seen, events>>
  BY DEF HasSeen, Checked, userVars
<1>3. /\ p \in Op /\ Same(o, p) /\ p.step = o.step /\ p.target = o.target
      /\ \/ p.at = "received" /\ p.got = Tail(o.got)
         \/ p.at = "marking" /\ p.got = o.got
  BY CheckedOp
<1> HIDE DEF p, c, b
<1>4. Range(Tail(o.got)) \subseteq Range(o.got)
  BY <1>1, <1>2, HeadAndTail
<1>5. /\ o.plan # <<>> /\ Step(o).do = "poll" /\ o.target = Undefined /\ Range(o.got) \subseteq Range(b)
  BY <1>1, <1>2 DEF OpOK
<1>6. OpOK(p, c, b, clock)
  BY <1>1, <1>2, <1>3, <1>4, <1>5, OpStays DEF Asking
<1>7. seen' \in [Device -> SUBSET Hash] /\ events' \in [Device -> Seq(Telling)]
  BY <1>2 DEF Typed, StateTypes
<1> QED
  BY <1>2, <1>3, <1>6, <1>7, NothingElse, ContinuesTyped DEF c, b, Same, Alike

\* What storage.set() makes of a poll.
Marked(o) == [o EXCEPT !.at = "received", !.got = Tail(o.got), !.fresh = Append(o.fresh, Head(o.got))]

LEMMA MarkedOp ==
    ASSUME Typed, NEW o \in ops, MarkSeen(o)
    PROVE  /\ Marked(o) \in Op /\ Alike(o, Marked(o)) /\ Marked(o).step = o.step
           /\ Marked(o).until = o.until /\ Marked(o).at = "received"
           /\ Marked(o).target = o.target /\ Marked(o).misdirected = o.misdirected
           /\ Marked(o).got = Tail(o.got) /\ Marked(o).fresh = Append(o.fresh, Head(o.got))
           /\ o.got # <<>> /\ o.got \in Seq(Message) /\ o.fresh \in Seq(Message)
<1>1. /\ o \in Op /\ o.at = "marking" /\ o.got \in Seq(Message) /\ o.fresh \in Seq(Message)
      /\ OpOK(o, cache[o.dev], box[AccountOf[o.dev]], clock)
  BY TypedFacts, OpFields DEF MarkSeen
<1> DEFINE t == Tail(o.got)
           f == Append(o.fresh, Head(o.got))
           p == Marked(o)
<1>2. o.got # <<>>
  BY <1>1 DEF OpOK
<1>3. t \in Seq(Message) /\ f \in Seq(Message)
  BY <1>1, <1>2, HeadAndTail, RangeAppend
<1>4. p = [o EXCEPT !.at = "received", !.got = t, !.fresh = f]
  BY DEF Marked
<1> HIDE DEF p, t, f
<1>5. p \in Op
  BY <1>1, <1>3, <1>4 DEF Op, At
<1>6. /\ Alike(o, p) /\ p.step = o.step /\ p.until = o.until /\ p.at = "received" /\ p.target = o.target
      /\ p.misdirected = o.misdirected /\ p.got = t /\ p.fresh = f
  BY <1>1, <1>4 DEF Op, Alike
<1> QED
  BY <1>1, <1>2, <1>5, <1>6 DEF p, t, f

LEMMA MarkSeenTyped ==
    ASSUME Typed, NEW o \in ops, MarkSeen(o)
    PROVE  Typed'
<1> DEFINE p == Marked(o)
           c == cache[o.dev]
           b == box[AccountOf[o.dev]]
           h == Head(o.got)
<1>1. OpOK(o, c, b, clock) /\ clock \in Nat /\ o.dev \in Device
  BY TypedFacts
<1>2. /\ o.at = "marking" /\ Becomes(o, p) /\ seen' = [seen EXCEPT ![o.dev] = seen[o.dev] \cup {h.hash}]
      /\ UNCHANGED <<members, box, gone, cache, clock, loading, profile, disk, events>>
  BY DEF MarkSeen, Marked
<1>3. /\ p \in Op /\ Alike(o, p) /\ p.step = o.step /\ p.at = "received" /\ p.target = o.target
      /\ p.got = Tail(o.got) /\ p.fresh = Append(o.fresh, h)
      /\ o.got # <<>> /\ o.got \in Seq(Message) /\ o.fresh \in Seq(Message)
  BY MarkedOp
<1>4. \A m \in Range(o.got) : MessageOK(m, clock)
  BY GotOK
<1> HIDE DEF p, c, b, h
<1>5. Range(p.got) \subseteq Range(o.got) /\ h \in Range(o.got) /\ h \in Message
  BY <1>3, HeadAndTail DEF h
<1>6. Range(p.fresh) = Range(o.fresh) \cup {h}
  BY <1>3, <1>5, RangeAppend
<1>7. /\ o.plan # <<>> /\ Step(o).do = "poll" /\ o.target = Undefined /\ Range(o.got) \subseteq Range(b)
      /\ \A m \in Range(o.fresh) : MessageOK(m, clock)
  BY <1>1, <1>2 DEF OpOK
<1>8. /\ Step(p) = Step(o) /\ p.dev = o.dev /\ p.id = o.id /\ p.kind = o.kind /\ p.plan = o.plan
  BY <1>3 DEF Alike, Step
<1>9. OpOK(p, c, b, clock)
  BY <1>1, <1>3, <1>4, <1>5, <1>6, <1>7, <1>8 DEF OpOK, Asking
<1>10. seen' \in [Device -> SUBSET Hash] /\ events' \in [Device -> Seq(Telling)]
  <2>1. seen \in [Device -> SUBSET Hash] /\ events \in [Device -> Seq(Telling)] /\ h.hash \in Hash
    BY <1>5 DEF Typed, StateTypes, Message
  <2> QED
    BY <1>1, <1>2, <2>1
<1> QED
  BY <1>2, <1>3, <1>9, <1>10, NothingElse, ContinuesTyped DEF c, b

\* What a poll tells, and what becomes of it.
LEMMA TellsTyped ==
    ASSUME Typed, NEW o \in ops, NEW k \in 0..Len(Emitted(o.fresh)), Tells(o, k)
    PROVE  /\ events' \in [Device -> Seq(Telling)]
           /\ \A d \in Device : d # o.dev => events'[d] = events[d]
           /\ Len(events'[o.dev]) = Len(events[o.dev]) + k /\ Len(events[o.dev]) \in Nat
           /\ \A i \in 1..Len(events[o.dev]) : events'[o.dev][i] = events[o.dev][i]
           /\ \A i \in 1..k : events'[o.dev][i + Len(events[o.dev])]
                                 = [event |-> Emitted(o.fresh)[i], by |-> o.id]
<1> DEFINE d == o.dev
           es == Emitted(o.fresh)
           new == [i \in 1..k |-> [event |-> es[i], by |-> o.id]]
           old == events[d]
<1>1. d \in Device /\ o.id \in Nat /\ o.fresh \in Seq(Message) /\ events \in [Device -> Seq(Telling)]
  BY TypedFacts, OpFields DEF Typed, StateTypes
<1>2. es \in Seq(Event)
  BY <1>1, EmittedTyped
<1>3. events' = [events EXCEPT ![d] = old \o new]
  BY DEF Tells
<1> HIDE DEF es, d
<1>4. \A i \in 1..k : [event |-> es[i], by |-> o.id] \in Telling
  BY <1>1, <1>2 DEF Telling, es
<1>5. new \in [1..k -> Telling] /\ k \in Nat
  BY <1>4
<1>6. new \in Seq(Telling) /\ Len(new) = k /\ \A i \in 1..k : new[i] = [event |-> es[i], by |-> o.id]
  BY <1>5
<1> HIDE DEF new
<1>7. old \in Seq(Telling)
  BY <1>1
<1> HIDE DEF old
<1>8. old \o new \in Seq(Telling) /\ Follows(old, new, old \o new)
  BY <1>6, <1>7, Concatenation
<1>9. /\ events' \in [Device -> Seq(Telling)] /\ events'[d] = old \o new
      /\ \A x \in Device : x # d => events'[x] = events[x]
  BY <1>1, <1>3, <1>8
<1>10. Len(old) \in Nat
  BY <1>7
<1> QED
  BY <1>6, <1>8, <1>9, <1>10 DEF Follows, d, es, old

LEMMA AppliesTyped ==
    ASSUME Typed, NEW o \in ops, Applies(o)
    PROVE  /\ profile' \in [Device -> Profile] /\ disk' \in [Device -> Profile]
           /\ \A x \in Device : profile'[x].name <= clock /\ disk'[x].name <= clock
<1> DEFINE d == o.dev
           batch == o.fresh
<1>1. OpOK(o, cache[d], box[AccountOf[d]], clock) /\ d \in Device /\ batch \in Seq(Message)
  BY TypedFacts, OpFields
<1>2. /\ profile \in [Device -> Profile] /\ disk \in [Device -> Profile]
      /\ \A x \in Device : profile[x].name <= clock /\ disk[x].name <= clock
  BY DEF Typed, StateTypes
<1>3. CASE Configs(batch) = {}
  BY <1>2, <1>3 DEF Applies
<1>4. CASE Configs(batch) # {}
  <2>1. /\ Applied(batch) \in Profile /\ Synced(Applied(batch)) \in Profile
        /\ Synced(Applied(batch)).name = Applied(batch).name
    BY <1>1, <1>4, AppliedTyped
  <2>2. Applied(batch).name <= clock
    <3>1. PICK m \in Range(batch) : Applied(batch).name = m.profile.name
      BY <1>1, <1>4, AppliedTyped
    <3> QED
      BY <1>1, <3>1 DEF OpOK, MessageOK
  <2>3. profile' = [profile EXCEPT ![d] = Applied(batch)] /\ disk' = [disk EXCEPT ![d] = Synced(Applied(batch))]
    BY <1>4 DEF Applies
  <2> HIDE DEF batch, d
  <2> QED
    BY <1>1, <1>2, <2>1, <2>2, <2>3
<1> QED
  BY <1>3, <1>4

\* A listener that throws while the configuration is applied leaves the avatars alone.
LEMMA AppliesPartlyTyped ==
    ASSUME Typed, NEW o \in ops, AppliesPartly(o)
    PROVE  /\ profile' \in [Device -> Profile] /\ disk' \in [Device -> Profile]
           /\ \A x \in Device : /\ profile'[x].name <= clock /\ disk'[x].name <= clock
                                /\ profile'[x].avatar = profile[x].avatar
                                /\ disk'[x].avatar = disk[x].avatar
<1> DEFINE d == o.dev
           name == Applied(o.fresh).name
<1>1. OpOK(o, cache[d], box[AccountOf[d]], clock) /\ d \in Device /\ o.fresh \in Seq(Message)
  BY TypedFacts, OpFields
<1>2. /\ profile \in [Device -> Profile] /\ disk \in [Device -> Profile]
      /\ \A x \in Device : profile[x].name <= clock /\ disk[x].name <= clock
  BY DEF Typed, StateTypes
<1>3. name \in Nat /\ name <= clock
  <2>1. Configs(o.fresh) # {}
    BY DEF AppliesPartly
  <2>2. Applied(o.fresh) \in Profile /\ \E m \in Range(o.fresh) : name = m.profile.name
    BY <1>1, <2>1, AppliedTyped
  <2> QED
    BY <1>1, <2>2 DEF Profile, OpOK, MessageOK
<1>4. \/ UNCHANGED <<profile, disk>>
      \/ profile' = [profile EXCEPT ![d].name = name] /\ disk' = [disk EXCEPT ![d].name = name]
  BY DEF AppliesPartly
<1> HIDE DEF name, d
<1>5. ASSUME NEW q \in Profile
      PROVE  /\ [q EXCEPT !.name = name] \in Profile /\ [q EXCEPT !.name = name].name = name
             /\ [q EXCEPT !.name = name].avatar = q.avatar
  BY <1>3, <1>5 DEF Profile
<1>6. CASE UNCHANGED <<profile, disk>>
  BY <1>2, <1>6
<1>7. CASE profile' = [profile EXCEPT ![d].name = name] /\ disk' = [disk EXCEPT ![d].name = name]
  <2> DEFINE u == [profile[d] EXCEPT !.name = name]
             v == [disk[d] EXCEPT !.name = name]
  <2>1. /\ u \in Profile /\ u.name = name /\ u.avatar = profile[d].avatar
        /\ v \in Profile /\ v.name = name /\ v.avatar = disk[d].avatar
    BY <1>1, <1>2, <1>5
  <2>2. profile' = [profile EXCEPT ![d] = u] /\ disk' = [disk EXCEPT ![d] = v]
    BY <1>7
  <2> HIDE DEF u, v
  <2> QED
    BY <1>1, <1>2, <1>3, <2>1, <2>2
<1> QED
  BY <1>4, <1>6, <1>7

\* How a poll is done: what it told, what it applied, and how it ended.
EmitsAs(o, k, at) ==
    /\ Becomes(o, Done(o, at))
    /\ Tells(o, k)
    /\ \/ UNCHANGED <<profile, disk>> \/ Applies(o) \/ AppliesPartly(o)

LEMMA EmitsHow ==
    ASSUME NEW o, Emits(o), Typed, o \in ops
    PROVE  /\ \E k \in 0..Len(Emitted(o.fresh)), at \in {"resolved", "rejected"} :
                 /\ EmitsAs(o, k, at)
                 /\ at = "resolved" => k = Len(Emitted(o.fresh))
           /\ o.at = "received" /\ o.got = <<>>
           /\ UNCHANGED <<members, box, gone, cache, program, clock, loading, seen, unsent>>
<1> DEFINE n == Len(Emitted(o.fresh))
<1>1. n \in Nat
  BY TypedFacts, OpFields, EmittedTyped
<1> HIDE DEF n
<1>2. CASE Tells(o, n) /\ Applies(o) /\ Becomes(o, Done(o, "resolved"))
  BY <1>1, <1>2 DEF Emits, EmitsAs, n
<1>3. CASE /\ \E k \in 0..n : /\ Tells(o, k)
                              /\ \/ k \in 1..Len(Early(o)) /\ UNCHANGED <<profile, disk>>
                                 \/ k = Len(Early(o)) /\ AppliesPartly(o)
                                 \/ k > Len(Early(o)) /\ Applies(o)
           /\ Becomes(o, Done(o, "rejected"))
  <2>1. PICK k \in 0..n : /\ Tells(o, k)
                          /\ UNCHANGED <<profile, disk>> \/ AppliesPartly(o) \/ Applies(o)
    BY <1>3
  <2>2. EmitsAs(o, k, "rejected")
    BY <1>3, <2>1 DEF EmitsAs
  <2> QED
    BY <1>1, <2>1, <2>2 DEF Emits, n
<1>4. \/ Tells(o, n) /\ Applies(o) /\ Becomes(o, Done(o, "resolved"))
      \/ /\ \E k \in 0..n : /\ Tells(o, k)
                            /\ \/ k \in 1..Len(Early(o)) /\ UNCHANGED <<profile, disk>>
                               \/ k = Len(Early(o)) /\ AppliesPartly(o)
                               \/ k > Len(Early(o)) /\ Applies(o)
         /\ Becomes(o, Done(o, "rejected"))
  BY Zenon DEF Emits, n
<1> QED
  BY <1>2, <1>3, <1>4

LEMMA EmitsTyped ==
    ASSUME Typed, NEW o \in ops, Emits(o)
    PROVE  Typed'
<1>1. PICK k \in 0..Len(Emitted(o.fresh)), at \in {"resolved", "rejected"} : EmitsAs(o, k, at)
  BY EmitsHow
<1>2. UNCHANGED <<members, box, gone, cache, clock, loading, seen>>
  BY EmitsHow
<1>3. OpOK(o, cache[o.dev], box[AccountOf[o.dev]], clock) /\ clock \in Nat
  BY TypedFacts
<1> DEFINE p == Done(o, at)
<1>4. Becomes(o, p) /\ Tells(o, k) /\ (UNCHANGED <<profile, disk>> \/ Applies(o) \/ AppliesPartly(o))
  BY <1>1 DEF EmitsAs
<1>5. OpOK(p, cache[o.dev], box[AccountOf[o.dev]], clock) /\ Alike(o, p)
  BY <1>3, DoneEnds
<1> HIDE DEF p
<1>6. events' \in [Device -> Seq(Telling)] /\ seen' \in [Device -> SUBSET Hash]
  BY <1>2, <1>4, TellsTyped DEF Typed, StateTypes
<1>7. /\ profile' \in [Device -> Profile] /\ disk' \in [Device -> Profile]
      /\ \A x \in Device : profile'[x].name <= clock /\ disk'[x].name <= clock
  BY <1>4, AppliesTyped, AppliesPartlyTyped, NothingElse
<1> QED
  BY <1>2, <1>4, <1>5, <1>6, <1>7, ContinuesTyped

\* What a restart makes of the operations there were, and the operations it starts.
Survivors(d)     == {IF o.dev = d /\ ~Ended(o) THEN Done(o, "lost") ELSE o : o \in ops}
Began(d)         == Cleared(NewOp(d, clock + 1, "restart", <<>>), "resolved")
Renaming(d)      == [NewOp(d, clock + 2, "rename", <<>>) EXCEPT !.at = "save"]
Begun(d, named)  == IF named THEN {Began(d), Renaming(d)} ELSE {Began(d)}

LEMMA SurvivorsTyped ==
    ASSUME Typed, NEW d \in Device, cache' = [cache EXCEPT ![d] = NewCache], NEW q \in Survivors(d),
           NEW later \in Nat, clock <= later
    PROVE  /\ OpOK(q, cache'[q.dev], box[AccountOf[q.dev]], later) /\ q.id \in 1..clock
           /\ \E o \in ops : Alike(o, q) /\ q.step = o.step
                /\ (q = o \/ (o.dev = d /\ ~Ended(o) /\ q = Done(o, "lost") /\ q.at = "lost"))
<1>1. PICK o \in ops : q = IF o.dev = d /\ ~Ended(o) THEN Done(o, "lost") ELSE o
  BY DEF Survivors
<1>2. /\ OpOK(o, cache[o.dev], box[AccountOf[o.dev]], clock) /\ o \in Op /\ o.dev \in Device
      /\ clock \in Nat /\ cache \in [Device -> Cache]
  BY TypedFacts
<1>3. o.id \in 1..clock
  BY <1>2 DEF OpOK
<1>4. CASE o.dev = d /\ ~Ended(o)
  <2>1. q = Done(o, "lost")
    BY <1>1, <1>4
  <2>2. /\ OpOK(q, cache'[o.dev], box[AccountOf[o.dev]], clock) /\ Alike(o, q) /\ q.at = "lost"
    BY <1>2, <2>1, DoneEnds
  <2>3. q.step = o.step
    BY <1>2, <2>1, DoneOp DEF At
  <2>4. CacheGrows(cache'[o.dev], cache'[o.dev], clock)
    BY DEF CacheGrows
  <2>5. OpOK(q, cache'[o.dev], box[AccountOf[o.dev]], later)
    BY <1>2, <2>2, <2>4, OpLater
  <2> QED
    BY <1>3, <1>4, <2>1, <2>2, <2>3, <2>5 DEF Alike
<1>5. CASE ~(o.dev = d /\ ~Ended(o))
  <2>1. q = o /\ Alike(o, q)
    BY <1>1, <1>5 DEF Alike
  <2>2. OpOK(o, cache'[o.dev], box[AccountOf[o.dev]], clock)
    <3>1. CASE o.dev # d
      BY <1>2, <3>1
    <3>2. CASE Ended(o)
      BY <1>2, <3>2 DEF OpOK, Ended, Asking
    <3> QED
      BY <1>5, <3>1, <3>2
  <2>3. CacheGrows(cache'[o.dev], cache'[o.dev], clock)
    BY DEF CacheGrows
  <2>4. OpOK(o, cache'[o.dev], box[AccountOf[o.dev]], later)
    BY <1>2, <2>2, <2>3, OpLater
  <2> QED
    BY <1>3, <2>1, <2>4
<1> QED
  BY <1>4, <1>5

LEMMA BegunTyped ==
    ASSUME Typed, NEW d \in Device
    PROVE  /\ Began(d) \in Op /\ Began(d).dev = d /\ Began(d).id = clock + 1 /\ Began(d).kind = "restart"
           /\ Began(d).plan = <<>> /\ Began(d).at = "resolved" /\ Began(d).step = 1 /\ Blank(Began(d))
           /\ Began(d).fresh = <<>> /\ Began(d).until = 0
           /\ Renaming(d) \in Op /\ Renaming(d).dev = d /\ Renaming(d).id = clock + 2
           /\ Renaming(d).kind = "rename" /\ Renaming(d).plan = <<>> /\ Renaming(d).at = "save"
           /\ Renaming(d).step = 1 /\ Blank(Renaming(d))
           /\ Renaming(d).fresh = <<>> /\ Renaming(d).until = 0
           /\ \A c, b : /\ OpOK(Began(d), c, b, clock + 1) /\ OpOK(Began(d), c, b, clock + 2)
                        /\ OpOK(Renaming(d), c, b, clock + 2)
<1>1. /\ clock \in Nat /\ clock + 1 \in Nat /\ clock + 2 \in Nat
      /\ "restart" \in Kinds /\ "rename" \in Kinds /\ "locate" \in At /\ "save" \in At /\ "resolved" \in At
      /\ <<>> \in Seq(PlanStep)
  BY ProfilesTyped DEF Kinds, At, Asking
<1> DEFINE n == NewOp(d, clock + 1, "restart", <<>>)
           p == Began(d)
           r == Renaming(d)
<1>2. Opened(n, d, clock + 1, "restart", <<>>, "locate")
  BY <1>1, PlainOp
<1>10. Opened(r, d, clock + 2, "rename", <<>>, "save")
  BY <1>1, NewOpTyped DEF Renaming
<1>4. /\ p \in Op /\ Same(n, p) /\ p.at = "resolved" /\ p.step = n.step /\ Blank(p)
  <2>1. n \in Op
    BY <1>2 DEF Opened
  <2>2. p = Cleared(n, "resolved")
    BY DEF Began
  <2> HIDE DEF n, p
  <2> QED
    BY <1>1, <2>1, <2>2, ClearedOp
<1>5. /\ r \in Op /\ r.dev = d /\ r.id = clock + 2 /\ r.kind = "rename" /\ r.plan = <<>>
      /\ r.step = 1 /\ r.at = "save" /\ Blank(r) /\ r.fresh = <<>> /\ r.until = 0
  BY <1>10 DEF Opened
<1> HIDE DEF n, p, r
<1>6. /\ p.dev = d /\ p.id = clock + 1 /\ p.kind = "restart" /\ p.plan = <<>> /\ p.step = 1
      /\ p.fresh = <<>> /\ p.until = 0
  BY <1>2, <1>4 DEF Same, Opened
<1>7. clock + 1 \in 1..(clock + 1) /\ clock + 1 \in 1..(clock + 2) /\ clock + 2 \in 1..(clock + 2)
  BY <1>1
<1>8. \A c, b : OpOK(p, c, b, clock + 1) /\ OpOK(p, c, b, clock + 2)
  BY <1>4, <1>6, <1>7, NothingGot DEF OpOK, Blank, Asking
<1>9. \A c, b : OpOK(r, c, b, clock + 2)
  BY <1>5, <1>7, NothingGot DEF OpOK, Blank, Asking
<1> QED
  BY <1>4, <1>5, <1>6, <1>8, <1>9 DEF p, r

LEMMA RestartTyped ==
    ASSUME Typed, NEW d \in Device, Restart(d)
    PROVE  Typed'
<1>1. PICK named \in BOOLEAN :
         /\ clock' = IF named THEN clock + 2 ELSE clock + 1
         /\ ops' = Survivors(d) \cup Begun(d, named)
         /\ cache' = [cache EXCEPT ![d] = NewCache]
         /\ profile' = [profile EXCEPT ![d] = [NoProfile EXCEPT !.name = IF named THEN clock + 2 ELSE 0]]
         /\ disk' = IF named THEN [disk EXCEPT ![d].name = clock + 2] ELSE disk
         /\ loading' = [loading EXCEPT ![d] = Reloaded(d, named)]
         /\ UNCHANGED <<members, box, gone, seen, events>>
  BY Zenon DEF Restart, Survivors, Begun, Began, Renaming
<1>2. /\ clock \in Nat /\ clock' \in Nat /\ clock <= clock' /\ (named => clock' = clock + 2)
      /\ (~named => clock' = clock + 1)
  BY <1>1, ProfilesTyped
<1>3. ASSUME NEW q \in Survivors(d)
      PROVE  OpOK(q, cache'[q.dev], box[AccountOf[q.dev]], clock') /\ q.id \in 1..clock
  BY <1>1, <1>2, SurvivorsTyped, ZenonT(60)
<1>4. ASSUME NEW q \in Begun(d, named)
      PROVE  /\ OpOK(q, cache'[q.dev], box[AccountOf[q.dev]], clock') /\ q.id \in {clock + 1, clock + 2}
  BY <1>2, BegunTyped DEF Begun
<1>5. OpsOK' /\ ops' \subseteq Op
  BY <1>1, <1>3, <1>4 DEF OpsOK, OpOK
<1>6. ASSUME NEW x \in ops', NEW y \in ops', x.id = y.id
      PROVE  x = y
  <2>1. CASE x \in Survivors(d) /\ y \in Survivors(d)
    <3>1. PICK u \in ops : x = IF u.dev = d /\ ~Ended(u) THEN Done(u, "lost") ELSE u
      BY <2>1 DEF Survivors
    <3>2. PICK v \in ops : y = IF v.dev = d /\ ~Ended(v) THEN Done(v, "lost") ELSE v
      BY <2>1 DEF Survivors
    <3>3. u \in Op /\ v \in Op
      BY TypedFacts
    <3>4. Done(u, "lost").id = u.id /\ Done(v, "lost").id = v.id
      BY <1>2, <3>3, DoneOp DEF Alike, At
    <3>5. u.id = v.id
      BY <1>6, <3>1, <3>2, <3>4
    <3>6. u = v
      BY <3>5 DEF Typed
    <3> QED
      BY <3>1, <3>2, <3>6
  <2>2. CASE x \in Survivors(d) /\ y \in Begun(d, named)
    BY <1>2, <1>3, <1>4, <1>6, <2>2
  <2>3. CASE x \in Begun(d, named) /\ y \in Survivors(d)
    BY <1>2, <1>3, <1>4, <1>6, <2>3
  <2>4. CASE x \in Begun(d, named) /\ y \in Begun(d, named)
    BY <1>2, <1>6, <2>4, BegunTyped DEF Begun
  <2> QED
    BY <1>1, <2>1, <2>2, <2>3, <2>4
<1>7. /\ cache' \in [Device -> Cache] /\ \A x \in Device : CacheOK(cache'[x], clock')
  <2>1. /\ NewCache \in Cache /\ CacheOK(NewCache, clock')
    BY DEF NewCache, Cache, CacheOK
  <2>2. cache \in [Device -> Cache] /\ \A x \in Device : CacheOK(cache[x], clock)
    BY DEF Typed, StateTypes
  <2>3. \A x \in Device : CacheOK(cache[x], clock')
    BY <1>2, <2>2 DEF CacheOK, HasSnodes
  <2> QED
    BY <1>1, <2>1, <2>2, <2>3
<1>8. ASSUME NEW q \in Profile, NEW name \in Nat
      PROVE  [q EXCEPT !.name = name] \in Profile /\ [q EXCEPT !.name = name].name = name
  BY DEF Profile
<1>9. profile' \in [Device -> Profile] /\ \A x \in Device : profile'[x].name <= clock'
  <2> DEFINE name == IF named THEN clock + 2 ELSE 0
             q == [NoProfile EXCEPT !.name = name]
  <2>1. name \in Nat /\ name <= clock'
    BY <1>2
  <2>2. q \in Profile /\ q.name = name
    BY <1>8, <2>1, NoProfileTyped
  <2>3. profile' = [profile EXCEPT ![d] = q]
    BY <1>1
  <2> HIDE DEF q, name
  <2>4. profile \in [Device -> Profile] /\ \A x \in Device : profile[x].name <= clock'
    BY <1>2, ProfilesTyped
  <2> QED
    BY <2>1, <2>2, <2>3, <2>4
<1>10. disk' \in [Device -> Profile] /\ \A x \in Device : disk'[x].name <= clock'
  <2>1. disk \in [Device -> Profile] /\ \A x \in Device : disk[x].name <= clock'
    BY <1>2, ProfilesTyped
  <2>2. CASE named
    BY <1>1, <1>2, <1>8, <2>1, <2>2
  <2>3. CASE ~named
    BY <1>1, <2>1, <2>3
  <2> QED
    BY <2>2, <2>3
<1>11. loading' \in [Device -> Profile] /\ \A x \in Device : loading'[x].name <= clock'
  <2>1. loading \in [Device -> Profile] /\ \A x \in Device : loading[x].name <= clock'
    BY <1>2, ProfilesTyped
  <2>2. Reloaded(d, named) \in Profile /\ Reloaded(d, named).name <= clock'
    <3>1. disk[d] \in Profile /\ disk[d].name <= clock'
      BY <1>2, ProfilesTyped
    <3>2. CASE named
      BY <1>2, <1>8, <3>1, <3>2 DEF Reloaded
    <3>3. CASE ~named
      BY <3>1, <3>3 DEF Reloaded
    <3> QED
      BY <3>2, <3>3
  <2> QED
    BY <1>1, <2>1, <2>2
<1>12. \A a \in Account : \A i \in 1..Len(box'[a]) : MessageOK(box'[a][i], clock')
  <2>1. ASSUME NEW m, MessageOK(m, clock)
        PROVE  MessageOK(m, clock')
    <3>1. m.profile.name \in Nat
      BY <2>1 DEF MessageOK, Message, Profile
    <3> QED
      BY <1>2, <2>1, <3>1 DEF MessageOK
  <2> QED
    BY <1>1, <2>1 DEF Typed
<1>13. StateTypes'
  BY <1>1, <1>2, <1>5, <1>7, <1>9, <1>10, <1>11 DEF Typed, StateTypes
<1> QED
  BY <1>5, <1>6, <1>7, <1>9, <1>10, <1>11, <1>12, <1>13 DEF Typed

LEMMA LoadTyped ==
    ASSUME Typed, NEW d \in Device, LoadName(d) \/ LoadAvatar(d)
    PROVE  Typed'
<1>1. UNCHANGED <<members, box, gone, cache, ops, clock, disk, seen, events>>
  BY DEF LoadName, LoadAvatar, swarmVars
<1>2. /\ profile \in [Device -> Profile] /\ loading \in [Device -> Profile]
      /\ \A x \in Device : profile[x].name <= clock /\ loading[x].name <= clock
      /\ loading[d].name \in Nat /\ loading[d].avatar \in Avatar \cup {Undefined} /\ clock \in Nat
  BY DEF Typed, StateTypes, Profile
<1>3. /\ profile' \in [Device -> Profile] /\ loading' \in [Device -> Profile]
      /\ \A x \in Device : profile'[x].name <= clock /\ loading'[x].name <= clock
  <2>1. CASE LoadName(d)
    <3>1. ASSUME NEW q \in Profile, NEW name \in Nat
          PROVE  [q EXCEPT !.name = name] \in Profile /\ [q EXCEPT !.name = name].name = name
      BY DEF Profile
    <3> DEFINE name == loading[d].name
    <3>2. /\ profile' = [profile EXCEPT ![d].name = name]
          /\ loading' = [loading EXCEPT ![d].name = 0]
      BY <2>1 DEF LoadName
    <3>3. name \in Nat /\ name <= clock /\ 0 \in Nat /\ 0 <= clock
      BY <1>2
    <3> HIDE DEF name
    <3>4. profile' \in [Device -> Profile] /\ \A x \in Device : profile'[x].name <= clock
      BY <1>2, <3>1, <3>2, <3>3
    <3>5. loading' \in [Device -> Profile] /\ \A x \in Device : loading'[x].name <= clock
      BY <1>2, <3>1, <3>2, <3>3, ZenonT(60)
    <3> QED
      BY <3>4, <3>5
  <2>2. CASE LoadAvatar(d)
    <3> DEFINE v == loading[d].avatar
               none == Undefined
    <3>1. /\ profile' = [profile EXCEPT ![d].avatar = v]
          /\ loading' = [loading EXCEPT ![d].avatar = none]
      BY <2>2 DEF LoadAvatar
    <3>4. v \in Avatar \cup {Undefined} /\ none \in Avatar \cup {Undefined}
      BY <1>2
    <3> HIDE DEF v, none
    <3>2. profile' \in [Device -> Profile] /\ \A x \in Device : profile'[x].name <= clock
      BY <1>2, <3>1, <3>4, AvatarKept
    <3>3. loading' \in [Device -> Profile] /\ \A x \in Device : loading'[x].name <= clock
      BY <1>2, <3>1, <3>4, AvatarKept
    <3> QED
      BY <3>2, <3>3
  <2> QED
    BY <2>1, <2>2
<1>4. OpsOK'
  BY <1>1 DEF Typed, OpsOK
<1> QED
  BY <1>1, <1>3, <1>4 DEF Typed, StateTypes

LEMMA UnchangedTyped ==
    ASSUME Typed, UNCHANGED vars
    PROVE  Typed'
<1>1. OpsOK'
  BY DEF Typed, OpsOK, vars, swarmVars, userVars
<1> QED
  BY <1>1 DEF Typed, StateTypes, vars, swarmVars, userVars

LEMMA LeavesTyped ==
    ASSUME Typed, NEW a \in Account, NEW n \in Node, Leaves(a, n), UNCHANGED userVars
    PROVE  Typed'
<1>1. /\ members' = [members EXCEPT ![a] = members[a] \ {n}] /\ members[a] # {n} /\ n \in members[a]
      /\ UNCHANGED <<box, gone, cache, ops, clock, profile, disk, loading, seen, events>>
  BY DEF Leaves, userVars
<1>2. members' \in [Account -> (SUBSET Node) \ {{}}]
  <2>1. members \in [Account -> (SUBSET Node) \ {{}}]
    BY DEF Typed, StateTypes
  <2>2. members[a] \ {n} \in (SUBSET Node) \ {{}}
    BY <1>1, <2>1
  <2> QED
    BY <1>1, <2>1, <2>2
<1>3. OpsOK'
  BY <1>1 DEF Typed, OpsOK
<1> QED
  BY <1>1, <1>2, <1>3 DEF Typed, StateTypes

LEMMA NextTyped ==
    ASSUME Typed, [Next]_vars
    PROVE  Typed'
<1>1. CASE \E d \in Device : User(d) \/ LoadName(d) \/ LoadAvatar(d)
  BY <1>1, SendTyped, DeleteMessagesTyped, StartPollTyped, SetDisplayNameTyped, SetAvatarTyped,
     RestartTyped, LoadTyped DEF User
<1>2. CASE \E o \in ops : Continues(o)
  BY <1>2, DisplayNameSavedTyped, UploadedTyped, AvatarSavedTyped, RequestsTyped, HasSeenTyped,
     MarkSeenTyped, EmitsTyped DEF Continues
<1>3. CASE \E a \in Account, n \in Node : Leaves(a, n) /\ UNCHANGED userVars
  BY <1>3, LeavesTyped
<1>4. CASE UNCHANGED vars
  BY <1>4, UnchangedTyped
<1> QED
  BY <1>1, <1>2, <1>3, <1>4 DEF Next

\* The types, in every behaviour.
LEMMA TypedAlways == Spec => []Typed
<1>1. Init => Typed
  BY InitTyped
<1>2. Typed /\ [Next]_vars => Typed'
  BY NextTyped
<1> QED
  BY <1>1, <1>2, PTL DEF Spec

\* Whatever users call and goes wrong, no operation uses what is undefined: no step of a
\* plan that is not there, no list of snodes or of our swarm that a cache does not have; an
\* operation has a target exactly while its request is out, operations are told apart by
\* their time, and timestamps, names and objects of responses are no newer than the clock.
THEOREM TypeOKAlways == Spec => []TypeOK
<1>1. Typed => TypeOK
  BY TypedImpliesTypeOK
<1> QED
  BY <1>1, TypedAlways, PTL

----------------------------------------------------------------------------
(* How operations and boxes evolve, and the order of what is sent.         *)

\* p is what a step makes of o: with the same plan, once there is one, and no further in
\* it unless the step is done; it is resolved only with its last step.
Succeeds(o, p) ==
    /\ p.dev = o.dev /\ p.id = o.id /\ p.kind = o.kind
    /\ p.plan = o.plan \/ (o.plan = <<>> /\ o.kind = "rename" /\ p.step = 1 /\ p.at = "locate")
    /\ \/ /\ p.step = o.step
          /\ p.at = "resolved" =>
                \/ o.at = "resolved"
                \/ \A i \in 1..Len(p.plan) : p.plan[i].do # "store"
       \/ /\ o.at = "sent" /\ p.plan = o.plan
          /\ Step(o).do = "store" => Step(o).msg \in Range(box'[Step(o).to])
          /\ \/ p.step = o.step /\ p.step = Len(o.plan) /\ p.at = "resolved"
             \/ p.step = o.step + 1 /\ p.at = "locate"

Opens(p) == p.id > clock /\ p.step = 1 /\ (p.at = "resolved" => p.plan = <<>>)

Evolves ==
    /\ \A o \in ops : \E p \in ops' : Succeeds(o, p)
    /\ \A p \in ops' : Opens(p) \/ \E o \in ops : Succeeds(o, p)
    /\ \A a \in Account :
         \/ box'[a] = box[a]
         \/ \E o \in ops : /\ o.at = "sent" /\ Step(o).do = "store" /\ a = Step(o).to
                           /\ Step(o).msg \notin Range(box[a])
                           /\ box'[a] = Append(box[a], Step(o).msg)

LEMMA SucceedsItself == \A o : Succeeds(o, o)
  BY DEF Succeeds

LEMMA EvolvesByTurn ==
    ASSUME NEW o \in ops, NEW p, Becomes(o, p), Succeeds(o, p),
           \A a \in Account :
             \/ box'[a] = box[a]
             \/ /\ o.at = "sent" /\ Step(o).do = "store" /\ a = Step(o).to
                /\ Step(o).msg \notin Range(box[a])
                /\ box'[a] = Append(box[a], Step(o).msg)
    PROVE  Evolves
<1>1. ops' = (ops \ {o}) \cup {p}
  BY DEF Becomes
<1>2. \A q \in ops : \E r \in ops' : Succeeds(q, r)
  BY <1>1, SucceedsItself
<1>3. \A r \in ops' : \E q \in ops : Succeeds(q, r)
  BY <1>1, SucceedsItself
<1> QED
  BY <1>2, <1>3 DEF Evolves

LEMMA EvolvesByStart ==
    ASSUME Typed, NEW d \in Device, NEW kind \in Kinds, NEW plan, NEW at, Starts(d, kind, plan, at),
           at # "resolved", UNCHANGED box
    PROVE  Evolves
<1> DEFINE n == NewOp(d, clock + 1, kind, plan)
           p == [n EXCEPT !.at = at]
<1>1. ops' = ops \cup {p}
  BY DEF Starts
<1>2. n.id = clock + 1 /\ n.step = 1
  BY DEF NewOp
<1>3. p.id = n.id /\ p.step = n.step /\ p.at = at
  BY DEF NewOp
<1>4. clock \in Nat
  BY DEF Typed, StateTypes
<1> HIDE DEF n, p
<1>5. Opens(p)
  BY <1>2, <1>3, <1>4 DEF Opens
<1> QED
  BY <1>1, <1>5, SucceedsItself DEF Evolves

LEMMA EvolvesByRestart ==
    ASSUME Typed, NEW d \in Device, Restart(d)
    PROVE  Evolves
<1>1. PICK named \in BOOLEAN :
         /\ ops' = Survivors(d) \cup Begun(d, named)
         /\ cache' = [cache EXCEPT ![d] = NewCache]
         /\ box' = box
  BY Zenon DEF Restart, Survivors, Begun, Began, Renaming
<1>2. ASSUME NEW o \in ops, NEW q, q = IF o.dev = d /\ ~Ended(o) THEN Done(o, "lost") ELSE o
      PROVE  Succeeds(o, q)
  <2>1. CASE o.dev = d /\ ~Ended(o)
    <3>1. o \in Op /\ clock \in Nat
      BY TypedFacts
    <3>2. Alike(o, q) /\ q.step = o.step /\ q.at = "lost"
      BY <1>2, <2>1, <3>1, DoneOp DEF At
    <3> QED
      BY <3>2 DEF Succeeds, Alike
  <2>2. CASE ~(o.dev = d /\ ~Ended(o))
    BY <1>2, <2>2, SucceedsItself
  <2> QED
    BY <2>1, <2>2
<1>3. \A o \in ops : \E p \in Survivors(d) : Succeeds(o, p)
  BY <1>2 DEF Survivors
<1>4. \A p \in Survivors(d) : \E o \in ops : Succeeds(o, p)
  BY <1>2 DEF Survivors
<1>5. \A p \in Begun(d, named) : Opens(p)
  BY ProfilesTyped, BegunTyped DEF Opens, Begun
<1> QED
  BY <1>1, <1>3, <1>4, <1>5 DEF Evolves

LEMMA EvolvesByUser ==
    ASSUME Typed, NEW d \in Device, User(d)
    PROVE  Evolves
<1>1. ASSUME NEW kind \in Both \cup Notices, Send(d, kind)
      PROVE  Evolves
  <2>1. PICK about \in Abouts(d, kind) :
          \E plan \in Plans(d, clock + 1, kind, about) : Starts(d, kind, plan, "locate")
    BY <1>1 DEF Send
  <2>2. PICK plan \in Plans(d, clock + 1, kind, about) : Starts(d, kind, plan, "locate")
    BY <2>1
  <2>3. UNCHANGED box /\ kind \in Kinds
    BY <1>1 DEF Send, Kinds
  <2> QED
    BY <2>2, <2>3, EvolvesByStart
<1>2. CASE DeleteMessages(d)
  <2>1. PICK abouts \in {<<x>> : x \in Sent(d)} \cup {<<x, y>> : x, y \in Sent(d)} :
          Starts(d, "delete", DeletePlan(d, clock + 1, abouts), "locate")
    BY <1>2 DEF DeleteMessages
  <2>2. UNCHANGED box /\ "delete" \in Kinds
    BY <1>2 DEF DeleteMessages, Kinds
  <2> QED
    BY <2>1, <2>2, EvolvesByStart
<1>3. CASE StartPoll(d)
  <2>1. Starts(d, "poll", PollPlan(d), "locate") /\ UNCHANGED box /\ "poll" \in Kinds
    BY <1>3 DEF StartPoll, Kinds
  <2> QED
    BY <2>1, EvolvesByStart
<1>4. CASE SetDisplayName(d)
  <2>1. Starts(d, "rename", <<>>, "save") /\ UNCHANGED box /\ "rename" \in Kinds
    BY <1>4 DEF SetDisplayName, Kinds
  <2> QED
    BY <2>1, EvolvesByStart
<1>5. CASE SetAvatar(d)
  <2>1. Starts(d, "avatar", <<>>, "upload") /\ UNCHANGED box /\ "avatar" \in Kinds
    BY <1>5 DEF SetAvatar, Kinds
  <2> QED
    BY <2>1, EvolvesByStart
<1> QED
  BY <1>1, <1>2, <1>3, <1>4, <1>5, EvolvesByRestart DEF User

LEMMA EvolvesByContinuing ==
    ASSUME Typed, NEW o \in ops, Continues(o)
    PROVE  Evolves
<1>1. /\ OpOK(o, cache[o.dev], box[AccountOf[o.dev]], clock) /\ o \in Op /\ clock \in Nat
  BY TypedFacts
<1>2. CASE DisplayNameSaved(o)
  <2> DEFINE plan == ConfigPlan(o.dev, o.id)
             p == [o EXCEPT !.at = "locate", !.plan = plan]
  <2>1. o.kind = "rename" /\ o.at = "save" /\ Becomes(o, p) /\ UNCHANGED box
    BY <1>2 DEF DisplayNameSaved
  <2>2. o.plan = <<>> /\ o.step = 1
    BY <1>1, <2>1 DEF OpOK
  <2> HIDE DEF plan
  <2>3. /\ p.dev = o.dev /\ p.id = o.id /\ p.kind = o.kind /\ p.step = o.step /\ p.at = "locate"
    BY <1>1 DEF Op
  <2> HIDE DEF p
  <2>4. Succeeds(o, p)
    BY <2>1, <2>2, <2>3 DEF Succeeds
  <2> QED
    BY <2>1, <2>4, EvolvesByTurn
<1>3. CASE Uploaded(o)
  <2>1. UNCHANGED box /\ (Becomes(o, [o EXCEPT !.at = "save"]) \/ Becomes(o, Rejected(o)))
    BY <1>3 DEF Uploaded
  <2>2. CASE Becomes(o, [o EXCEPT !.at = "save"])
    <3> DEFINE p == [o EXCEPT !.at = "save"]
    <3>1. /\ p.dev = o.dev /\ p.id = o.id /\ p.kind = o.kind /\ p.plan = o.plan
          /\ p.step = o.step /\ p.at = "save"
      BY <1>1 DEF Op
    <3>2. Becomes(o, p)
      BY <2>2
    <3> HIDE DEF p
    <3>3. Succeeds(o, p)
      BY <3>1 DEF Succeeds
    <3> QED
      BY <2>1, <3>2, <3>3, EvolvesByTurn
  <2>3. CASE Becomes(o, Rejected(o))
    <3>1. Succeeds(o, Rejected(o))
      BY <1>1, RejectedOp DEF Succeeds, Same
    <3> QED
      BY <2>1, <2>3, <3>1, EvolvesByTurn
  <2> QED
    BY <2>1, <2>2, <2>3
<1>4. ASSUME o.at \in {"save", "received", "marking"}
      PROVE  \A i \in 1..Len(o.plan) : o.plan[i].do # "store"
  <2>1. CASE o.at = "save"
    BY <1>1, <2>1 DEF OpOK
  <2>2. CASE o.at \in {"received", "marking"}
    <3>1. /\ PlanFor(o.dev, o.id, o.kind, clock, o.plan) /\ o.step \in 1..Len(o.plan)
          /\ o.plan[o.step].do = "poll"
      BY <1>1, <2>2 DEF OpOK, Step
    <3> QED
      BY <3>1 DEF PlanFor
  <2> QED
    BY <1>4, <2>1, <2>2
<1>5. CASE AvatarSaved(o)
  <2>1. Becomes(o, Cleared(o, "resolved")) /\ UNCHANGED box /\ o.at = "save"
    BY <1>5 DEF AvatarSaved
  <2>2. Succeeds(o, Cleared(o, "resolved"))
    BY <1>1, <1>4, <2>1, ClearedOp DEF Succeeds, Same, At
  <2> QED
    BY <2>1, <2>2, EvolvesByTurn
<1>6. CASE HasSeen(o)
  <2>1. Becomes(o, Checked(o)) /\ UNCHANGED box
    BY <1>6 DEF HasSeen, Checked
  <2>2. Succeeds(o, Checked(o))
    BY <1>6, CheckedOp DEF Succeeds, Same
  <2> QED
    BY <2>1, <2>2, EvolvesByTurn
<1>7. CASE MarkSeen(o)
  <2>1. Becomes(o, Marked(o)) /\ UNCHANGED box
    BY <1>7 DEF MarkSeen, Marked
  <2>2. Succeeds(o, Marked(o))
    BY <1>7, MarkedOp DEF Succeeds, Alike
  <2> QED
    BY <2>1, <2>2, EvolvesByTurn
<1>8. CASE Emits(o)
  <2>1. PICK at \in {"resolved", "rejected"} : Becomes(o, Done(o, at))
    BY <1>8, EmitsHow DEF EmitsAs
  <2>2. UNCHANGED box /\ o.at = "received"
    BY <1>8, EmitsHow
  <2>3. Succeeds(o, Done(o, at))
    BY <1>1, <1>4, <2>2, DoneOp DEF Succeeds, Alike, At
  <2> QED
    BY <2>1, <2>2, <2>3, EvolvesByTurn
<1>9. CASE Requests(o)
  <2>1. Surroundings(o)
    BY <1>9, RequestTurns DEF Requests
  <2>2. PICK p : Turns(o, p)
    BY <1>9, RequestTurns DEF Requests
  <2>3. Succeeds(o, p)
    BY <2>2 DEF Turns, Same, Progress, Succeeds
  <2> QED
    BY <2>1, <2>2, <2>3, EvolvesByTurn DEF Surroundings, Turns
<1> QED
  BY <1>2, <1>3, <1>5, <1>6, <1>7, <1>8, <1>9 DEF Continues

LEMMA NextEvolves ==
    ASSUME Typed, [Next]_vars
    PROVE  Evolves
<1>1. ASSUME UNCHANGED <<ops, box>>
      PROVE  Evolves
  BY <1>1, SucceedsItself DEF Evolves
<1>2. CASE \E d \in Device : User(d)
  BY <1>2, EvolvesByUser
<1>3. CASE \E d \in Device : LoadName(d) \/ LoadAvatar(d)
  BY <1>1, <1>3 DEF LoadName, LoadAvatar, swarmVars
<1>4. CASE \E o \in ops : Continues(o)
  BY <1>4, EvolvesByContinuing
<1>5. CASE \E a \in Account, n \in Node : Leaves(a, n) /\ UNCHANGED userVars
  BY <1>1, <1>5 DEF Leaves
<1>6. CASE UNCHANGED vars
  BY <1>1, <1>6 DEF vars, swarmVars
<1> QED
  BY <1>2, <1>3, <1>4, <1>5, <1>6 DEF Next
\* o has come to the step that stores m for a.
Sends(o, k, a, m) == /\ k \in 1..Len(o.plan) /\ k <= o.step
                     /\ o.plan[k].do = "store" /\ o.plan[k].to = a /\ o.plan[k].msg = m

\* Every message comes from an operation, which has come to that step.
Origin == \A a \in Account : \A m \in Range(box[a]) : \E o \in ops : \E k : Sends(o, k, a, m)

\* What an operation has behind it is stored.
Behind(o, i) == /\ i \in 1..Len(o.plan) /\ o.plan[i].do = "store"
                /\ (i < o.step \/ o.at = "resolved")
StoredBefore == \A o \in ops : \A i : Behind(o, i) => o.plan[i].msg \in Range(box[o.plan[i].to])

\* How far along it is, and its plan.
LEMMA OpPlan ==
    ASSUME Typed, NEW o \in ops
    PROVE  /\ o.id \in Nat /\ o.step \in Nat /\ Len(o.plan) \in Nat
           /\ o.plan # <<>> => o.step \in 1..Len(o.plan) /\ PlanFor(o.dev, o.id, o.kind, clock, o.plan)
           /\ o.plan = <<>> => o.step = 1 /\ Len(o.plan) = 0
           /\ DOMAIN o.plan = 1..Len(o.plan)
<1>1. OpOK(o, cache[o.dev], box[AccountOf[o.dev]], clock) /\ o \in Op
  BY TypedFacts
<1> QED
  BY <1>1, OpFields DEF OpOK

LEMMA BoxesGrow ==
    ASSUME Typed, Evolves, NEW a \in Account
    PROVE  Range(box[a]) \subseteq Range(box'[a])
<1>1. CASE box'[a] = box[a]
  BY <1>1
<1>2. CASE \E o \in ops : /\ o.at = "sent" /\ Step(o).do = "store" /\ a = Step(o).to
                          /\ box'[a] = Append(box[a], Step(o).msg)
  <2>1. PICK o \in ops : o.at = "sent" /\ Step(o).do = "store" /\ box'[a] = Append(box[a], Step(o).msg)
    BY <1>2
  <2>2. OpOK(o, cache[o.dev], box[AccountOf[o.dev]], clock) /\ box[a] \in Seq(Message)
    BY TypedFacts
  <2>3. Step(o).msg \in Message
    <3>1. o.plan # <<>>
      BY <2>1, <2>2 DEF OpOK, Asking
    <3> QED
      BY <2>1, <2>2, <3>1, StepTyped DEF StoreFor
  <2> QED
    BY <2>1, <2>2, <2>3, RangeAppend
<1> QED
  BY <1>1, <1>2 DEF Evolves

LEMMA SucceedsSteps ==
    ASSUME Typed, Typed', NEW o \in ops, NEW p \in ops', Succeeds(o, p)
    PROVE  o.plan # <<>> => p.plan = o.plan /\ o.step <= p.step
<1>1. o.step \in Nat /\ p.step \in Nat
  <2>1. o.step \in Nat
    BY OpPlan
  <2>2. p \in Op
    BY DEF Typed, StateTypes
  <2> QED
    BY <2>1, <2>2, OpFields
<1> QED
  BY <1>1 DEF Succeeds

LEMMA OriginKept ==
    ASSUME Typed, Typed', Evolves, Origin
    PROVE  Origin'
<1> SUFFICES ASSUME NEW a \in Account, NEW m \in Range(box'[a])
             PROVE  \E p \in ops' : \E k : Sends(p, k, a, m)
  BY DEF Origin
<1>1. \E o \in ops : \E k : Sends(o, k, a, m)
  <2>1. CASE m \in Range(box[a])
    BY <2>1 DEF Origin
  <2>2. CASE m \notin Range(box[a])
    <3>1. PICK o \in ops : /\ o.at = "sent" /\ Step(o).do = "store" /\ a = Step(o).to
                           /\ box'[a] = Append(box[a], Step(o).msg)
      BY <2>2 DEF Evolves
    <3>2. OpOK(o, cache[o.dev], box[AccountOf[o.dev]], clock) /\ box[a] \in Seq(Message)
      BY TypedFacts
    <3>3. o.plan # <<>>
      BY <3>1, <3>2 DEF OpOK, Asking
    <3>4. Step(o).msg \in Message /\ o.step \in 1..Len(o.plan)
      BY <3>1, <3>2, <3>3, StepTyped DEF StoreFor
    <3>5. m = Step(o).msg
      BY <2>2, <3>1, <3>2, <3>4, RangeAppend
    <3>6. Sends(o, o.step, a, m)
      <4>1. o.step \in Nat
        BY OpPlan
      <4>2. o.plan[o.step].do = "store" /\ o.plan[o.step].to = a /\ o.plan[o.step].msg = m
        BY <3>1, <3>5 DEF Step
      <4> QED
        BY <3>4, <4>1, <4>2 DEF Sends
    <3> QED
      BY <3>6
  <2> QED
    BY <2>1, <2>2
<1>2. PICK o \in ops : \E k : Sends(o, k, a, m)
  BY <1>1
<1>3. PICK k : Sends(o, k, a, m)
  BY <1>2
<1>4. PICK p \in ops' : Succeeds(o, p)
  BY DEF Evolves
<1>5. o.plan # <<>> /\ o.step \in Nat /\ Len(o.plan) \in Nat
  BY <1>3, OpPlan DEF Sends
<1>6. p.plan = o.plan /\ o.step <= p.step
  BY <1>4, <1>5, SucceedsSteps
<1>7. p.step \in Nat
  <2>1. p \in Op
    BY DEF Typed, StateTypes
  <2> QED
    BY <2>1, OpFields
<1>8. Sends(p, k, a, m)
  BY <1>3, <1>5, <1>6, <1>7 DEF Sends
<1> QED
  BY <1>8

LEMMA DoneKept ==
    ASSUME Typed, Typed', Evolves, StoredBefore
    PROVE  StoredBefore'
<1> SUFFICES ASSUME NEW p \in ops', NEW i, Behind(p, i)
             PROVE  p.plan[i].msg \in Range(box'[p.plan[i].to])
  BY DEF StoredBefore
<1>1. p \in Op
  BY DEF Typed, StateTypes
<1>2. p.step \in Nat /\ p.plan \in Seq(PlanStep) /\ i \in 1..Len(p.plan) /\ Len(p.plan) \in Nat
  BY <1>1, OpFields DEF Behind
<1>3. p.plan # <<>> /\ p.plan[i] \in PlanStep
  BY <1>2
<1>4. p.plan[i].to \in Account
  BY <1>3 DEF PlanStep
<1>5. ~Opens(p)
  BY <1>2, <1>3 DEF Opens, Behind
<1>6. PICK o \in ops : Succeeds(o, p)
  BY <1>5 DEF Evolves
<1>7. o.step \in Nat /\ Len(o.plan) \in Nat
  BY OpPlan
<1>8. p.plan = o.plan
  BY <1>2, <1>6 DEF Succeeds, Behind
<1>9. CASE Behind(o, i)
  <2>1. o.plan[i].msg \in Range(box[o.plan[i].to])
    BY <1>9 DEF StoredBefore
  <2> QED
    BY <1>4, <1>8, <2>1, BoxesGrow
<1>10. CASE ~Behind(o, i)
  <2>1. ~(i < o.step) /\ o.at # "resolved"
    BY <1>8, <1>10 DEF Behind
  <2>2. o.step \in 1..Len(o.plan)
    BY <1>3, <1>8, OpPlan
  <2>3. /\ o.at = "sent" /\ i = o.step
        /\ Step(o).do = "store" => Step(o).msg \in Range(box'[Step(o).to])
    BY <1>2, <1>6, <1>7, <1>8, <2>1, <2>2 DEF Succeeds, Behind
  <2> QED
    BY <1>8, <2>3 DEF Behind, Step
<1> QED
  BY <1>9, <1>10

LEMMA OrderImplied ==
    ASSUME Typed, Origin, StoredBefore
    PROVE  SentInOrder
<1> SUFFICES ASSUME NEW o \in ops, NEW i \in DOMAIN o.plan, o.plan[i].do = "store"
             PROVE  /\ Held(o.plan[i].to, o.plan[i].msg) => i <= o.step
                    /\ i < o.step \/ o.at = "resolved" => Held(o.plan[i].to, o.plan[i].msg)
  BY DEF SentInOrder
<1> DEFINE a == o.plan[i].to
           m == o.plan[i].msg
<1>1. i \in 1..Len(o.plan) /\ o.plan # <<>>
  BY OpPlan
<1>2. PlanFor(o.dev, o.id, o.kind, clock, o.plan)
  BY <1>1, OpPlan
<1>3. a \in Account /\ m.ts = o.id
  BY <1>1, <1>2 DEF PlanFor, StepFor, StoreFor, PlanStep
<1>4. ASSUME Held(a, m)
      PROVE  i <= o.step
  <2>1. m \in Range(box[a])
    BY <1>4 DEF Held, Range
  <2>2. PICK p \in ops : \E k : Sends(p, k, a, m)
    BY <1>3, <2>1 DEF Origin
  <2>3. PICK k : Sends(p, k, a, m)
    BY <2>2
  <2>4. p.plan # <<>>
    BY <2>3, OpPlan DEF Sends
  <2>5. PlanFor(p.dev, p.id, p.kind, clock, p.plan)
    BY <2>4, OpPlan
  <2>6. m.ts = p.id
    BY <2>3, <2>5 DEF Sends, PlanFor, StepFor, StoreFor
  <2>7. p = o
    BY <1>3, <2>6 DEF Typed
  <2>8. k = i
    BY <1>1, <1>2, <2>3, <2>7 DEF Sends, PlanFor
  <2> QED
    BY <2>3, <2>7, <2>8 DEF Sends
<1>5. ASSUME i < o.step \/ o.at = "resolved"
      PROVE  Held(a, m)
  <2>1. Behind(o, i)
    BY <1>1, <1>5 DEF Behind
  <2>2. m \in Range(box[a])
    BY <2>1 DEF StoredBefore
  <2> QED
    BY <2>2 DEF Held, Range
<1> QED
  BY <1>4, <1>5

LEMMA InitOrdered == Init => Origin /\ StoredBefore
<1> SUFFICES ASSUME Init PROVE Origin /\ StoredBefore
  OBVIOUS
<1>1. ops = {} /\ \A a \in Account : box[a] = <<>>
  BY DEF Init
<1> QED
  BY <1>1, NothingGot DEF Origin, StoredBefore

\* What is stored comes from operations, and what they have behind them is stored.
LEMMA OrderedAlways == Spec => [](Typed /\ Origin /\ StoredBefore)
<1>1. Init => Typed /\ Origin /\ StoredBefore
  BY InitTyped, InitOrdered
<1>2. Typed /\ Origin /\ StoredBefore /\ [Next]_vars => (Typed /\ Origin /\ StoredBefore)'
  BY NextTyped, NextEvolves, OriginKept, DoneKept
<1> QED
  BY <1>1, <1>2, PTL DEF Spec

\* The messages of an operation are stored in the order of its plan, and all of them once
\* its promise resolves, whatever it asks again, loses the answer of, or is told to ask
\* elsewhere: a message may lack its sync copies, and no sync copy its message.
THEOREM SentInOrderAlways == Spec => []SentInOrder
<1>1. Typed /\ Origin /\ StoredBefore => SentInOrder
  BY OrderImplied
<1> QED
  BY <1>1, OrderedAlways, PTL
----------------------------------------------------------------------------
(* Whom an operation asks again.                                           *)

\* Our swarm is of the last fetch.
Latest(c) == c.fetches >= 1 => \A r \in c.ourSwarms : r.fetch = c.fetches

\* Whoever answered 421 is off the list, which is of one fetch; as an object it is off that of
\* our swarm, the only list after it.
Theirs(o)  == \A r \in o.list : r.fetch = 0 /\ \A m \in o.misdirected : r.node # m.node
Ours(o, c) ==
    /\ c.fetches >= 1
    /\ \A r, s \in o.list : r = s /\ r.fetch <= c.fetches
    /\ \A m \in o.misdirected : m.fetch <= c.fetches /\ m \notin c.ourSwarms
    /\ o.misdirected # {} => o.list = {}
Lists(o, c) == (Own(o) => Ours(o, c)) /\ (~Own(o) => Theirs(o))

Later(r, o) == \A m \in o.misdirected : m.node = r.node => r.fetch > m.fetch
Asked(o, c) ==
    /\ Own(o) => Later(o.target, o) /\ o.target.fetch <= c.fetches /\ \A r \in o.list : r = o.target
    /\ ~Own(o) => o.target \in o.list

Avoids(o, c) ==
    /\ o.at \notin {"ask", "sent"} => o.misdirected = {}
    /\ o.at \in {"ask", "sent"} => Lists(o, c)
    /\ o.at = "sent" => Asked(o, c)

Avoided == /\ \A o \in ops : Avoids(o, cache[o.dev])
           /\ \A d \in Device : Latest(cache[d])

\* The list of our swarm is fetched again, or loses nodes.
Fewer(c, e) == /\ c.fetches <= e.fetches
               /\ e.fetches = c.fetches => \A r \in e.ourSwarms : r \in c.ourSwarms
               /\ Latest(e)

\* o becomes p, with e for its cache.
Heeds(o, p, e) == /\ Becomes(o, p) /\ p.dev = o.dev /\ Avoids(p, e)
                  /\ Caches(o, e) /\ Fewer(cache[o.dev], e)

LEMMA AvoidedBefore ==
    ASSUME Typed, Avoided, NEW o \in ops
    PROVE  /\ Avoids(o, cache[o.dev]) /\ o \in Op /\ CacheOK(cache[o.dev], clock)
           /\ cache[o.dev].fetches \in Nat /\ Fewer(cache[o.dev], cache[o.dev])
           /\ OpOK(o, cache[o.dev], box[AccountOf[o.dev]], clock)
           /\ cache' = cache => Caches(o, cache[o.dev])
<1>1. CacheOK(cache[o.dev], clock) /\ cache \in [Device -> Cache] /\ o.dev \in Device
  BY TypedFacts
<1>2. cache[o.dev].fetches \in Nat
  BY <1>1 DEF CacheOK, Cache
<1>3. cache' = cache => Caches(o, cache[o.dev])
  BY <1>1 DEF Caches
<1> QED
  BY <1>1, <1>2, <1>3, TypedFacts DEF Avoided, Fewer

LEMMA SwarmsSame ==
    ASSUME NEW c, NEW e, Fewer(c, c), e.fetches = c.fetches, e.ourSwarms = c.ourSwarms
    PROVE  Fewer(c, e)
  BY DEF Fewer, Latest

LEMMA RefsDiffer ==
    ASSUME NEW r \in Ref, NEW s \in Ref, r # s, r.fetch = s.fetch
    PROVE  r.node # s.node
  BY DEF Ref

LEMMA OwnSame ==
    ASSUME NEW o, NEW p, Same(o, p), p.step = o.step
    PROVE  Own(p) = Own(o)
  BY DEF Same, Own, Step

LEMMA RejectedAvoids ==
    ASSUME NEW o \in Op, NEW c
    PROVE  Avoids(Rejected(o), c) /\ Rejected(o).dev = o.dev
<1> DEFINE p == Rejected(o)
<1>1. p.misdirected = {} /\ p.at = "rejected" /\ p.dev = o.dev
  BY RejectedOp DEF Blank, Same
<1> HIDE DEF p
<1>2. Avoids(p, c)
  BY <1>1 DEF Avoids
<1> QED
  BY <1>1, <1>2 DEF p

LEMMA AgainAvoids ==
    ASSUME NEW q \in Op, NEW c, Lists(q, c)
    PROVE  Avoids(Again(q, "ask"), c) /\ Again(q, "ask").dev = q.dev
<1> DEFINE p == Again(q, "ask")
<1>1. "ask" \in At
  BY DEF At, Asking
<1>2. /\ Same(q, p) /\ p.step = q.step
      /\ p = Rejected(q) \/ (p.at = "ask" /\ p.list = q.list /\ p.misdirected = q.misdirected)
  BY <1>1, AgainOp
<1>3. CASE p = Rejected(q)
  BY <1>3, RejectedAvoids
<1>4. CASE p # Rejected(q)
  <2> HIDE DEF p
  <2>1. Own(p) = Own(q) /\ p.dev = q.dev
    BY <1>2, OwnSame DEF Same
  <2>2. Lists(p, c)
    BY <1>2, <1>4, <2>1 DEF Lists, Ours, Theirs
  <2>3. Avoids(p, c)
    BY <1>2, <1>4, <2>2 DEF Avoids
  <2> QED
    BY <2>1, <2>3 DEF p
<1> QED
  BY <1>3, <1>4

LEMMA LocateHeeds ==
    ASSUME Typed, Avoided, NEW o \in ops, Locate(o)
    PROVE  \E p, e : Heeds(o, p, e)
<1> DEFINE c == cache[o.dev]
<1>1. /\ Avoids(o, c) /\ o \in Op /\ CacheOK(c, clock) /\ c.fetches \in Nat /\ Fewer(c, c)
      /\ Caches(o, c)
  BY AvoidedBefore DEF Locate
<1>2. o.at = "locate" /\ o.misdirected = {}
  BY <1>1 DEF Locate, Avoids
<1> HIDE DEF c
<1>3. CASE Own(o) /\ c.ourSwarm # Undefined
  <2> DEFINE p == [o EXCEPT !.at = "ask", !.list = {c.ourSwarm}]
  <2>1. c.ourSwarm \in [node : Node, fetch : 1..c.fetches] /\ HasSwarms(c)
    BY <1>1, <1>3 DEF CacheOK
  <2>2. Becomes(o, p)
    BY <1>3 DEF Locate, c
  <2>3. p.at = "ask" /\ p.list = {c.ourSwarm} /\ p.misdirected = {} /\ p.step = o.step
    BY <1>1, <1>2 DEF Op
  <2>4. Same(o, p)
    BY <1>1 DEF Op, Same
  <2> HIDE DEF p
  <2>5. Own(p) /\ p.dev = o.dev
    BY <1>3, <2>3, <2>4, OwnSame DEF Same
  <2>6. Ours(p, c)
    BY <1>1, <2>1, <2>3 DEF Ours
  <2>7. Avoids(p, c)
    BY <2>3, <2>5, <2>6 DEF Avoids, Lists
  <2> QED
    BY <1>1, <2>2, <2>5, <2>7 DEF Heeds, c
<1>4. CASE ~(Own(o) /\ c.ourSwarm # Undefined)
  <2> DEFINE P == {[o EXCEPT !.at = "swarms", !.nodes = c.snodes], [o EXCEPT !.at = "snodes"]}
  <2>1. PICK p \in P : Becomes(o, p)
    BY <1>4 DEF Locate, c
  <2>2. p.misdirected = {} /\ p.dev = o.dev /\ p.at \in {"swarms", "snodes"}
    BY <1>1, <1>2 DEF Op
  <2>3. Avoids(p, c)
    BY <2>2 DEF Avoids
  <2> QED
    BY <1>1, <2>1, <2>2, <2>3 DEF Heeds, c
<1> QED
  BY <1>3, <1>4

LEMMA GetSnodesHeeds ==
    ASSUME Typed, Avoided, NEW o \in ops, GetSnodes(o)
    PROVE  \E p, e : Heeds(o, p, e)
<1> DEFINE c == cache[o.dev]
<1>1. /\ Avoids(o, c) /\ o \in Op /\ CacheOK(c, clock) /\ c.fetches \in Nat /\ Fewer(c, c)
      /\ cache' = cache => Caches(o, c)
  BY AvoidedBefore
<1>2. o.at = "snodes" /\ o.misdirected = {} /\ c \in Cache
  BY <1>1 DEF GetSnodes, Avoids, CacheOK
<1> HIDE DEF c
<1>3. CASE /\ Becomes(o, [o EXCEPT !.at = "swarms", !.nodes = Snodes(o)])
           /\ Caches(o, [c EXCEPT !.snodes = Snodes(o)])
  <2> DEFINE p == [o EXCEPT !.at = "swarms", !.nodes = Snodes(o)]
             e == [c EXCEPT !.snodes = Snodes(o)]
  <2>1. p.misdirected = {} /\ p.dev = o.dev /\ p.at = "swarms"
    BY <1>1, <1>2 DEF Op
  <2>2. e.fetches = c.fetches /\ e.ourSwarms = c.ourSwarms
    BY <1>2 DEF Cache
  <2>3. Becomes(o, p) /\ Caches(o, e)
    BY <1>3
  <2> HIDE DEF p, e
  <2>4. Avoids(p, e) /\ Fewer(c, e)
    BY <1>1, <2>1, <2>2, SwarmsSame DEF Avoids
  <2> QED
    BY <2>1, <2>3, <2>4 DEF Heeds, c
<1>4. CASE Becomes(o, Rejected(o)) /\ UNCHANGED cache
  BY <1>1, <1>4, RejectedAvoids DEF Heeds, c
<1> QED
  BY <1>3, <1>4 DEF GetSnodes, c

LEMMA GetSwarmsHeeds ==
    ASSUME Typed, Avoided, NEW o \in ops, GetSwarms(o)
    PROVE  \E p, e : Heeds(o, p, e)
<1> DEFINE c == cache[o.dev]
           Refs(fetch) == {[node |-> n, fetch |-> fetch] : n \in members[Step(o).to]}
<1>1. /\ Avoids(o, c) /\ o \in Op /\ CacheOK(c, clock) /\ c.fetches \in Nat /\ Fewer(c, c)
      /\ cache' = cache => Caches(o, c)
      /\ OpOK(o, c, box[AccountOf[o.dev]], clock)
  BY AvoidedBefore
<1>2. o.at = "swarms" /\ o.misdirected = {} /\ c \in Cache
  BY <1>1 DEF GetSwarms, Avoids, CacheOK
<1>3. Step(o).to \in Account /\ members[Step(o).to] \subseteq Node
  <2>1. o.plan # <<>>
    BY <1>1, <1>2 DEF OpOK, Asking
  <2> QED
    BY <1>1, <2>1, StepTyped, TypedFacts
<1>4. ASSUME NEW f \in Nat
      PROVE  Refs(f) \in SUBSET Ref /\ \A r \in Refs(f) : r \in Ref /\ r.fetch = f
  BY <1>3 DEF Ref
<1> HIDE DEF c
<1>5. CASE Own(o) /\ \E r \in Refs(c.fetches + 1) :
                        /\ Caches(o, [c EXCEPT !.ourSwarms = Refs(c.fetches + 1),
                                               !.ourSwarm = r, !.fetches = c.fetches + 1])
                        /\ Becomes(o, AskingFor(o, {r}))
  <2> DEFINE f == c.fetches + 1
             rs == Refs(c.fetches + 1)
  <2>1. PICK r \in rs : /\ Caches(o, [c EXCEPT !.ourSwarms = rs, !.ourSwarm = r, !.fetches = f])
                        /\ Becomes(o, AskingFor(o, {r}))
    BY <1>5
  <2>2. f \in Nat /\ f > c.fetches /\ f >= 1
    BY <1>1
  <2>3. r \in Ref /\ r.fetch = f /\ \A s \in rs : s.fetch = f
    BY <1>4, <2>2
  <2> HIDE DEF rs
  <2> DEFINE e == [c EXCEPT !.ourSwarms = rs, !.ourSwarm = r, !.fetches = f]
             p == AskingFor(o, {r})
  <2>4. e.ourSwarms = rs /\ e.fetches = f
    BY <1>2 DEF Cache
  <2>5. Same(o, p) /\ p.at = "ask" /\ p.step = o.step /\ p.list = {r} /\ p.misdirected = {}
    BY <1>1, <2>3, AskingOp
  <2>6. Becomes(o, p) /\ Caches(o, e)
    BY <2>1
  <2> HIDE DEF e, p, f
  <2>7. Own(p) /\ p.dev = o.dev
    BY <1>5, <2>5, OwnSame DEF Same
  <2>8. Ours(p, e) /\ Fewer(c, e)
    BY <1>1, <2>2, <2>3, <2>4, <2>5 DEF Ours, Fewer, Latest
  <2>9. Avoids(p, e)
    BY <2>5, <2>7, <2>8 DEF Avoids, Lists
  <2> QED
    BY <2>6, <2>7, <2>8, <2>9 DEF Heeds, c
<1>6. CASE ~Own(o) /\ Becomes(o, AskingFor(o, Refs(0))) /\ UNCHANGED cache
  <2> DEFINE p == AskingFor(o, Refs(0))
  <2>1. Refs(0) \in SUBSET Ref /\ \A r \in Refs(0) : r.fetch = 0
    BY <1>4
  <2>2. Same(o, p) /\ p.at = "ask" /\ p.step = o.step /\ p.list = Refs(0) /\ p.misdirected = {}
    BY <1>1, <2>1, AskingOp
  <2>3. Becomes(o, p) /\ UNCHANGED cache
    BY <1>6
  <2> HIDE DEF p
  <2>4. ~Own(p) /\ p.dev = o.dev
    BY <1>6, <2>2, OwnSame DEF Same
  <2>5. Theirs(p)
    BY <2>1, <2>2 DEF Theirs
  <2>6. Avoids(p, c)
    BY <2>2, <2>4, <2>5 DEF Avoids, Lists
  <2> QED
    BY <1>1, <2>3, <2>4, <2>6 DEF Heeds, c
<1>7. CASE /\ \E r \in o.nodes : Caches(o, [c EXCEPT !.snodes = Without(c.snodes, r)])
           /\ Becomes(o, Again(o, "swarms"))
  <2>1. PICK r \in o.nodes : Caches(o, [c EXCEPT !.snodes = Without(c.snodes, r)])
    BY <1>7
  <2> DEFINE e == [c EXCEPT !.snodes = Without(c.snodes, r)]
             p == Again(o, "swarms")
  <2>2. e.fetches = c.fetches /\ e.ourSwarms = c.ourSwarms
    BY <1>2 DEF Cache
  <2>3. Caches(o, e) /\ Becomes(o, p)
    BY <1>7, <2>1
  <2>4. "swarms" \in At
    BY DEF At, Asking
  <2>5. Avoids(p, e) /\ p.dev = o.dev
    <3>1. CASE p = Rejected(o)
      BY <1>1, <3>1, RejectedAvoids
    <3>2. CASE p # Rejected(o)
      <4>1. p.at = "swarms" /\ p.misdirected = {} /\ p.dev = o.dev
        BY <1>1, <1>2, <2>4, <3>2, AgainOp DEF Same
      <4> HIDE DEF p, e
      <4> QED
        BY <4>1 DEF Avoids
    <3> QED
      BY <3>1, <3>2
  <2> HIDE DEF e, p
  <2>6. Fewer(c, e)
    BY <1>1, <2>2, SwarmsSame
  <2> QED
    BY <2>3, <2>5, <2>6 DEF Heeds, c
<1>8. CASE Becomes(o, Rejected(o)) /\ UNCHANGED cache
  BY <1>1, <1>8, RejectedAvoids DEF Heeds, c
<1> QED
  BY <1>5, <1>6, <1>7, <1>8 DEF GetSwarms, c, AskingFor
LEMMA AskHeeds ==
    ASSUME Typed, Avoided, NEW o \in ops, Ask(o)
    PROVE  \E p, e : Heeds(o, p, e)
<1> DEFINE c == cache[o.dev]
           ours == Own(o) /\ o.list = {}
           from == IF ours THEN c.ourSwarms ELSE o.list
<1>1. /\ Avoids(o, c) /\ o \in Op /\ CacheOK(c, clock) /\ c.fetches \in Nat /\ Fewer(c, c)
      /\ OpOK(o, c, box[AccountOf[o.dev]], clock)
  BY AvoidedBefore
<1>2. /\ o.at = "ask" /\ Lists(o, c) /\ c \in Cache /\ (Own(o) => HasSwarms(c))
  BY <1>1 DEF Ask, Avoids, CacheOK, OpOK
<1>3. from \in SUBSET Ref /\ o.misdirected \in SUBSET Ref
  BY <1>1, <1>2, OpFields DEF HasSwarms, Ref
<1>4. ASSUME NEW r \in from
      PROVE  /\ Own(o) => Later(r, o) /\ r.fetch <= c.fetches /\ \A x \in o.list : x = r
             /\ ~Own(o) => r \in o.list
  <2>1. CASE ours
    <3>1. r \in c.ourSwarms /\ r.fetch = c.fetches
      BY <1>1, <1>2, <2>1 DEF Lists, Ours, Fewer, Latest
    <3>2. ASSUME NEW m \in o.misdirected, m.node = r.node
          PROVE  r.fetch > m.fetch
      <4>1. m.fetch <= c.fetches /\ m # r /\ m \in Ref /\ r \in Ref
        BY <1>2, <1>3, <2>1, <3>1 DEF Lists, Ours
      <4>2. m.fetch # r.fetch /\ m.fetch \in Nat
        BY <3>2, <4>1, RefsDiffer DEF Ref
      <4> QED
        BY <1>1, <3>1, <4>1, <4>2
    <3> QED
      BY <1>1, <2>1, <3>1, <3>2 DEF Later
  <2>2. CASE ~ours /\ Own(o)
    <3>1. r \in o.list
      BY <2>2
    <3> QED
      BY <1>2, <2>2, <3>1 DEF Lists, Ours, Later
  <2>3. CASE ~Own(o)
    BY <2>3
  <2> QED
    BY <2>1, <2>2, <2>3
<1> HIDE DEF c, from
<1>5. CASE \E r \in from : /\ Becomes(o, [o EXCEPT !.at = "sent", !.target = r])
                           /\ Caches(o, IF ours THEN [c EXCEPT !.ourSwarm = r] ELSE c)
  <2>1. PICK r \in from : /\ Becomes(o, [o EXCEPT !.at = "sent", !.target = r])
                          /\ Caches(o, IF ours THEN [c EXCEPT !.ourSwarm = r] ELSE c)
    BY <1>5
  <2> DEFINE p == [o EXCEPT !.at = "sent", !.target = r]
             e == IF ours THEN [c EXCEPT !.ourSwarm = r] ELSE c
  <2>2. /\ p.at = "sent" /\ p.target = r /\ p.list = o.list /\ p.misdirected = o.misdirected
        /\ p.step = o.step
    BY <1>1 DEF Op
  <2>3. Same(o, p)
    BY <1>1 DEF Op, Same
  <2>4. e.fetches = c.fetches /\ e.ourSwarms = c.ourSwarms
    BY <1>2 DEF Cache
  <2>5. Becomes(o, p) /\ Caches(o, e)
    BY <2>1
  <2> HIDE DEF p, e
  <2>6. Own(p) = Own(o) /\ p.dev = o.dev
    BY <2>2, <2>3, OwnSame DEF Same
  <2>7. Lists(p, e)
    BY <1>2, <2>2, <2>4, <2>6 DEF Lists, Ours, Theirs
  <2>8. Asked(p, e)
    BY <1>4, <2>2, <2>4, <2>6 DEF Asked, Later
  <2>9. Avoids(p, e)
    BY <2>2, <2>7, <2>8 DEF Avoids
  <2>10. Fewer(c, e)
    BY <1>1, <2>4, SwarmsSame
  <2> QED
    BY <2>5, <2>6, <2>9, <2>10 DEF Heeds, c
<1>6. CASE /\ Becomes(o, Rejected(o))
           /\ Caches(o, IF ours THEN [c EXCEPT !.ourSwarm = Undefined] ELSE c)
  <2> DEFINE e == IF ours THEN [c EXCEPT !.ourSwarm = Undefined] ELSE c
  <2>1. e.fetches = c.fetches /\ e.ourSwarms = c.ourSwarms
    BY <1>2 DEF Cache
  <2>2. Caches(o, e)
    BY <1>6
  <2> HIDE DEF e
  <2>3. Fewer(c, e)
    BY <1>1, <2>1, SwarmsSame
  <2> QED
    BY <1>1, <1>6, <2>2, <2>3, RejectedAvoids DEF Heeds, c
<1> QED
  BY <1>5, <1>6 DEF Ask, c, from

LEMMA AnswersHeeds ==
    ASSUME Typed, Avoided, NEW o \in ops, Answers(o)
    PROVE  \E p, e : Heeds(o, p, e)
<1> DEFINE c == cache[o.dev]
<1>1. /\ o \in Op /\ Fewer(c, c) /\ Caches(o, c)
  BY AvoidedBefore DEF Answers
<1> HIDE DEF c
<1>2. CASE Becomes(o, Advanced(o))
  <2> DEFINE p == Advanced(o)
  <2>1. p.misdirected = {} /\ p.dev = o.dev /\ p.at \in {"resolved", "locate"}
    BY <1>1, AdvancedOp DEF Same, Blank
  <2> HIDE DEF p
  <2>2. Avoids(p, c)
    BY <2>1 DEF Avoids
  <2> QED
    BY <1>1, <1>2, <2>1, <2>2 DEF Heeds, c, p
<1>3. CASE Becomes(o, [Cleared(o, "received") EXCEPT !.got = Kept(Step(o).to)])
  <2> DEFINE q == Cleared(o, "received")
             p == [q EXCEPT !.got = Kept(Step(o).to)]
  <2>1. q \in Op /\ q.misdirected = {} /\ q.dev = o.dev /\ q.at = "received"
    BY <1>1, ClearedOp DEF At, Same, Blank
  <2>2. Becomes(o, p)
    BY <1>3
  <2> HIDE DEF q
  <2>3. p.misdirected = {} /\ p.dev = o.dev /\ p.at = "received"
    BY <2>1 DEF Op
  <2> HIDE DEF p
  <2>4. Avoids(p, c)
    BY <2>3 DEF Avoids
  <2> QED
    BY <1>1, <2>2, <2>3, <2>4 DEF Heeds, c
<1> QED
  BY <1>2, <1>3 DEF Answers

LEMMA MissesHeeds ==
    ASSUME Typed, Avoided, NEW o \in ops, Misses(o)
    PROVE  \E p, e : Heeds(o, p, e)
<1> DEFINE c == cache[o.dev]
<1>1. /\ Avoids(o, c) /\ o \in Op /\ CacheOK(c, clock) /\ c.fetches \in Nat /\ Fewer(c, c)
      /\ OpOK(o, c, box[AccountOf[o.dev]], clock)
      /\ cache' = cache => Caches(o, c)
  BY AvoidedBefore
<1>2. /\ o.at = "sent" /\ Lists(o, c) /\ Asked(o, c) /\ c \in Cache /\ o.target # Undefined
      /\ Own(o) => HasSwarms(c)
  BY <1>1 DEF Misses, Avoids, CacheOK, OpOK
<1>3. o.target \in Ref /\ o.target.node \in Node /\ o.list \in SUBSET Ref /\ o.misdirected \in SUBSET Ref
  BY <1>1, <1>2, OpFields DEF Ref
<1>4. Own(o) => \A r \in c.ourSwarms : r \in Ref
  BY <1>2 DEF HasSwarms, Ref
<1> HIDE DEF c
<1>5. CASE Becomes(o, Rejected(o)) /\ UNCHANGED cache
  BY <1>1, <1>5, RejectedAvoids DEF Heeds, c
<1>6. CASE /\ Becomes(o, Misdirected(o, c))
           /\ Caches(o, IF c.ourSwarms = Undefined THEN c
                        ELSE [c EXCEPT !.ourSwarms = Without(c.ourSwarms, o.target)])
  <2>1. CASE c.ourSwarms = Undefined
    <3>1. Becomes(o, Rejected(o)) /\ Caches(o, c)
      BY <1>6, <2>1 DEF Misdirected
    <3> QED
      BY <1>1, <3>1, RejectedAvoids DEF Heeds, c
  <2>2. CASE c.ourSwarms # Undefined
    <3> DEFINE left == Without(c.ourSwarms, o.target)
               few == Without(o.list, o.target)
               out == o.misdirected \cup {o.target}
               e == [c EXCEPT !.ourSwarms = left]
               q == [o EXCEPT !.list = few, !.misdirected = out]
               p == Again(q, "ask")
    <3>1. Becomes(o, p) /\ Caches(o, e)
      BY <1>6, <2>2 DEF Misdirected
    <3>2. few \in SUBSET Ref /\ out \in SUBSET Ref
      BY <1>3 DEF Without
    <3>3. \A r \in few : r \in o.list /\ r # o.target
      BY DEF Without
    <3>4. \A r \in left : r \in c.ourSwarms /\ r # o.target
      BY DEF Without
    <3> HIDE DEF few, left
    <3>5. q \in Op /\ q.list = few /\ q.misdirected = out /\ q.step = o.step
      BY <1>1, <3>2 DEF Op
    <3>6. Same(o, q)
      BY <1>1 DEF Op, Same
    <3>7. e.fetches = c.fetches /\ e.ourSwarms = left
      BY <1>2 DEF Cache
    <3> HIDE DEF e, q
    <3>8. Own(q) = Own(o) /\ q.dev = o.dev
      BY <3>5, <3>6, OwnSame DEF Same
    <3>11. Fewer(c, e)
      BY <1>1, <3>4, <3>7 DEF Fewer, Latest
    <3>9. CASE Own(o)
      <4>1. Ours(o, c) /\ o.target.fetch <= c.fetches /\ \A r \in o.list : r = o.target
        BY <1>2, <3>9 DEF Lists, Asked
      <4>2. few = {}
        BY <3>3, <4>1
      <4>3. \A m \in out : m.fetch <= c.fetches /\ m \notin left
        BY <3>4, <4>1 DEF Ours
      <4>4. Ours(q, e)
        BY <3>5, <3>7, <4>1, <4>2, <4>3 DEF Ours
      <4>5. Lists(q, e)
        BY <3>8, <3>9, <4>4 DEF Lists
      <4> QED
        BY <3>1, <3>5, <3>8, <3>11, <4>5, AgainAvoids DEF Heeds, c
    <3>10. CASE ~Own(o)
      <4>1. \A r \in o.list : r.fetch = 0 /\ \A m \in o.misdirected : r.node # m.node
        BY <1>2, <3>10 DEF Lists, Theirs
      <4>2. o.target.fetch = 0
        BY <1>2, <3>10, <4>1 DEF Asked
      <4>3. \A r \in few : r.fetch = 0 /\ \A m \in out : r.node # m.node
        BY <1>3, <3>3, <4>1, <4>2, RefsDiffer
      <4>4. Lists(q, e)
        BY <3>5, <3>8, <3>10, <4>3 DEF Lists, Theirs
      <4> QED
        BY <3>1, <3>5, <3>8, <3>11, <4>4, AgainAvoids DEF Heeds, c
    <3> QED
      BY <3>9, <3>10
  <2> QED
    BY <2>1, <2>2
<1> QED
  BY <1>5, <1>6 DEF Misses, c

LEMMA LosesAnswerHeeds ==
    ASSUME Typed, Avoided, NEW o \in ops, LosesAnswer(o)
    PROVE  \E p, e : Heeds(o, p, e)
<1> DEFINE c == cache[o.dev]
<1>1. /\ Avoids(o, c) /\ o \in Op /\ CacheOK(c, clock) /\ c.fetches \in Nat /\ Fewer(c, c)
      /\ OpOK(o, c, box[AccountOf[o.dev]], clock)
      /\ cache' = cache => Caches(o, c)
  BY AvoidedBefore
<1>2. /\ o.at = "sent" /\ Lists(o, c) /\ c \in Cache /\ o.plan # <<>>
      /\ Own(o) => HasSwarms(c)
  BY <1>1 DEF LosesAnswer, Avoids, CacheOK, OpOK, Asking
<1>3. /\ Step(o).do \in {"store", "delete", "poll"}
      /\ Step(o).do # "store" => Own(o)
  BY <1>1, <1>2, StepTyped
<1> HIDE DEF c
<1>4. CASE Step(o).do = "store"
  <2>1. Becomes(o, Again(o, "ask")) /\ UNCHANGED cache
    BY <1>4 DEF LosesAnswer
  <2> QED
    BY <1>1, <1>2, <2>1, AgainAvoids DEF Heeds, c
<1>5. CASE Step(o).do = "delete"
  <2>1. Becomes(o, Rejected(o)) /\ UNCHANGED cache
    BY <1>5 DEF LosesAnswer
  <2> QED
    BY <1>1, <2>1, RejectedAvoids DEF Heeds, c
<1>6. CASE Step(o).do = "poll"
  <2> DEFINE left == Without(c.ourSwarms, o.target)
  <2>1. /\ \A r \in left : r \in c.ourSwarms /\ r \in Ref
        /\ HasSwarms(c) /\ Own(o) /\ Ours(o, c)
    BY <1>2, <1>3, <1>6 DEF Without, HasSwarms, Ref, Lists
  <2>2. CASE \E r \in left : /\ Becomes(o, AskingFor(o, {r}))
                             /\ Caches(o, [c EXCEPT !.ourSwarms = left, !.ourSwarm = r])
    <3>1. PICK r \in left : /\ Becomes(o, AskingFor(o, {r}))
                            /\ Caches(o, [c EXCEPT !.ourSwarms = left, !.ourSwarm = r])
      BY <2>2
    <3> DEFINE e == [c EXCEPT !.ourSwarms = left, !.ourSwarm = r]
               p == AskingFor(o, {r})
    <3> HIDE DEF left
    <3>2. e.fetches = c.fetches /\ e.ourSwarms = left
      BY <1>2 DEF Cache
    <3>3. Same(o, p) /\ p.at = "ask" /\ p.step = o.step /\ p.list = {r} /\ p.misdirected = {}
      BY <1>1, <2>1, <3>1, AskingOp
    <3>4. Becomes(o, p) /\ Caches(o, e)
      BY <3>1
    <3> HIDE DEF e, p
    <3>5. Own(p) /\ p.dev = o.dev
      BY <2>1, <3>3, OwnSame DEF Same
    <3>6. Ours(p, e)
      <4>1. c.fetches >= 1 /\ r.fetch = c.fetches
        BY <1>1, <2>1, <3>1 DEF Ours, Fewer, Latest
      <4> QED
        BY <1>1, <3>2, <3>3, <4>1 DEF Ours
    <3>7. Avoids(p, e) /\ Fewer(c, e)
      BY <1>1, <2>1, <3>2, <3>3, <3>5, <3>6 DEF Avoids, Lists, Fewer, Latest
    <3> QED
      BY <3>4, <3>5, <3>7 DEF Heeds, c
  <2>3. CASE /\ Becomes(o, Rejected(o))
             /\ Caches(o, [c EXCEPT !.ourSwarms = {}, !.ourSwarm = Undefined])
    <3> DEFINE e == [c EXCEPT !.ourSwarms = {}, !.ourSwarm = Undefined]
    <3>1. e.fetches = c.fetches /\ e.ourSwarms = {}
      BY <1>2 DEF Cache
    <3>2. Caches(o, e)
      BY <2>3
    <3> HIDE DEF e
    <3>3. Fewer(c, e)
      BY <1>1, <3>1 DEF Fewer, Latest
    <3> QED
      BY <1>1, <2>3, <3>2, <3>3, RejectedAvoids DEF Heeds, c
  <2> QED
    BY <1>6, <2>2, <2>3 DEF LosesAnswer, AskingFor, c
<1> QED
  BY <1>3, <1>4, <1>5, <1>6

LEMMA RequestHeeds ==
    ASSUME Typed, Avoided, NEW o \in ops, Request(o)
    PROVE  \E p, e : Heeds(o, p, e)
<1>1. CASE AnswersInvalid(o)
  <2>1. Becomes(o, Rejected(o)) /\ UNCHANGED cache
    BY <1>1 DEF AnswersInvalid
  <2> QED
    BY <2>1, AvoidedBefore, RejectedAvoids DEF Heeds
<1> QED
  BY <1>1, LocateHeeds, GetSnodesHeeds, GetSwarmsHeeds, AskHeeds, AnswersHeeds, MissesHeeds,
     LosesAnswerHeeds DEF Request

\* The other operations of a Session, when its list of our swarm changes.
LEMMA OthersAvoid ==
    ASSUME NEW q \in Op, NEW c, NEW e, Avoids(q, c), Fewer(c, e), c.fetches \in Nat, e.fetches \in Nat,
           q.at = "sent" => q.target # Undefined
    PROVE  Avoids(q, e)
<1>1. /\ \A r \in q.list : r.fetch \in Nat
      /\ \A m \in q.misdirected : m.fetch \in Nat
      /\ q.target # Undefined => q.target.fetch \in Nat
  BY OpFields DEF Ref
<1>2. c.fetches <= e.fetches
  BY DEF Fewer
<1>3. ASSUME Ours(q, c)
      PROVE  Ours(q, e)
  <2>1. ASSUME NEW m \in q.misdirected
        PROVE  m.fetch <= e.fetches /\ m \notin e.ourSwarms
    <3>1. m.fetch <= c.fetches /\ m \notin c.ourSwarms
      BY <1>3, <2>1 DEF Ours
    <3>2. CASE e.fetches = c.fetches
      BY <1>1, <3>1, <3>2 DEF Fewer
    <3>3. CASE e.fetches # c.fetches
      <4>1. e.fetches >= 1 /\ m.fetch < e.fetches
        BY <1>1, <1>2, <3>1, <3>3
      <4> QED
        BY <1>1, <4>1 DEF Fewer, Latest
    <3> QED
      BY <3>2, <3>3
  <2>2. \A r \in q.list : r.fetch <= e.fetches
    BY <1>1, <1>2, <1>3 DEF Ours
  <2>3. e.fetches >= 1
    BY <1>2, <1>3 DEF Ours
  <2> QED
    BY <1>3, <2>1, <2>2, <2>3 DEF Ours
<1>4. Lists(q, c) => Lists(q, e)
  BY <1>3 DEF Lists
<1>5. ASSUME Asked(q, c), q.at = "sent", Own(q)
      PROVE  q.target.fetch <= e.fetches
  BY <1>1, <1>2, <1>5 DEF Asked
<1>6. q.at = "sent" => Asked(q, e)
  BY <1>5 DEF Asked, Avoids
<1> QED
  BY <1>4, <1>6 DEF Avoids

LEMMA AvoidedByTurn ==
    ASSUME Typed, Typed', Avoided, NEW o \in ops, NEW p, NEW e, Heeds(o, p, e)
    PROVE  Avoided'
<1>1. ops' = (ops \ {o}) \cup {p} /\ p.dev = o.dev /\ Avoids(p, e) /\ Fewer(cache[o.dev], e)
  BY DEF Heeds, Becomes
<1>2. /\ cache \in [Device -> Cache] /\ cache' \in [Device -> Cache]
      /\ cache' = [cache EXCEPT ![o.dev] = e] /\ o.dev \in Device
  BY TypedFacts DEF Heeds, Caches, Typed, StateTypes
<1>3. cache'[o.dev] = e /\ \A d \in Device \ {o.dev} : cache'[d] = cache[d]
  BY <1>2
<1>4. Avoids(p, cache'[p.dev])
  BY <1>1, <1>3
<1>5. ASSUME NEW q \in ops
      PROVE  Avoids(q, cache'[q.dev])
  <2>1. q.dev \in Device /\ Avoids(q, cache[q.dev])
    BY TypedFacts DEF Avoided
  <2>2. CASE q.dev = o.dev
    <3>1. cache[q.dev].fetches \in Nat /\ e.fetches \in Nat
      BY <1>2, <1>3, <2>1 DEF Cache
    <3>2. q \in Op /\ (q.at = "sent" => q.target # Undefined)
      BY TypedFacts DEF OpOK
    <3> QED
      BY <1>1, <1>3, <2>1, <2>2, <3>1, <3>2, OthersAvoid
  <2>3. CASE q.dev # o.dev
    BY <1>3, <2>1, <2>3
  <2> QED
    BY <2>2, <2>3
<1>6. \A d \in Device : Latest(cache'[d])
  BY <1>1, <1>3 DEF Avoided, Fewer
<1> QED
  BY <1>1, <1>4, <1>5, <1>6 DEF Avoided

LEMMA AvoidedByStart ==
    ASSUME Avoided, NEW d, NEW kind, NEW plan, NEW at \in {"locate", "save", "upload"},
           Starts(d, kind, plan, at), UNCHANGED cache
    PROVE  Avoided'
<1> DEFINE n == NewOp(d, clock + 1, kind, plan)
           p == [n EXCEPT !.at = at]
<1>1. ops' = ops \cup {p}
  BY DEF Starts
<1>2. p.misdirected = {} /\ p.at = at
  BY DEF NewOp
<1> HIDE DEF p
<1>3. \A c : Avoids(p, c)
  BY <1>2 DEF Avoids
<1> QED
  BY <1>1, <1>3 DEF Avoided

LEMMA AvoidedByUser ==
    ASSUME Typed, Avoided, NEW d \in Device, User(d)
    PROVE  Avoided'
<1>1. CASE \E kind \in Both \cup Notices : Send(d, kind)
  BY <1>1, AvoidedByStart DEF Send
<1>2. CASE DeleteMessages(d)
  BY <1>2, AvoidedByStart DEF DeleteMessages
<1>3. CASE StartPoll(d)
  BY <1>3, AvoidedByStart DEF StartPoll
<1>4. CASE SetDisplayName(d)
  BY <1>4, AvoidedByStart DEF SetDisplayName
<1>5. CASE SetAvatar(d)
  BY <1>5, AvoidedByStart DEF SetAvatar
<1>6. CASE Restart(d)
  <2>1. PICK named \in BOOLEAN :
           /\ ops' = Survivors(d) \cup Begun(d, named)
           /\ cache' = [cache EXCEPT ![d] = NewCache]
    BY <1>6, Zenon DEF Restart, Survivors, Begun, Began, Renaming
  <2>2. cache \in [Device -> Cache] /\ clock \in Nat
    BY DEF Typed, StateTypes
  <2>3. ASSUME NEW q \in Begun(d, named)
        PROVE  Avoids(q, cache'[q.dev])
    <3>1. q.misdirected = {} /\ q.at \in {"resolved", "save"}
      BY <2>3, BegunTyped DEF Begun, Blank
    <3> QED
      BY <3>1 DEF Avoids
  <2>4. ASSUME NEW q \in Survivors(d)
        PROVE  Avoids(q, cache'[q.dev])
    <3>1. PICK o \in ops : q = IF o.dev = d /\ ~Ended(o) THEN Done(o, "lost") ELSE o
      BY DEF Survivors
    <3>2. o \in Op /\ o.dev \in Device /\ Avoids(o, cache[o.dev])
      BY TypedFacts DEF Avoided
    <3>3. CASE o.dev = d /\ ~Ended(o)
      <4>1. q.at = "lost" /\ q.misdirected = {}
        BY <2>2, <3>1, <3>2, <3>3, DoneOp DEF Blank, At
      <4> QED
        BY <4>1 DEF Avoids
    <3>4. CASE o.dev # d
      BY <2>1, <2>2, <3>1, <3>2, <3>4
    <3>5. CASE Ended(o)
      <4>1. q = o /\ o.at \notin {"ask", "sent"}
        BY <3>1, <3>5 DEF Ended
      <4> QED
        BY <3>2, <4>1 DEF Avoids
    <3> QED
      BY <3>3, <3>4, <3>5
  <2>5. \A x \in Device : Latest(cache'[x])
    <3>1. Latest(NewCache)
      BY DEF Latest, NewCache
    <3> QED
      BY <2>1, <2>2, <3>1 DEF Avoided
  <2> QED
    BY <2>1, <2>3, <2>4, <2>5 DEF Avoided
<1> QED
  BY <1>1, <1>2, <1>3, <1>4, <1>5, <1>6 DEF User

LEMMA AvoidedByContinuing ==
    ASSUME Typed, Typed', Avoided, NEW o \in ops, Continues(o)
    PROVE  Avoided'
<1>1. /\ o \in Op /\ Avoids(o, cache[o.dev]) /\ Fewer(cache[o.dev], cache[o.dev])
      /\ cache' = cache => Caches(o, cache[o.dev])
  BY AvoidedBefore
<1>2. ASSUME NEW p, Becomes(o, p), UNCHANGED cache, p.dev = o.dev, p.misdirected = {},
             p.at \notin {"ask", "sent"}
      PROVE  Avoided'
  <2>1. Avoids(p, cache[o.dev])
    BY <1>2 DEF Avoids
  <2>2. Heeds(o, p, cache[o.dev])
    BY <1>1, <1>2, <2>1 DEF Heeds
  <2> QED
    BY <2>2, AvoidedByTurn
<1>3. CASE Requests(o)
  BY <1>3, RequestHeeds, AvoidedByTurn DEF Requests
<1>4. CASE DisplayNameSaved(o)
  <2> DEFINE p == [o EXCEPT !.at = "locate", !.plan = ConfigPlan(o.dev, o.id)]
  <2>1. Becomes(o, p) /\ UNCHANGED cache /\ o.misdirected = {}
    BY <1>1, <1>4 DEF DisplayNameSaved, Avoids
  <2>2. p.dev = o.dev /\ p.misdirected = {} /\ p.at = "locate"
    BY <1>1, <2>1 DEF Op
  <2> HIDE DEF p
  <2> QED
    BY <1>2, <2>1, <2>2
<1>5. CASE Uploaded(o)
  <2> DEFINE p == [o EXCEPT !.at = "save"]
  <2>1. (Becomes(o, p) \/ Becomes(o, Rejected(o))) /\ UNCHANGED cache /\ o.misdirected = {}
    BY <1>1, <1>5 DEF Uploaded, Avoids
  <2>2. p.dev = o.dev /\ p.misdirected = {} /\ p.at = "save"
    BY <1>1, <2>1 DEF Op
  <2> HIDE DEF p
  <2>3. Rejected(o).dev = o.dev /\ Rejected(o).misdirected = {} /\ Rejected(o).at = "rejected"
    BY <1>1, RejectedOp DEF Same, Blank
  <2> QED
    BY <1>2, <2>1, <2>2, <2>3
<1>6. CASE AvatarSaved(o)
  <2> DEFINE p == Cleared(o, "resolved")
  <2>1. Becomes(o, p) /\ UNCHANGED cache
    BY <1>6 DEF AvatarSaved
  <2>2. p.dev = o.dev /\ p.misdirected = {} /\ p.at = "resolved"
    BY <1>1, ClearedOp DEF Same, Blank, At
  <2> HIDE DEF p
  <2> QED
    BY <1>2, <2>1, <2>2
<1>7. CASE HasSeen(o)
  <2>1. Becomes(o, Checked(o)) /\ UNCHANGED cache /\ o.misdirected = {}
    BY <1>1, <1>7 DEF HasSeen, Checked, Avoids
  <2>2. /\ Checked(o).dev = o.dev /\ Checked(o).misdirected = o.misdirected
        /\ Checked(o).at \in {"received", "marking"}
    BY <1>7, CheckedOp DEF Same
  <2> QED
    BY <1>2, <2>1, <2>2
<1>8. CASE MarkSeen(o)
  <2>1. Becomes(o, Marked(o)) /\ UNCHANGED cache /\ o.misdirected = {}
    BY <1>1, <1>8 DEF MarkSeen, Marked, Avoids
  <2>2. Marked(o).dev = o.dev /\ Marked(o).misdirected = o.misdirected /\ Marked(o).at = "received"
    BY <1>8, MarkedOp DEF Alike
  <2> QED
    BY <1>2, <2>1, <2>2
<1>9. CASE Emits(o)
  <2>1. PICK at \in {"resolved", "rejected"} : Becomes(o, Done(o, at))
    BY <1>9, EmitsHow DEF EmitsAs
  <2>2. UNCHANGED cache /\ clock \in Nat
    BY <1>9, EmitsHow, TypedFacts
  <2>3. Done(o, at).dev = o.dev /\ Done(o, at).misdirected = {} /\ Done(o, at).at = at
    BY <1>1, <2>2, DoneOp DEF Alike, Blank, At
  <2> QED
    BY <1>2, <2>1, <2>2, <2>3
<1> QED
  BY <1>3, <1>4, <1>5, <1>6, <1>7, <1>8, <1>9 DEF Continues

LEMMA NextAvoids ==
    ASSUME Typed, Avoided, [Next]_vars
    PROVE  Avoided'
<1>1. Typed'
  BY NextTyped
<1>2. ASSUME UNCHANGED <<ops, cache>>
      PROVE  Avoided'
  BY <1>2 DEF Avoided
<1>3. CASE \E d \in Device : User(d)
  BY <1>3, AvoidedByUser
<1>4. CASE \E d \in Device : LoadName(d) \/ LoadAvatar(d)
  BY <1>2, <1>4 DEF LoadName, LoadAvatar, swarmVars
<1>5. CASE \E o \in ops : Continues(o)
  BY <1>1, <1>5, AvoidedByContinuing
<1>6. CASE \E a \in Account, n \in Node : Leaves(a, n) /\ UNCHANGED userVars
  BY <1>2, <1>6 DEF Leaves
<1>7. CASE UNCHANGED vars
  BY <1>2, <1>7 DEF vars, swarmVars
<1> QED
  BY <1>3, <1>4, <1>5, <1>6, <1>7 DEF Next

LEMMA AvoidedImplies ==
    ASSUME Typed, Avoided
    PROVE  MisdirectedOnce
<1> SUFFICES ASSUME NEW o \in ops, o.at = "sent", NEW r \in o.misdirected, r.node = o.target.node
             PROVE  o.target.fetch > r.fetch
  BY DEF MisdirectedOnce
<1>1. Lists(o, cache[o.dev]) /\ Asked(o, cache[o.dev])
  BY AvoidedBefore DEF Avoids
<1> QED
  BY <1>1 DEF Lists, Asked, Theirs, Later

\* No step asks a node again that has answered it 421, though nodes are told apart as
\* objects of a response and other operations of the Session fetch and filter our swarm
\* meanwhile: unless it is an object of a later fetch of our swarm than the one that answered.
THEOREM MisdirectedOnceAlways == Spec => []MisdirectedOnce
<1>1. Init => Typed /\ Avoided
  <2>1. Latest(NewCache)
    BY DEF Latest, NewCache
  <2> QED
    BY <2>1, InitTyped DEF Init, Avoided
<1>2. Typed /\ Avoided /\ [Next]_vars => (Typed /\ Avoided)'
  BY NextTyped, NextAvoids
<1>3. Typed /\ Avoided => MisdirectedOnce
  BY AvoidedImplies
<1> QED
  BY <1>1, <1>2, <1>3, PTL DEF Spec
----------------------------------------------------------------------------
(* How a Session hears of messages.                                        *)

\* What a step that brings nothing makes of an operation.
Goes(o, p) ==
    /\ p.dev = o.dev /\ p.id = o.id /\ p.fresh = o.fresh
    /\ \/ p = o
       \/ ~Ended(o) /\ p.at = "lost" /\ p.got = <<>> /\ p.until = clock
       \/ ~Ended(o) /\ o.at \notin {"received", "marking"} /\ p.at # "marking"

Starting(p) == p.id > clock /\ p.fresh = <<>> /\ p.got = <<>> /\ p.at \notin {"received", "marking"}

Quiet == /\ seen' = seen /\ events' = events
         /\ \A o \in ops : \E p \in ops' : Goes(o, p)
         /\ \A p \in ops' : Starting(p) \/ \E o \in ops : Goes(o, p)

LEMMA GoesItself == \A o : Goes(o, o)
  BY DEF Goes

LEMMA QuietByTurn ==
    ASSUME NEW o \in ops, NEW p, Becomes(o, p), Goes(o, p), seen' = seen, events' = events
    PROVE  Quiet
<1>1. ops' = (ops \ {o}) \cup {p}
  BY DEF Becomes
<1> QED
  BY <1>1, GoesItself DEF Quiet

LEMMA QuietByStart ==
    ASSUME Typed, NEW d, NEW kind, NEW plan, NEW at, Starts(d, kind, plan, at),
           at \notin {"received", "marking"}, seen' = seen, events' = events
    PROVE  Quiet
<1> DEFINE n == NewOp(d, clock + 1, kind, plan)
           p == [n EXCEPT !.at = at]
<1>1. ops' = ops \cup {p}
  BY DEF Starts
<1>2. p.id = clock + 1 /\ p.fresh = <<>> /\ p.got = <<>> /\ p.at = at
  BY DEF NewOp
<1>3. clock \in Nat
  BY DEF Typed, StateTypes
<1> HIDE DEF p
<1>4. Starting(p)
  BY <1>2, <1>3 DEF Starting
<1> QED
  BY <1>1, <1>4, GoesItself DEF Quiet

LEMMA QuietByRestart ==
    ASSUME Typed, NEW d \in Device, Restart(d)
    PROVE  Quiet
<1>1. PICK named \in BOOLEAN :
         /\ ops' = Survivors(d) \cup Begun(d, named)
         /\ seen' = seen /\ events' = events
  BY Zenon DEF Restart, Survivors, Begun, Began, Renaming
<1>2. ASSUME NEW o \in ops, NEW q, q = IF o.dev = d /\ ~Ended(o) THEN Done(o, "lost") ELSE o
      PROVE  Goes(o, q)
  <2>1. CASE o.dev = d /\ ~Ended(o)
    <3>1. o \in Op /\ clock \in Nat
      BY TypedFacts
    <3>2. Alike(o, q) /\ q.at = "lost" /\ Blank(q) /\ q.fresh = o.fresh /\ q.until = clock
      BY <1>2, <2>1, <3>1, DoneOp DEF At
    <3> QED
      BY <2>1, <3>2 DEF Goes, Alike, Blank
  <2>2. CASE ~(o.dev = d /\ ~Ended(o))
    BY <1>2, <2>2, GoesItself
  <2> QED
    BY <2>1, <2>2
<1>3. \A o \in ops : \E p \in Survivors(d) : Goes(o, p)
  BY <1>2 DEF Survivors
<1>4. \A p \in Survivors(d) : \E o \in ops : Goes(o, p)
  BY <1>2 DEF Survivors
<1>5. \A p \in Begun(d, named) : Starting(p)
  BY ProfilesTyped, BegunTyped DEF Starting, Begun, Blank
<1> QED
  BY <1>1, <1>3, <1>4, <1>5 DEF Quiet

LEMMA QuietByUser ==
    ASSUME Typed, NEW d \in Device, User(d)
    PROVE  Quiet
<1>1. ASSUME NEW kind, NEW plan, NEW at \in {"locate", "save", "upload"}, Starts(d, kind, plan, at),
             seen' = seen, events' = events
      PROVE  Quiet
  BY <1>1, QuietByStart
<1>2. ASSUME NEW kind \in Both \cup Notices, Send(d, kind)
      PROVE  Quiet
  BY <1>1, <1>2 DEF Send
<1>3. CASE DeleteMessages(d)
  BY <1>1, <1>3 DEF DeleteMessages
<1>4. CASE StartPoll(d) \/ SetDisplayName(d) \/ SetAvatar(d)
  BY <1>1, <1>4 DEF StartPoll, SetDisplayName, SetAvatar
<1> QED
  BY <1>2, <1>3, <1>4, QuietByRestart DEF User

LEMMA AskingAsks ==
    ASSUME NEW o, Request(o)
    PROVE  o.at \in Asking
  BY DEF Request, Locate, GetSnodes, GetSwarms, Ask, Answers, Misses, LosesAnswer, AnswersInvalid, Asking

LEMMA QuietByContinuing ==
    ASSUME Typed, NEW o \in ops, DisplayNameSaved(o) \/ Uploaded(o) \/ AvatarSaved(o) \/ Requests(o)
    PROVE  Quiet
<1>1. o \in Op
  BY TypedFacts
<1>2. seen' = seen /\ events' = events
  BY DEF DisplayNameSaved, Uploaded, AvatarSaved, Requests, userVars
<1>3. ASSUME NEW p, Becomes(o, p), p.dev = o.dev, p.id = o.id, p.fresh = o.fresh,
             o.at \in Asking \cup {"upload", "save"}, p.at # "marking"
      PROVE  Quiet
  <2>1. Goes(o, p)
    BY <1>3 DEF Goes, Ended, Asking
  <2> QED
    BY <1>2, <1>3, <2>1, QuietByTurn
<1>4. CASE DisplayNameSaved(o)
  <2> DEFINE p == [o EXCEPT !.at = "locate", !.plan = ConfigPlan(o.dev, o.id)]
  <2>1. Becomes(o, p) /\ o.at = "save"
    BY <1>4 DEF DisplayNameSaved
  <2>2. p.dev = o.dev /\ p.id = o.id /\ p.fresh = o.fresh /\ p.at = "locate"
    BY <1>1 DEF Op
  <2> HIDE DEF p
  <2> QED
    BY <1>3, <2>1, <2>2
<1>5. CASE Uploaded(o)
  <2> DEFINE p == [o EXCEPT !.at = "save"]
  <2>1. (Becomes(o, p) \/ Becomes(o, Rejected(o))) /\ o.at = "upload"
    BY <1>5 DEF Uploaded
  <2>2. p.dev = o.dev /\ p.id = o.id /\ p.fresh = o.fresh /\ p.at = "save"
    BY <1>1 DEF Op
  <2>3. Same(o, Rejected(o)) /\ Rejected(o).at = "rejected"
    BY <1>1, RejectedOp
  <2> HIDE DEF p
  <2> QED
    BY <1>3, <2>1, <2>2, <2>3 DEF Same
<1>6. CASE AvatarSaved(o)
  <2>1. Becomes(o, Cleared(o, "resolved")) /\ o.at = "save"
    BY <1>6 DEF AvatarSaved
  <2>2. Same(o, Cleared(o, "resolved")) /\ Cleared(o, "resolved").at = "resolved"
    BY <1>1, ClearedOp DEF At
  <2> QED
    BY <1>3, <2>1, <2>2 DEF Same
<1>7. CASE Requests(o)
  <2>1. PICK p : Turns(o, p)
    BY <1>7, RequestTurns DEF Requests
  <2>2. o.at \in Asking
    BY <1>7, AskingAsks DEF Requests
  <2> QED
    BY <1>3, <2>1, <2>2 DEF Turns, Same, Progress
<1> QED
  BY <1>4, <1>5, <1>6, <1>7

\* A Session hears of a message by one of three steps of a poll.
LEMMA NextHears ==
    ASSUME Typed, [Next]_vars
    PROVE  Quiet \/ \E o \in ops : HasSeen(o) \/ MarkSeen(o) \/ Emits(o)
<1>1. ASSUME UNCHANGED <<ops, seen, events>>
      PROVE  Quiet
  BY <1>1, GoesItself DEF Quiet
<1>2. CASE \E d \in Device : User(d)
  BY <1>2, QuietByUser
<1>3. CASE \E d \in Device : LoadName(d) \/ LoadAvatar(d)
  BY <1>1, <1>3 DEF LoadName, LoadAvatar, swarmVars
<1>4. CASE \E o \in ops : Continues(o)
  BY <1>4, QuietByContinuing DEF Continues
<1>5. CASE \E a \in Account, n \in Node : Leaves(a, n) /\ UNCHANGED userVars
  BY <1>1, <1>5 DEF Leaves, userVars
<1>6. CASE UNCHANGED vars
  BY <1>1, <1>6 DEF vars, swarmVars, userVars
<1> QED
  BY <1>2, <1>3, <1>4, <1>5, <1>6 DEF Next

\* What a poll has taken as new is in its box, and marked.
FreshSeen == \A o \in ops : \A m \in Range(o.fresh) :
                m \in Range(box[AccountOf[o.dev]]) /\ m.hash \in seen[o.dev]

\* What was seen stays seen.
LEMMA SeenGrows ==
    ASSUME Typed, [Next]_vars, NEW d \in Device
    PROVE  seen[d] \subseteq seen'[d]
<1>1. seen \in [Device -> SUBSET Hash]
  BY DEF Typed, StateTypes
<1>2. ASSUME NEW o \in ops, MarkSeen(o)
      PROVE  seen[d] \subseteq seen'[d]
  BY <1>1, <1>2 DEF MarkSeen
<1>3. ASSUME NEW o \in ops, HasSeen(o) \/ Emits(o)
      PROVE  seen' = seen
  BY <1>3, EmitsHow DEF HasSeen, userVars
<1> QED
  BY <1>2, <1>3, NextHears DEF Quiet

\* Only a poll that marks a message takes it as new.
LEMMA FreshComes ==
    ASSUME Typed, [Next]_vars, NEW p \in ops'
    PROVE  \/ p.fresh = <<>>
           \/ \E o \in ops : p.dev = o.dev /\ p.fresh = o.fresh
           \/ \E o \in ops : /\ MarkSeen(o) /\ p.dev = o.dev /\ p.fresh = Append(o.fresh, Head(o.got))
<1>1. CASE Quiet
  BY <1>1 DEF Quiet, Starting, Goes
<1>2. ASSUME NEW o \in ops, NEW q, Becomes(o, q)
      PROVE  p \in ops \/ p = q
  BY <1>2 DEF Becomes
<1>3. ASSUME NEW o \in ops, HasSeen(o)
      PROVE  \E x \in ops : p.dev = x.dev /\ p.fresh = x.fresh
  <2>1. Becomes(o, Checked(o)) /\ Same(o, Checked(o))
    BY <1>3, CheckedOp DEF HasSeen, Checked
  <2> QED
    BY <1>2, <2>1 DEF Same
<1>4. ASSUME NEW o \in ops, MarkSeen(o), p \notin ops
      PROVE  p.dev = o.dev /\ p.fresh = Append(o.fresh, Head(o.got))
  <2>1. Becomes(o, Marked(o)) /\ Alike(o, Marked(o)) /\ Marked(o).fresh = Append(o.fresh, Head(o.got))
    BY <1>4, MarkedOp DEF MarkSeen, Marked
  <2> QED
    BY <1>2, <1>4, <2>1 DEF Alike
<1>5. ASSUME NEW o \in ops, Emits(o)
      PROVE  \E x \in ops : p.dev = x.dev /\ p.fresh = x.fresh
  <2>1. PICK at \in {"resolved", "rejected"} : Becomes(o, Done(o, at))
    BY <1>5, EmitsHow DEF EmitsAs
  <2>2. Alike(o, Done(o, at)) /\ Done(o, at).fresh = o.fresh
    BY TypedFacts, DoneOp DEF At
  <2> QED
    BY <1>2, <2>1, <2>2 DEF Alike
<1> QED
  BY <1>1, <1>3, <1>4, <1>5, NextHears

LEMMA FreshKept ==
    ASSUME Typed, FreshSeen, [Next]_vars
    PROVE  FreshSeen'
<1> SUFFICES ASSUME NEW p \in ops', NEW m \in Range(p.fresh)
             PROVE  m \in Range(box'[AccountOf[p.dev]]) /\ m.hash \in seen'[p.dev]
  BY DEF FreshSeen
<1>1. ASSUME NEW o \in ops, p.dev = o.dev, m \in Range(o.fresh)
      PROVE  m \in Range(box'[AccountOf[p.dev]]) /\ m.hash \in seen'[p.dev]
  <2>1. o.dev \in Device /\ AccountOf[o.dev] \in Account
    BY TypedFacts
  <2>2. Range(box[AccountOf[o.dev]]) \subseteq Range(box'[AccountOf[o.dev]])
    BY <2>1, NextEvolves, BoxesGrow
  <2> QED
    BY <1>1, <2>1, <2>2, SeenGrows DEF FreshSeen
<1>2. ASSUME NEW o \in ops, MarkSeen(o), p.dev = o.dev, p.fresh = Append(o.fresh, Head(o.got))
      PROVE  m \in Range(box'[AccountOf[p.dev]]) /\ m.hash \in seen'[p.dev]
  <2>1. o.got # <<>> /\ o.got \in Seq(Message) /\ o.fresh \in Seq(Message)
    BY <1>2, MarkedOp
  <2>2. /\ OpOK(o, cache[o.dev], box[AccountOf[o.dev]], clock) /\ o.dev \in Device
        /\ seen \in [Device -> SUBSET Hash]
    BY TypedFacts DEF Typed, StateTypes
  <2>3. Head(o.got) \in Range(o.got) /\ Head(o.got) \in Message
    BY <2>1, HeadAndTail
  <2>4. seen' = [seen EXCEPT ![o.dev] = seen[o.dev] \cup {Head(o.got).hash}] /\ box' = box
    BY <1>2 DEF MarkSeen
  <2>5. Range(p.fresh) = Range(o.fresh) \cup {Head(o.got)}
    BY <1>2, <2>1, <2>3, RangeAppend
  <2>6. CASE m \in Range(o.fresh)
    BY <1>1, <1>2, <2>6
  <2>7. CASE m = Head(o.got)
    BY <1>2, <2>2, <2>3, <2>4, <2>7 DEF OpOK
  <2> QED
    BY <2>5, <2>6, <2>7
<1> QED
  BY <1>1, <1>2, FreshComes, NothingGot

----------------------------------------------------------------------------
(* What becomes of an avatar.                                              *)

Mine(d, kind)  == {o \in ops : o.dev = d /\ o.kind = kind /\ o.at = "resolved"}
ConfigsSeen(d) == {m \in Range(box[AccountOf[d]]) : m.kind = "config" /\ m.hash \in seen[d]}
Lost(d)        == \E m \in ConfigsSeen(d) : ~Usable(m.profile.avatar)
Brought(d)     == \E m \in ConfigsSeen(d) : Usable(m.profile.avatar)
Restarted(d)   == Mine(d, "restart") # {}

\* The avatar of storage is lost, or its key, to a configuration; that which is loaded is
\* the one of storage, from before; and an avatar that is saved is in storage already.
OnDisk(d) ==
    /\ Mine(d, "avatar") # {} /\ disk[d].avatar = Undefined => Lost(d)
    /\ disk[d].avatar # Undefined /\ ~disk[d].avatar.key => Brought(d)
    /\ \A o \in ops : o.dev = d /\ o.kind = "avatar" /\ o.at = "save" =>
                         disk[d].avatar # Undefined \/ Lost(d)
Loaded(d) ==
    loading[d].avatar # Undefined => Restarted(d) /\ (~loading[d].avatar.key => Brought(d))
Shown(d) ==
    Mine(d, "avatar") # {} /\ loading[d].avatar = Undefined =>
        /\ profile[d].avatar = Undefined => Lost(d)
        /\ profile[d].avatar # Undefined /\ ~profile[d].avatar.key => Restarted(d) /\ Brought(d)
Explained(d) == OnDisk(d) /\ Loaded(d) /\ Shown(d)

\* Avatars are set without a request to a swarm.
PlainAvatars     == \A o \in ops : o.kind = "avatar" => o.plan = <<>>
AvatarsExplained == PlainAvatars /\ \A d \in Device : Explained(d)

\* Whoever has resolved stays so.
LEMMA EndsStay ==
    ASSUME Typed, [Next]_vars, NEW o \in ops, o.at = "resolved"
    PROVE  o \in ops'
<1>1. ASSUME NEW q \in ops, NEW p, Becomes(q, p), q.at # "resolved"
      PROVE  o \in ops'
  BY <1>1 DEF Becomes
<1>2. CASE \E d \in Device : User(d)
  <2>1. ASSUME NEW d, NEW kind, NEW plan, NEW at, Starts(d, kind, plan, at)
        PROVE  o \in ops'
    BY <2>1 DEF Starts
  <2>2. ASSUME NEW d \in Device, Restart(d)
        PROVE  o \in ops'
    <3>1. PICK named \in BOOLEAN : ops' = Survivors(d) \cup Begun(d, named)
      BY <2>2, Zenon DEF Restart, Survivors, Begun, Began, Renaming
    <3>2. Ended(o)
      BY DEF Ended
    <3>3. o \in Survivors(d)
      BY <3>2 DEF Survivors
    <3> QED
      BY <3>1, <3>3
  <2> QED
    BY <1>2, <2>1, <2>2 DEF User, Send, DeleteMessages, StartPoll, SetDisplayName, SetAvatar
<1>3. CASE \E d \in Device : LoadName(d) \/ LoadAvatar(d)
  BY <1>3 DEF LoadName, LoadAvatar, swarmVars
<1>4. CASE \E q \in ops : Continues(q)
  <2>1. PICK q \in ops : Continues(q)
    BY <1>4
  <2>2. CASE DisplayNameSaved(q) \/ Uploaded(q) \/ AvatarSaved(q) \/ HasSeen(q) \/ MarkSeen(q)
    BY <1>1, <2>2 DEF DisplayNameSaved, Uploaded, AvatarSaved, HasSeen, MarkSeen
  <2>3. CASE Requests(q)
    <3>1. \E p : Becomes(q, p)
      BY <2>3, RequestTurns DEF Requests, Turns
    <3>2. q.at # "resolved"
      BY <2>3, AskingAsks DEF Requests, Asking
    <3> QED
      BY <1>1, <3>1, <3>2
  <2>4. CASE Emits(q)
    <3>1. \E at : Becomes(q, Done(q, at))
      BY <2>4, EmitsHow DEF EmitsAs
    <3>2. q.at # "resolved"
      BY <2>4, EmitsHow
    <3> QED
      BY <1>1, <3>1, <3>2
  <2> QED
    BY <2>1, <2>2, <2>3, <2>4 DEF Continues
<1>5. CASE \E a \in Account, n \in Node : Leaves(a, n) /\ UNCHANGED userVars
  BY <1>5 DEF Leaves
<1>6. CASE UNCHANGED vars
  BY <1>6 DEF vars, swarmVars
<1> QED
  BY <1>2, <1>3, <1>4, <1>5, <1>6 DEF Next

LEMMA CausesKept ==
    ASSUME Typed, [Next]_vars, NEW d \in Device
    PROVE  /\ (Lost(d) => Lost(d)') /\ (Brought(d) => Brought(d)')
           /\ (Restarted(d) => Restarted(d)')
<1>1. Range(box[AccountOf[d]]) \subseteq Range(box'[AccountOf[d]])
  BY NextEvolves, BoxesGrow, PeerIsAnother
<1>2. ConfigsSeen(d) \subseteq ConfigsSeen(d)'
  BY <1>1, SeenGrows DEF ConfigsSeen
<1>3. Mine(d, "restart") \subseteq Mine(d, "restart")'
  BY EndsStay DEF Mine
<1> QED
  BY <1>2, <1>3 DEF Lost, Brought, Restarted
\* No avatar is uploaded or saved.
NoneSet == \A p \in ops' : p.kind = "avatar" /\ p.at \in {"save", "resolved"} => p \in ops

SameAvatars(d) == /\ profile'[d].avatar = profile[d].avatar /\ disk'[d].avatar = disk[d].avatar
                  /\ loading'[d].avatar = loading[d].avatar

LEMMA NoneSetMine ==
    ASSUME NoneSet, NEW d, Mine(d, "avatar")' # {}
    PROVE  Mine(d, "avatar") # {}
  BY DEF NoneSet, Mine

LEMMA QuietExplained ==
    ASSUME Typed, [Next]_vars, NEW d \in Device, Explained(d), NoneSet, SameAvatars(d)
    PROVE  Explained(d)'
<1>1. /\ Lost(d) => Lost(d)'
      /\ Brought(d) => Brought(d)'
      /\ Restarted(d) => Restarted(d)'
  BY CausesKept
<1>2. Mine(d, "avatar")' # {} => Mine(d, "avatar") # {}
  BY NoneSetMine
<1>3. OnDisk(d)'
  BY <1>1, <1>2 DEF Explained, OnDisk, SameAvatars, NoneSet
<1>4. Loaded(d)'
  BY <1>1, <1>2 DEF Explained, Loaded, SameAvatars
<1>5. Shown(d)'
  BY <1>1, <1>2 DEF Explained, Shown, SameAvatars
<1> QED
  BY <1>3, <1>4, <1>5 DEF Explained

LEMMA QuietForAll ==
    ASSUME Typed, [Next]_vars, AvatarsExplained, PlainAvatars', NoneSet,
           \A d \in Device : SameAvatars(d)
    PROVE  AvatarsExplained'
  BY QuietExplained DEF AvatarsExplained

\* An operation is called.
LEMMA StartQuiet ==
    ASSUME PlainAvatars, NEW d, NEW kind, NEW plan, NEW at, Starts(d, kind, plan, at),
           kind # "avatar" \/ (plan = <<>> /\ at = "upload")
    PROVE  PlainAvatars' /\ NoneSet
<1> DEFINE n == NewOp(d, clock + 1, kind, plan)
           p == [n EXCEPT !.at = at]
<1>1. ops' = ops \cup {p}
  BY DEF Starts
<1>2. p.kind = kind /\ p.plan = plan /\ p.at = at
  BY DEF NewOp
<1> HIDE DEF p
<1> QED
  BY <1>1, <1>2 DEF PlainAvatars, NoneSet

\* An operation that sets no avatar goes on.
LEMMA TurnQuiet ==
    ASSUME PlainAvatars, NEW o, NEW p, Becomes(o, p), p.kind # "avatar"
    PROVE  PlainAvatars' /\ NoneSet
  BY DEF Becomes, PlainAvatars, NoneSet

LEMMA AvatarsOfProfiles ==
    ASSUME Typed
    PROVE  /\ profile \in [Device -> Profile] /\ disk \in [Device -> Profile]
           /\ loading \in [Device -> Profile]
  BY DEF Typed, StateTypes

\* A name is set.
LEMMA NameOnly ==
    ASSUME NEW f \in [Device -> Profile], NEW d \in Device, NEW name, NEW x \in Device
    PROVE  [f EXCEPT ![d].name = name][x].avatar = f[x].avatar
<1>1. f[d] \in Profile
  OBVIOUS
<1>2. [f[d] EXCEPT !.name = name].avatar = f[d].avatar
  BY <1>1 DEF Profile
<1> QED
  BY <1>2

LEMMA UserExplained ==
    ASSUME Typed, [Next]_vars, AvatarsExplained, NEW d \in Device, User(d), ~Restart(d)
    PROVE  AvatarsExplained'
<1>1. PlainAvatars
  BY DEF AvatarsExplained
<1>2. ASSUME UNCHANGED <<profile, disk, loading>>
      PROVE  \A x \in Device : SameAvatars(x)
  BY <1>2 DEF SameAvatars
<1>3. ASSUME NEW kind \in Both \cup Notices, Send(d, kind)
      PROVE  AvatarsExplained'
  <2>1. kind # "avatar" /\ UNCHANGED <<profile, disk, loading>>
    BY <1>3 DEF Send, Both, Notices
  <2>2. \E plan, at : Starts(d, kind, plan, at)
    BY <1>3 DEF Send
  <2> QED
    BY <1>1, <1>2, <2>1, <2>2, StartQuiet, QuietForAll
<1>4. CASE DeleteMessages(d)
  <2>1. \E plan, at : Starts(d, "delete", plan, at)
    BY <1>4 DEF DeleteMessages
  <2>2. UNCHANGED <<profile, disk, loading>>
    BY <1>4 DEF DeleteMessages
  <2> QED
    BY <1>1, <1>2, <2>1, <2>2, StartQuiet, QuietForAll
<1>5. CASE StartPoll(d)
  <2>1. Starts(d, "poll", PollPlan(d), "locate") /\ UNCHANGED <<profile, disk, loading>>
    BY <1>5 DEF StartPoll
  <2> QED
    BY <1>1, <1>2, <2>1, StartQuiet, QuietForAll
<1>6. CASE SetDisplayName(d)
  <2>1. /\ Starts(d, "rename", <<>>, "save") /\ UNCHANGED loading
        /\ profile' = [profile EXCEPT ![d].name = clock + 1]
        /\ disk' = [disk EXCEPT ![d].name = clock + 1]
    BY <1>6 DEF SetDisplayName
  <2>2. \A x \in Device : SameAvatars(x)
    BY <2>1, AvatarsOfProfiles, NameOnly DEF SameAvatars
  <2> QED
    BY <1>1, <2>1, <2>2, StartQuiet, QuietForAll
<1>7. CASE SetAvatar(d)
  <2>1. Starts(d, "avatar", <<>>, "upload") /\ UNCHANGED <<profile, disk, loading>>
    BY <1>7 DEF SetAvatar
  <2> QED
    BY <1>1, <1>2, <2>1, StartQuiet, QuietForAll
<1> QED
  BY <1>3, <1>4, <1>5, <1>6, <1>7 DEF User

LEMMA RestartExplained ==
    ASSUME Typed, [Next]_vars, AvatarsExplained, NEW d \in Device, Restart(d)
    PROVE  AvatarsExplained'
<1>1. PICK named \in BOOLEAN :
         /\ ops' = Survivors(d) \cup Begun(d, named)
         /\ profile' = [profile EXCEPT ![d] = [NoProfile EXCEPT !.name = IF named THEN clock + 2 ELSE 0]]
         /\ disk' = IF named THEN [disk EXCEPT ![d].name = clock + 2] ELSE disk
         /\ loading' = [loading EXCEPT ![d] = Reloaded(d, named)]
  BY Zenon DEF Restart, Survivors, Begun, Began, Renaming
<1>2. PlainAvatars
  BY DEF AvatarsExplained
<1>3. ASSUME NEW p \in ops', p.kind = "avatar"
      PROVE  p.plan = <<>> /\ (p.at # "lost" => p \in ops)
  <2>1. CASE p \in Begun(d, named)
    BY <1>3, <2>1, BegunTyped DEF Begun
  <2>2. CASE p \in Survivors(d)
    <3>1. PICK o \in ops : p = IF o.dev = d /\ ~Ended(o) THEN Done(o, "lost") ELSE o
      BY <2>2 DEF Survivors
    <3>2. o \in Op /\ clock \in Nat
      BY TypedFacts
    <3>3. CASE p = o
      BY <1>2, <1>3, <3>3 DEF PlainAvatars
    <3>4. CASE p = Done(o, "lost")
      <4>1. p.kind = o.kind /\ p.plan = o.plan /\ p.at = "lost"
        BY <3>2, <3>4, DoneOp DEF Alike, At
      <4> QED
        BY <1>2, <1>3, <4>1 DEF PlainAvatars
    <3> QED
      BY <3>1, <3>3, <3>4
  <2> QED
    BY <1>1, <2>1, <2>2
<1>4. PlainAvatars' /\ NoneSet
  BY <1>3 DEF PlainAvatars, NoneSet
<1>5. disk \in [Device -> Profile] /\ loading \in [Device -> Profile] /\ profile \in [Device -> Profile]
  BY AvatarsOfProfiles
<1>6. \A x \in Device : disk'[x].avatar = disk[x].avatar
  BY <1>1, <1>5, NameOnly
<1>7. loading'[d].avatar = disk[d].avatar
  <2>1. Reloaded(d, named).avatar = disk[d].avatar
    <3>1. disk[d] \in Profile
      BY <1>5
    <3>2. [disk[d] EXCEPT !.name = 0].avatar = disk[d].avatar
      BY <3>1 DEF Profile
    <3> QED
      BY <3>2 DEF Reloaded
  <2> QED
    BY <1>1, <1>5, <2>1
<1>8. profile'[d].avatar = Undefined
  <2> DEFINE name == IF named THEN clock + 2 ELSE 0
             q == [NoProfile EXCEPT !.name = name]
  <2>1. profile' = [profile EXCEPT ![d] = q]
    BY <1>1
  <2>2. q.avatar = NoProfile.avatar /\ NoProfile.avatar = Undefined
    BY DEF NoProfile
  <2> HIDE DEF q
  <2> QED
    BY <1>5, <2>1, <2>2
<1>9. Explained(d)'
  <2>1. /\ Lost(d) => Lost(d)'
        /\ Brought(d) => Brought(d)'
    BY CausesKept
  <2>2. Explained(d)
    BY DEF AvatarsExplained
  <2>3. Mine(d, "avatar")' # {} => Mine(d, "avatar") # {}
    BY <1>4, NoneSetMine
  <2>4. OnDisk(d)'
    BY <1>4, <1>6, <2>1, <2>2, <2>3 DEF Explained, OnDisk, NoneSet
  <2>5. Restarted(d)'
    <3>1. Began(d) \in ops' /\ Began(d).dev = d /\ Began(d).kind = "restart" /\ Began(d).at = "resolved"
      BY <1>1, BegunTyped DEF Begun
    <3> QED
      BY <3>1 DEF Restarted, Mine
  <2>6. Loaded(d)'
    BY <1>7, <2>1, <2>2, <2>5 DEF Loaded, Explained, OnDisk
  <2>7. Shown(d)'
    BY <1>7, <1>8, <2>1, <2>2, <2>3 DEF Shown, Explained, OnDisk
  <2> QED
    BY <2>4, <2>6, <2>7 DEF Explained
<1>10. ASSUME NEW x \in Device, x # d
       PROVE  Explained(x)'
  <2>1. SameAvatars(x)
    BY <1>1, <1>5, <1>6, <1>10 DEF SameAvatars
  <2> QED
    BY <1>4, <2>1, QuietExplained DEF AvatarsExplained
<1> QED
  BY <1>4, <1>9, <1>10 DEF AvatarsExplained

LEMMA LoadExplained ==
    ASSUME Typed, [Next]_vars, AvatarsExplained, NEW d \in Device, LoadName(d) \/ LoadAvatar(d)
    PROVE  AvatarsExplained'
<1>1. ops' = ops /\ disk' = disk
  BY DEF LoadName, LoadAvatar, swarmVars
<1>2. PlainAvatars' /\ NoneSet
  BY <1>1 DEF AvatarsExplained, PlainAvatars, NoneSet
<1>3. disk \in [Device -> Profile] /\ loading \in [Device -> Profile] /\ profile \in [Device -> Profile]
  BY AvatarsOfProfiles
<1>4. CASE LoadName(d)
  <2>1. /\ profile' = [profile EXCEPT ![d].name = loading[d].name]
        /\ loading' = [loading EXCEPT ![d].name = 0]
    BY <1>4 DEF LoadName
  <2>2. \A x \in Device : SameAvatars(x)
    BY <1>1, <1>3, <2>1, NameOnly DEF SameAvatars
  <2> QED
    BY <1>2, <2>2, QuietForAll
<1>5. CASE LoadAvatar(d)
  <2>1. /\ loading[d].avatar # Undefined
        /\ profile' = [profile EXCEPT ![d].avatar = loading[d].avatar]
        /\ loading' = [loading EXCEPT ![d].avatar = Undefined]
    BY <1>5 DEF LoadAvatar
  <2>2. profile'[d].avatar = loading[d].avatar /\ loading'[d].avatar = Undefined
    <3>1. \A q \in Profile : \A v : [q EXCEPT !.avatar = v].avatar = v
      BY DEF Profile
    <3> QED
      BY <1>3, <2>1, <3>1
  <2>3. Explained(d) /\ Explained(d)'
    <3>1. /\ Lost(d) => Lost(d)'
          /\ Brought(d) => Brought(d)'
          /\ Restarted(d) => Restarted(d)'
      BY CausesKept
    <3>2. Explained(d)
      BY DEF AvatarsExplained
    <3>3. Mine(d, "avatar")' # {} => Mine(d, "avatar") # {}
      BY <1>2, NoneSetMine
    <3>4. OnDisk(d)'
      BY <1>1, <1>2, <3>1, <3>2, <3>3 DEF Explained, OnDisk, NoneSet
    <3>5. Loaded(d)'
      BY <2>2 DEF Loaded
    <3>6. Shown(d)'
      BY <2>1, <2>2, <3>1, <3>2 DEF Shown, Explained, Loaded
    <3> QED
      BY <3>2, <3>4, <3>5, <3>6 DEF Explained
  <2>4. ASSUME NEW x \in Device, x # d
        PROVE  Explained(x)'
    <3>1. SameAvatars(x)
      BY <1>1, <1>3, <2>1, <2>4 DEF SameAvatars
    <3> QED
      BY <1>2, <3>1, QuietExplained DEF AvatarsExplained
  <2> QED
    BY <1>2, <2>3, <2>4 DEF AvatarsExplained
<1> QED
  BY <1>4, <1>5
LEMMA UploadedExplained ==
    ASSUME Typed, [Next]_vars, AvatarsExplained, NEW o \in ops, Uploaded(o)
    PROVE  AvatarsExplained'
<1> DEFINE d == o.dev
<1>1. /\ o \in Op /\ d \in Device /\ OpOK(o, cache[d], box[AccountOf[d]], clock) /\ clock \in Nat
  BY TypedFacts
<1>2. o.plan = <<>> /\ o.id \in Nat /\ UNCHANGED <<profile, loading>> /\ PlainAvatars
  BY <1>1, OpFields DEF OpOK, Uploaded, AvatarsExplained
<1>3. disk \in [Device -> Profile]
  BY AvatarsOfProfiles
<1>4. CASE Becomes(o, Rejected(o)) /\ UNCHANGED disk
  <2> DEFINE p == Rejected(o)
  <2>1. p.kind = o.kind /\ p.plan = o.plan /\ p.at = "rejected"
    BY <1>1, RejectedOp DEF Same
  <2> HIDE DEF p
  <2>2. ops' = (ops \ {o}) \cup {p}
    BY <1>4 DEF Becomes, p
  <2>3. PlainAvatars' /\ NoneSet
    BY <1>2, <2>1, <2>2 DEF PlainAvatars, NoneSet
  <2>4. \A x \in Device : SameAvatars(x)
    BY <1>2, <1>4 DEF SameAvatars
  <2> QED
    BY <2>3, <2>4, QuietForAll
<1>5. CASE /\ Becomes(o, [o EXCEPT !.at = "save"])
           /\ disk' = [disk EXCEPT ![d].avatar = [of |-> o.id, key |-> TRUE]]
  <2> DEFINE p == [o EXCEPT !.at = "save"]
             v == [of |-> o.id, key |-> TRUE]
  <2>1. p.kind = o.kind /\ p.plan = o.plan /\ p.at = "save" /\ p.dev = d
    BY <1>1 DEF Op
  <2>2. v \in Avatar /\ v # Undefined /\ v.key
    <3>1. v \in Avatar
      BY <1>2 DEF Avatar
    <3>2. v.key
      BY Zenon
    <3> QED
      BY <3>1, <3>2, AvatarAssumption
  <2>3. ops' = (ops \ {o}) \cup {p} /\ disk' = [disk EXCEPT ![d].avatar = v]
    BY <1>5 DEF Becomes
  <2> HIDE DEF p, v
  <2>4. disk'[d].avatar = v
    <3>1. \A q \in Profile : [q EXCEPT !.avatar = v].avatar = v
      BY DEF Profile
    <3> QED
      BY <1>1, <1>3, <2>3, <3>1
  <2>5. PlainAvatars'
    BY <1>2, <2>1, <2>3 DEF PlainAvatars
  <2>6. \A x \in Device : Mine(x, "avatar")' # {} => Mine(x, "avatar") # {}
    BY <2>1, <2>3 DEF Mine
  <2>7. ASSUME NEW x \in Device
        PROVE  Explained(x)'
    <3>1. /\ Lost(x) => Lost(x)'
          /\ Brought(x) => Brought(x)'
          /\ Restarted(x) => Restarted(x)'
      BY CausesKept
    <3>2. Explained(x)
      BY DEF AvatarsExplained
    <3>3. x # d => disk'[x] = disk[x]
      BY <1>3, <2>3
    <3>4. OnDisk(x)'
      <4>1. CASE x = d
        BY <2>2, <2>4, <4>1, Zenon DEF OnDisk
      <4>2. CASE x # d
        BY <2>1, <2>3, <2>6, <3>1, <3>2, <3>3, <4>2 DEF OnDisk, Explained
      <4> QED
        BY <4>1, <4>2
    <3>5. Loaded(x)'
      BY <1>2, <3>1, <3>2 DEF Loaded, Explained
    <3>6. Shown(x)'
      BY <1>2, <2>6, <3>1, <3>2 DEF Shown, Explained
    <3> QED
      BY <3>4, <3>5, <3>6 DEF Explained
  <2> QED
    BY <2>5, <2>7 DEF AvatarsExplained
<1> QED
  BY <1>4, <1>5 DEF Uploaded

LEMMA AvatarSavedExplained ==
    ASSUME Typed, [Next]_vars, AvatarsExplained, NEW o \in ops, AvatarSaved(o)
    PROVE  AvatarsExplained'
<1> DEFINE d == o.dev
           v == [of |-> o.id, key |-> TRUE]
           p == Cleared(o, "resolved")
<1>1. o \in Op /\ d \in Device
  BY TypedFacts
<1>2. /\ o.kind = "avatar" /\ o.at = "save" /\ Becomes(o, p) /\ UNCHANGED <<disk, loading>>
      /\ profile' = [profile EXCEPT ![d].avatar = v] /\ PlainAvatars
  BY DEF AvatarSaved, AvatarsExplained
<1>3. profile \in [Device -> Profile]
  BY AvatarsOfProfiles
<1>4. p.kind = o.kind /\ p.plan = o.plan /\ p.at = "resolved" /\ p.dev = d
  BY <1>1, ClearedOp DEF Same, At
<1>5. v \in Avatar /\ v # Undefined /\ v.key
  <2>1. v \in Avatar
    BY <1>1, OpFields DEF Avatar
  <2>2. v.key
    BY Zenon
  <2> QED
    BY <2>1, <2>2, AvatarAssumption
<1>6. ops' = (ops \ {o}) \cup {p}
  BY <1>2 DEF Becomes
<1> HIDE DEF p, v
<1>7. profile'[d].avatar = v
  <2>1. \A q \in Profile : [q EXCEPT !.avatar = v].avatar = v
    BY DEF Profile
  <2> QED
    BY <1>1, <1>2, <1>3, <2>1
<1>8. PlainAvatars'
  BY <1>2, <1>4, <1>6 DEF PlainAvatars
<1>9. ASSUME NEW x \in Device
      PROVE  Explained(x)'
  <2>1. /\ Lost(x) => Lost(x)'
        /\ Brought(x) => Brought(x)'
        /\ Restarted(x) => Restarted(x)'
    BY CausesKept
  <2>2. Explained(x)
    BY DEF AvatarsExplained
  <2>3. x # d => /\ profile'[x] = profile[x]
                 /\ Mine(x, "avatar")' # {} => Mine(x, "avatar") # {}
    BY <1>2, <1>3, <1>4, <1>6 DEF Mine
  <2>4. \A q \in ops' : q.at = "save" => q \in ops
    BY <1>4, <1>6
  <2>5. x = d => disk[x].avatar # Undefined \/ Lost(x)
    BY <1>2, <2>2 DEF Explained, OnDisk
  <2>6. OnDisk(x)'
    BY <1>2, <2>1, <2>2, <2>3, <2>4, <2>5 DEF OnDisk, Explained
  <2>7. Loaded(x)'
    BY <1>2, <2>1, <2>2 DEF Loaded, Explained
  <2>8. Shown(x)'
    <3>1. CASE x = d
      BY <1>5, <1>7, <3>1, Zenon DEF Shown
    <3>2. CASE x # d
      BY <1>2, <2>1, <2>2, <2>3, <3>2 DEF Shown, Explained
    <3> QED
      BY <3>1, <3>2
  <2> QED
    BY <2>6, <2>7, <2>8 DEF Explained
<1> QED
  BY <1>8, <1>9 DEF AvatarsExplained

\* What a poll that applies a configuration makes of the avatar.
LEMMA AppliedExplained ==
    ASSUME Typed, FreshSeen, NEW o \in ops, Applies(o), Configs(o.fresh) # {}, UNCHANGED <<box, seen>>
    PROVE  LET d == o.dev
           IN  /\ profile'[d].avatar = Undefined /\ disk'[d].avatar = Undefined => Lost(d)'
               /\ profile'[d].avatar = Undefined <=> disk'[d].avatar = Undefined
               /\ profile'[d].avatar # Undefined => profile'[d].avatar.key /\ Brought(d)'
<1> DEFINE d == o.dev
           batch == o.fresh
           a == Applied(batch)
<1>1. /\ d \in Device /\ box' = box /\ seen' = seen
      /\ profile' = [profile EXCEPT ![d] = a]
      /\ disk' = [disk EXCEPT ![d] = Synced(a)]
  BY TypedFacts DEF Applies
<1>2. /\ batch \in Seq(Message)
      /\ \A m \in Range(batch) : m \in Range(box[AccountOf[d]]) /\ m.hash \in seen[d]
  BY TypedFacts, OpFields DEF FreshSeen
<1> HIDE DEF batch, a, d
<1>3. PICK m \in Configs(batch) :
              /\ m \in Message /\ m \in Range(batch) /\ m.kind = "config"
              /\ Usable(m.profile.avatar) => a = m.profile
              /\ ~Usable(m.profile.avatar) => a = [m.profile EXCEPT !.avatar = Undefined]
  BY <1>2, AppliedOf DEF batch, a
<1>4. m.profile \in Profile
  BY <1>3 DEF Message
<1>5. /\ seen \in [Device -> SUBSET Hash] /\ profile \in [Device -> Profile] /\ disk \in [Device -> Profile]
  BY DEF Typed, StateTypes
<1>6. profile'[d] = a /\ disk'[d] = Synced(a)
  BY <1>1, <1>5
<1>7. m \in ConfigsSeen(d)'
  BY <1>1, <1>2, <1>3 DEF ConfigsSeen
<1>8. CASE Usable(m.profile.avatar)
  <2>1. a = m.profile /\ a.avatar # Undefined /\ a.avatar.key
    BY <1>3, <1>8, Zenon DEF Usable
  <2>2. a.avatar \in Avatar
    BY <1>4, <2>1 DEF Profile
  <2>3. Synced(a).avatar # Undefined
    <3> DEFINE w == [a.avatar EXCEPT !.key = FALSE]
    <3>1. w \in Avatar
      BY <2>2 DEF Avatar
    <3>2. Synced(a) = [a EXCEPT !.avatar = w]
      BY <2>1, Zenon DEF Synced
    <3> HIDE DEF w
    <3>3. Synced(a).avatar = w
      BY <1>4, <2>1, <3>2 DEF Profile
    <3> QED
      BY <3>1, <3>3, AvatarAssumption
  <2>4. Brought(d)'
    BY <1>7, <1>8 DEF Brought
  <2> QED
    BY <1>6, <2>1, <2>3, <2>4, Zenon DEF d
<1>9. CASE ~Usable(m.profile.avatar)
  <2>1. a = [m.profile EXCEPT !.avatar = Undefined]
    BY <1>3, <1>9
  <2>2. a.avatar = Undefined
    BY <1>4, <2>1 DEF Profile
  <2>3. Synced(a) = a
    BY <2>2 DEF Synced
  <2>4. Lost(d)'
    BY <1>7, <1>9 DEF Lost
  <2> QED
    BY <1>6, <2>2, <2>3, <2>4, Zenon DEF d
<1> QED
  BY <1>8, <1>9

LEMMA EmitsExplained ==
    ASSUME Typed, FreshSeen, [Next]_vars, AvatarsExplained, NEW o \in ops, Emits(o)
    PROVE  AvatarsExplained'
<1> DEFINE d == o.dev
           batch == o.fresh
<1>1. /\ o \in Op /\ d \in Device /\ OpOK(o, cache[d], box[AccountOf[d]], clock) /\ clock \in Nat
  BY TypedFacts
<1>2. PICK at \in {"resolved", "rejected"} :
         /\ Becomes(o, Done(o, at))
         /\ UNCHANGED <<profile, disk>> \/ Applies(o) \/ AppliesPartly(o)
  BY EmitsHow DEF EmitsAs
<1>3. o.at = "received" /\ UNCHANGED <<loading, box, seen>>
  BY EmitsHow
<1>4. o.kind # "avatar"
  BY <1>1, <1>3 DEF OpOK, AvatarsExplained, PlainAvatars
<1>5. Done(o, at).kind # "avatar"
  BY <1>1, <1>4, DoneOp DEF Alike, At
<1>6. PlainAvatars' /\ NoneSet
  BY <1>2, <1>5, TurnQuiet DEF AvatarsExplained
<1>7. ASSUME UNCHANGED <<profile, disk>>
      PROVE  AvatarsExplained'
  <2>1. \A x \in Device : SameAvatars(x)
    BY <1>3, <1>7 DEF SameAvatars
  <2> QED
    BY <1>6, <2>1, QuietForAll
<1>8. CASE AppliesPartly(o)
  <2>1. \A x \in Device : SameAvatars(x)
    BY <1>3, <1>8, AppliesPartlyTyped DEF SameAvatars
  <2> QED
    BY <1>6, <2>1, QuietForAll
<1> HIDE DEF batch
<1>9. CASE Applies(o) /\ Configs(batch) = {}
  BY <1>7, <1>9 DEF Applies, batch
<1>10. CASE Applies(o) /\ Configs(batch) # {}
  <2>1. /\ profile' = [profile EXCEPT ![d] = Applied(batch)]
        /\ disk' = [disk EXCEPT ![d] = Synced(Applied(batch))]
    BY <1>10 DEF Applies, batch
  <2>2. ASSUME NEW x \in Device, x # d
        PROVE  Explained(x)'
    <3>1. SameAvatars(x)
      BY <1>3, <2>1, <2>2, AvatarsOfProfiles DEF SameAvatars
    <3> QED
      BY <1>6, <3>1, QuietExplained DEF AvatarsExplained
  <2>3. Explained(d)'
    <3>1. /\ profile'[d].avatar = Undefined /\ disk'[d].avatar = Undefined => Lost(d)'
          /\ profile'[d].avatar = Undefined <=> disk'[d].avatar = Undefined
          /\ profile'[d].avatar # Undefined => profile'[d].avatar.key /\ Brought(d)'
      BY <1>3, <1>10, AppliedExplained, Zenon DEF batch
    <3>2. /\ Brought(d) => Brought(d)'
          /\ Restarted(d) => Restarted(d)'
      BY <1>1, CausesKept
    <3>3. OnDisk(d)'
      BY <3>1, Zenon DEF OnDisk
    <3>4. Loaded(d)'
      BY <1>1, <1>3, <3>2 DEF Loaded, Explained, AvatarsExplained
    <3>5. Shown(d)'
      BY <3>1, Zenon DEF Shown
    <3> QED
      BY <3>3, <3>4, <3>5 DEF Explained
  <2> QED
    BY <1>6, <2>2, <2>3 DEF AvatarsExplained
<1> QED
  BY <1>2, <1>7, <1>8, <1>9, <1>10

\* A poll that checks a message, or marks it.
LEMMA ChecksExplained ==
    ASSUME Typed, [Next]_vars, AvatarsExplained, NEW o \in ops, HasSeen(o) \/ MarkSeen(o)
    PROVE  AvatarsExplained'
<1>1. /\ OpOK(o, cache[o.dev], box[AccountOf[o.dev]], clock)
      /\ o.at \in {"received", "marking"} /\ UNCHANGED <<profile, disk, loading>>
  BY TypedFacts DEF HasSeen, MarkSeen, userVars
<1>2. o.kind # "avatar"
  BY <1>1 DEF OpOK, AvatarsExplained, PlainAvatars
<1>3. \E p : Becomes(o, p) /\ p.kind = o.kind
  <2>1. CASE HasSeen(o)
    <3>1. Becomes(o, Checked(o)) /\ Same(o, Checked(o))
      BY <2>1, CheckedOp DEF HasSeen, Checked
    <3> QED
      BY <3>1 DEF Same
  <2>2. CASE MarkSeen(o)
    <3>1. Becomes(o, Marked(o)) /\ Alike(o, Marked(o))
      BY <2>2, MarkedOp DEF MarkSeen, Marked
    <3> QED
      BY <3>1 DEF Alike
  <2> QED
    BY <2>1, <2>2
<1>4. PlainAvatars' /\ NoneSet
  BY <1>2, <1>3, TurnQuiet DEF AvatarsExplained
<1>5. \A x \in Device : SameAvatars(x)
  BY <1>1 DEF SameAvatars
<1> QED
  BY <1>4, <1>5, QuietForAll

LEMMA NextExplained ==
    ASSUME Typed, FreshSeen, AvatarsExplained, [Next]_vars
    PROVE  AvatarsExplained'
<1>1. CASE \E d \in Device : User(d) \/ LoadName(d) \/ LoadAvatar(d)
  BY <1>1, UserExplained, RestartExplained, LoadExplained
<1>2. CASE \E o \in ops : Continues(o)
  <2>1. PICK o \in ops : Continues(o)
    BY <1>2
  <2>2. o \in Op /\ OpOK(o, cache[o.dev], box[AccountOf[o.dev]], clock)
    BY TypedFacts
  <2>3. UNCHANGED <<profile, disk, loading>> => \A d \in Device : SameAvatars(d)
    BY DEF SameAvatars
  <2>4. CASE DisplayNameSaved(o)
    <3> DEFINE p == [o EXCEPT !.at = "locate", !.plan = ConfigPlan(o.dev, o.id)]
    <3>1. Becomes(o, p) /\ UNCHANGED <<profile, disk, loading>> /\ o.kind = "rename"
      BY <2>4 DEF DisplayNameSaved, userVars
    <3>2. p.kind = o.kind
      BY <2>2 DEF Op
    <3> HIDE DEF p
    <3> QED
      BY <2>3, <3>1, <3>2, TurnQuiet, QuietForAll DEF AvatarsExplained
  <2>5. CASE Requests(o)
    <3>1. PICK p : Becomes(o, p) /\ p.kind = o.kind
      BY <2>5, RequestTurns DEF Requests, Turns, Same
    <3>2. UNCHANGED <<profile, disk, loading>> /\ o.at \in Asking
      BY <2>5, AskingAsks DEF Requests
    <3>3. o.kind # "avatar"
      BY <2>2, <3>2 DEF OpOK, AvatarsExplained, PlainAvatars
    <3> QED
      BY <2>3, <3>1, <3>2, <3>3, TurnQuiet, QuietForAll DEF AvatarsExplained
  <2> QED
    BY <2>1, <2>4, <2>5, UploadedExplained, AvatarSavedExplained, ChecksExplained, EmitsExplained
       DEF Continues
<1>3. ASSUME UNCHANGED <<ops, profile, disk, loading>>
      PROVE  AvatarsExplained'
  <2>1. PlainAvatars' /\ NoneSet
    BY <1>3 DEF AvatarsExplained, PlainAvatars, NoneSet
  <2>2. \A d \in Device : SameAvatars(d)
    BY <1>3 DEF SameAvatars
  <2> QED
    BY <2>1, <2>2, QuietForAll
<1>4. CASE \E a \in Account, n \in Node : Leaves(a, n) /\ UNCHANGED userVars
  BY <1>3, <1>4 DEF Leaves, userVars
<1>5. CASE UNCHANGED vars
  BY <1>3, <1>5 DEF vars, swarmVars, userVars
<1> QED
  BY <1>1, <1>2, <1>4, <1>5 DEF Next

LEMMA InitExplained == Init => AvatarsExplained
<1> SUFFICES ASSUME Init PROVE AvatarsExplained
  OBVIOUS
<1>1. ops = {} /\ \A d \in Device : disk[d].avatar = Undefined /\ loading[d].avatar = Undefined
  BY DEF Init, NoProfile
<1> QED
  BY <1>1 DEF AvatarsExplained, PlainAvatars, Explained, OnDisk, Loaded, Shown, Mine

LEMMA ExplainedImplies ==
    ASSUME AvatarsExplained
    PROVE  AvatarLossHasACause
<1> SUFFICES ASSUME NEW d \in Device
             PROVE  LET mine(kind) == {o \in ops : o.dev = d /\ o.kind = kind /\ o.at = "resolved"}
                        configs == {m \in Range(box[AccountOf[d]]) : m.kind = "config" /\ m.hash \in seen[d]}
                        avatar == profile[d].avatar
                    IN  mine("avatar") # {} /\ loading[d].avatar = Undefined =>
                          /\ avatar = Undefined => \E m \in configs : ~Usable(m.profile.avatar)
                          /\ avatar # Undefined /\ ~avatar.key =>
                                mine("restart") # {} /\ \E m \in configs : Usable(m.profile.avatar)
  BY DEF AvatarLossHasACause
<1>1. Shown(d)
  BY DEF AvatarsExplained, Explained
<1> QED
  BY <1>1 DEF Shown, Lost, Brought, Restarted, Mine, ConfigsSeen

\* A Session that has set its avatar, and has loaded it after a restart, lost it only to a
\* configuration without one; and lost the key only to a configuration that brought the
\* avatar, and a restart after it.
THEOREM AvatarLossHasACauseAlways == Spec => []AvatarLossHasACause
<1>1. Init => Typed /\ FreshSeen /\ AvatarsExplained
  BY InitTyped, InitExplained DEF Init, FreshSeen
<1>2. Typed /\ FreshSeen /\ AvatarsExplained /\ [Next]_vars => (Typed /\ FreshSeen /\ AvatarsExplained)'
  BY NextTyped, FreshKept, NextExplained
<1>3. AvatarsExplained => AvatarLossHasACause
  BY ExplainedImplies
<1> QED
  BY <1>1, <1>2, <1>3, PTL DEF Spec
----------------------------------------------------------------------------
(* Every message is stored once, and told by whoever took it.              *)

\* No two of s have the same hash.
Distinct(s) == \A i, j \in 1..Len(s) : s[i].hash = s[j].hash => i = j

Once == /\ \A a \in Account : Distinct(box[a])
        /\ \A o \in ops : Distinct(o.got)

LEMMA DistinctTells ==
    ASSUME NEW X, NEW s \in Seq(X), Distinct(s), NEW m \in Range(s), NEW n \in Range(s), m.hash = n.hash
    PROVE  m = n
  BY DEF Distinct, Range

LEMMA NothingDistinct == Distinct(<<>>)
  BY DEF Distinct

LEMMA TailDistinct ==
    ASSUME NEW X, NEW s \in Seq(X), s # <<>>, Distinct(s)
    PROVE  Distinct(Tail(s)) /\ \A m \in Range(Tail(s)) : m.hash # Head(s).hash
<1> DEFINE t == Tail(s)
<1>1. /\ Len(s) \in Nat \ {0} /\ Len(t) = Len(s) - 1 /\ t \in Seq(X)
      /\ Head(s) = s[1] /\ \A i \in 1..Len(t) : t[i] = s[i + 1]
  BY HeadAndTail
<1> HIDE DEF t
<1>2. ASSUME NEW i \in 1..Len(t), NEW j \in 1..Len(t), t[i].hash = t[j].hash
      PROVE  i = j
  <2>1. i + 1 \in 1..Len(s) /\ j + 1 \in 1..Len(s)
    BY <1>1
  <2>2. i + 1 = j + 1
    BY <1>1, <1>2, <2>1 DEF Distinct
  <2> QED
    BY <1>1, <2>2
<1>3. ASSUME NEW i \in 1..Len(t), t[i].hash = s[1].hash
      PROVE  FALSE
  <2>1. i + 1 \in 1..Len(s) /\ 1 \in 1..Len(s)
    BY <1>1
  <2>2. i + 1 = 1
    BY <1>1, <1>3, <2>1 DEF Distinct
  <2> QED
    BY <1>1, <2>2
<1>4. DOMAIN t = 1..Len(t)
  BY <1>1
<1> QED
  BY <1>1, <1>2, <1>3, <1>4 DEF Distinct, Range, t

LEMMA AppendDistinct ==
    ASSUME NEW X, NEW s \in Seq(X), Distinct(s), NEW x \in X, \A m \in Range(s) : m.hash # x.hash
    PROVE  Distinct(Append(s, x))
<1> DEFINE t == Append(s, x)
<1>1. /\ Len(t) = Len(s) + 1 /\ t[Len(s) + 1] = x /\ \A i \in 1..Len(s) : t[i] = s[i]
      /\ Len(s) \in Nat
  BY RangeAppend
<1>2. \A i \in 1..Len(s) : s[i].hash # x.hash
  BY DEF Range
<1>3. \A i, j \in 1..Len(s) : s[i].hash = s[j].hash => i = j
  BY DEF Distinct
<1> HIDE DEF t
<1>4. ASSUME NEW i \in 1..Len(t), NEW j \in 1..Len(t), t[i].hash = t[j].hash
      PROVE  i = j
  <2>1. /\ i \in 1..Len(s) \/ i = Len(s) + 1
        /\ j \in 1..Len(s) \/ j = Len(s) + 1
    BY <1>1
  <2> QED
    BY <1>1, <1>2, <1>3, <1>4, <2>1
<1> QED
  BY <1>4 DEF Distinct, t

LEMMA FilteredDistinct ==
    ASSUME NEW X, NEW s \in Seq(X), NEW S, Distinct(s)
    PROVE  Distinct(Filtered(s, S))
<1> DEFINE t == Filtered(s, S)
<1>1. PICK e : Chosen(e, s, t, Len(s))
  BY FilteredChooses
<1>2. t \in Seq(X)
  BY FilteredChooses
<1> HIDE DEF t
<1>3. Len(t) \in Nat /\ Len(s) \in Nat
  BY <1>2
<1>4. ASSUME NEW k \in 1..Len(t), NEW l \in 1..Len(t), t[k].hash = t[l].hash
      PROVE  k = l
  <2>1. e[k] \in 1..Len(s) /\ e[l] \in 1..Len(s) /\ t[k] = s[e[k]] /\ t[l] = s[e[l]]
    BY <1>1 DEF Chosen
  <2>2. e[k] = e[l]
    BY <1>4, <2>1 DEF Distinct
  <2>3. ~(k < l) /\ ~(l < k)
    BY <1>1, <1>3, <2>1, <2>2 DEF Chosen
  <2> QED
    BY <1>3, <2>3
<1> QED
  BY <1>4 DEF Distinct, t

\* A hash tells which message it is, whose, and what it is for.
LEMMA HashTells ==
    ASSUME Typed, NEW o \in ops, NEW k, NEW a, NEW m, Sends(o, k, a, m),
           NEW p \in ops, NEW l, NEW b, NEW n, Sends(p, l, b, n), m.hash = n.hash
    PROVE  m = n
<1>1. ASSUME NEW q \in ops, NEW j, NEW c, NEW x, Sends(q, j, c, x)
      PROVE  PlanFor(q.dev, q.id, q.kind, clock, q.plan) /\ x.hash[1] = q.id
  <2>1. q.plan # <<>>
    BY <1>1, OpPlan DEF Sends
  <2>2. PlanFor(q.dev, q.id, q.kind, clock, q.plan)
    BY <2>1, OpPlan
  <2> QED
    BY <1>1, <2>2 DEF Sends, PlanFor, StepFor, StoreFor
<1>2. PlanFor(o.dev, o.id, o.kind, clock, o.plan) /\ m.hash[1] = o.id
  BY <1>1
<1>3. n.hash[1] = p.id
  BY <1>1
<1>4. o = p
  BY <1>2, <1>3 DEF Typed
<1>5. k = l
  BY <1>2, <1>4 DEF Sends, PlanFor
<1> QED
  BY <1>4, <1>5 DEF Sends

LEMMA BoxesDistinct ==
    ASSUME Typed, Origin, Evolves, NEW a \in Account, Distinct(box[a])
    PROVE  Distinct(box'[a])
<1>1. box[a] \in Seq(Message)
  BY DEF Typed, StateTypes
<1>2. CASE box'[a] = box[a]
  BY <1>2
<1>3. CASE box'[a] # box[a]
  <2>1. PICK o \in ops : /\ o.at = "sent" /\ Step(o).do = "store" /\ a = Step(o).to
                         /\ Step(o).msg \notin Range(box[a])
                         /\ box'[a] = Append(box[a], Step(o).msg)
    BY <1>3 DEF Evolves
  <2>2. OpOK(o, cache[o.dev], box[AccountOf[o.dev]], clock)
    BY TypedFacts
  <2>3. o.plan # <<>>
    BY <2>1, <2>2 DEF OpOK, Asking
  <2>4. Step(o).msg \in Message /\ o.step \in 1..Len(o.plan)
    BY <2>1, <2>2, <2>3, StepTyped DEF StoreFor
  <2> DEFINE b == box[a]
             m == Step(o).msg
  <2>5. Sends(o, o.step, a, m)
    <3>1. o.step \in Nat
      BY OpPlan
    <3>2. o.plan[o.step].do = "store" /\ o.plan[o.step].to = a /\ o.plan[o.step].msg = m
      BY <2>1 DEF Step
    <3> HIDE DEF m
    <3> QED
      BY <2>4, <3>1, <3>2 DEF Sends
  <2>6. \A x \in Range(b) : x.hash # m.hash
    <3> SUFFICES ASSUME NEW x \in Range(b), x.hash = m.hash
                 PROVE  FALSE
      OBVIOUS
    <3>1. PICK p \in ops : \E k : Sends(p, k, a, x)
      BY DEF Origin
    <3>2. PICK k : Sends(p, k, a, x)
      BY <3>1
    <3>3. x = m
      BY <2>5, <3>2, HashTells
    <3> QED
      BY <2>1, <3>3
  <2> QED
    BY <1>1, <2>1, <2>4, <2>6, AppendDistinct
<1> QED
  BY <1>2, <1>3

\* Where the answer comes from that an operation has.
Comes(p) == \/ p.got = <<>>
            \/ \E o \in ops : p.got = o.got \/ (o.got # <<>> /\ p.got = Tail(o.got))
            \/ \E a \in Account : p.got = Kept(a)

LEMMA ComesByTurn ==
    ASSUME NEW o, NEW p, Becomes(o, p), Comes(p)
    PROVE  \A q \in ops' : Comes(q)
  BY DEF Becomes, Comes

LEMMA ComesByStart ==
    ASSUME NEW d, NEW kind, NEW plan, NEW at, Starts(d, kind, plan, at)
    PROVE  \A q \in ops' : Comes(q)
<1> DEFINE n == NewOp(d, clock + 1, kind, plan)
           p == [n EXCEPT !.at = at]
<1>1. ops' = ops \cup {p}
  BY DEF Starts
<1>2. p.got = <<>>
  BY DEF NewOp
<1> HIDE DEF p
<1> QED
  BY <1>1, <1>2 DEF Comes

LEMMA ComesByRequest ==
    ASSUME Typed, NEW o \in ops, Request(o)
    PROVE  \A q \in ops' : Comes(q)
<1>1. o \in Op
  BY TypedFacts
<1>2. ASSUME NEW p, Becomes(o, p), p.got = o.got \/ p.got = <<>>
      PROVE  \A q \in ops' : Comes(q)
  BY <1>2, ComesByTurn DEF Comes
<1>3. ASSUME NEW at \in At
      PROVE  /\ Rejected(o).got = <<>> /\ Cleared(o, at).got = <<>> /\ Advanced(o).got = <<>>
             /\ Again(o, at).got = o.got \/ Again(o, at).got = <<>>
  <2>1. Rejected(o).got = <<>>
    BY <1>1, RejectedOp DEF Blank
  <2>2. Cleared(o, at).got = <<>>
    BY <1>1, ClearedOp DEF Blank
  <2>3. Advanced(o).got = <<>>
    BY <1>1, AdvancedOp DEF Blank
  <2>4. Again(o, at).got = o.got \/ Again(o, at).got = <<>>
    BY <1>1, <2>1, AgainOp
  <2> QED
    BY <2>1, <2>2, <2>3, <2>4
<1>4. {"swarms", "ask", "received"} \subseteq At
  BY DEF At, Asking
<1>5. ASSUME NEW r
      PROVE  [Cleared(o, "ask") EXCEPT !.list = r].got = <<>>
  <2> DEFINE q == Cleared(o, "ask")
  <2>1. q \in Op /\ q.got = <<>>
    BY <1>1, <1>4, ClearedOp DEF Blank
  <2> HIDE DEF q
  <2>2. [q EXCEPT !.list = r].got = <<>>
    BY <2>1 DEF Op
  <2> QED
    BY <2>2 DEF q
<1>6. CASE Locate(o)
  <2>1. \E p : Becomes(o, p) /\ p.got = o.got
    <3> DEFINE c  == cache[o.dev]
               p1 == [o EXCEPT !.at = "ask", !.list = {c.ourSwarm}]
               p2 == [o EXCEPT !.at = "swarms", !.nodes = c.snodes]
               p3 == [o EXCEPT !.at = "snodes"]
    <3>1. Becomes(o, p1) \/ Becomes(o, p2) \/ Becomes(o, p3)
      BY <1>6 DEF Locate
    <3>2. p1.got = o.got /\ p2.got = o.got /\ p3.got = o.got
      BY <1>1 DEF Op
    <3> QED
      BY <3>1, <3>2
  <2> QED
    BY <1>2, <2>1
<1>7. CASE GetSnodes(o)
  <2>1. \E p : Becomes(o, p) /\ (p.got = o.got \/ p.got = <<>>)
    <3> DEFINE p == [o EXCEPT !.at = "swarms", !.nodes = Snodes(o)]
    <3>1. Becomes(o, p) \/ Becomes(o, Rejected(o))
      BY <1>7 DEF GetSnodes
    <3>2. p.got = o.got
      BY <1>1 DEF Op
    <3> QED
      BY <1>3, <1>4, <3>1, <3>2
  <2> QED
    BY <1>2, <2>1
<1>8. CASE GetSwarms(o)
  <2>1. \/ \E r : Becomes(o, [Cleared(o, "ask") EXCEPT !.list = r])
        \/ Becomes(o, Again(o, "swarms"))
        \/ Becomes(o, Rejected(o))
    BY <1>8 DEF GetSwarms
  <2> QED
    BY <1>2, <1>3, <1>4, <1>5, <2>1
<1>9. CASE Ask(o)
  <2>1. (\E r : Becomes(o, [o EXCEPT !.at = "sent", !.target = r])) \/ Becomes(o, Rejected(o))
    BY <1>9 DEF Ask
  <2>2. \A r : [o EXCEPT !.at = "sent", !.target = r].got = o.got
    BY <1>1 DEF Op
  <2> QED
    BY <1>2, <1>3, <1>4, <2>1, <2>2
<1>10. CASE Answers(o)
  <2>1. CASE Step(o).do # "poll"
    <3>1. Becomes(o, Advanced(o))
      BY <1>10, <2>1 DEF Answers
    <3> QED
      BY <1>2, <1>3, <1>4, <3>1
  <2>2. CASE Step(o).do = "poll"
    <3> DEFINE q == Cleared(o, "received")
               p == [q EXCEPT !.got = Kept(Step(o).to)]
    <3>1. Becomes(o, p)
      BY <1>10, <2>2 DEF Answers
    <3>2. q \in Op
      BY <1>1, <1>4, ClearedOp
    <3> HIDE DEF q
    <3>3. p.got = Kept(Step(o).to)
      BY <3>2 DEF Op
    <3>4. Step(o).to \in Account
      <4>1. OpOK(o, cache[o.dev], box[AccountOf[o.dev]], clock) /\ o.at = "sent"
        BY <1>10, TypedFacts DEF Answers
      <4>2. o.plan # <<>>
        BY <4>1 DEF OpOK, Asking
      <4> QED
        BY <4>1, <4>2, StepTyped
    <3> HIDE DEF p
    <3> QED
      BY <3>1, <3>3, <3>4, ComesByTurn DEF Comes
  <2> QED
    BY <2>1, <2>2
<1>11. CASE Misses(o)
  <2> DEFINE c == cache[o.dev]
             q == [o EXCEPT !.list = Without(o.list, o.target),
                            !.misdirected = o.misdirected \cup {o.target}]
  <2>1. Becomes(o, Again(q, "ask")) \/ Becomes(o, Rejected(o))
    BY <1>11 DEF Misses, Misdirected
  <2>2. q.got = o.got
    BY <1>1 DEF Op
  <2>3. Again(q, "ask").got = q.got \/ Again(q, "ask").got = <<>>
    <3>1. o.target \in Ref
      <4>1. OpOK(o, c, box[AccountOf[o.dev]], clock) /\ o.at = "sent"
        BY <1>11, TypedFacts DEF Misses
      <4> QED
        BY <1>1, <4>1, OpFields DEF OpOK
    <3>2. Without(o.list, o.target) \in SUBSET Ref /\ o.misdirected \cup {o.target} \in SUBSET Ref
      BY <1>1, <3>1, OpFields DEF Without
    <3>3. q \in Op
      BY <1>1, <3>2 DEF Op
    <3> HIDE DEF q
    <3>4. Rejected(q).got = <<>>
      BY <3>3, RejectedOp DEF Blank
    <3> QED
      BY <1>4, <3>3, <3>4, AgainOp
  <2> HIDE DEF q
  <2> QED
    BY <1>2, <1>3, <1>4, <2>1, <2>2, <2>3
<1>12. CASE LosesAnswer(o)
  <2>1. \/ Becomes(o, Again(o, "ask")) \/ Becomes(o, Rejected(o))
        \/ \E r : Becomes(o, [Cleared(o, "ask") EXCEPT !.list = r])
    <3>1. OpOK(o, cache[o.dev], box[AccountOf[o.dev]], clock) /\ o.at = "sent"
      BY <1>12, TypedFacts DEF LosesAnswer
    <3>2. Step(o).do \in {"store", "delete", "poll"}
      BY <3>1, StepTyped DEF OpOK, Asking
    <3>3. CASE Step(o).do = "store"
      BY <1>12, <3>3 DEF LosesAnswer
    <3>4. CASE Step(o).do = "delete"
      BY <1>12, <3>4 DEF LosesAnswer
    <3>5. CASE Step(o).do = "poll"
      BY <1>12, <3>5 DEF LosesAnswer
    <3> QED
      BY <3>2, <3>3, <3>4, <3>5
  <2> QED
    BY <1>2, <1>3, <1>4, <1>5, <2>1
<1>13. CASE AnswersInvalid(o)
  BY <1>2, <1>3, <1>4, <1>13 DEF AnswersInvalid
<1> QED
  BY <1>6, <1>7, <1>8, <1>9, <1>10, <1>11, <1>12, <1>13 DEF Request

LEMMA ComesByRestart ==
    ASSUME Typed, NEW d \in Device, Restart(d)
    PROVE  \A q \in ops' : Comes(q)
<1>1. PICK named \in BOOLEAN : ops' = Survivors(d) \cup Begun(d, named)
  BY Zenon DEF Restart, Survivors, Begun, Began, Renaming
<1>2. ASSUME NEW q \in Survivors(d)
      PROVE  Comes(q)
  <2>1. PICK o \in ops : q = IF o.dev = d /\ ~Ended(o) THEN Done(o, "lost") ELSE o
    BY DEF Survivors
  <2>2. Done(o, "lost").got = <<>>
    BY TypedFacts, DoneOp DEF Blank, At
  <2> QED
    BY <2>1, <2>2 DEF Comes
<1>3. ASSUME NEW q \in Begun(d, named)
      PROVE  Comes(q)
  <2>1. q = Began(d) \/ q = Renaming(d)
    BY DEF Begun
  <2>2. /\ clock + 1 \in Nat /\ clock + 2 \in Nat /\ <<>> \in Seq(PlanStep)
        /\ "restart" \in Kinds /\ "rename" \in Kinds /\ "save" \in At /\ "resolved" \in At
    BY DEF Typed, StateTypes, Kinds, At
  <2>3. Began(d).got = <<>>
    <3> DEFINE n == NewOp(d, clock + 1, "restart", <<>>)
    <3>1. n \in Op
      BY <2>2, PlainOp DEF Opened
    <3> HIDE DEF n
    <3>2. Cleared(n, "resolved").got = <<>>
      BY <2>2, <3>1, ClearedOp DEF Blank
    <3> QED
      BY <3>2 DEF Began, n
  <2>4. Renaming(d).got = <<>>
    <3>1. Opened(Renaming(d), d, clock + 2, "rename", <<>>, "save")
      BY <2>2, NewOpTyped DEF Renaming
    <3> QED
      BY <3>1 DEF Opened, Blank
  <2> QED
    BY <2>1, <2>3, <2>4 DEF Comes
<1> QED
  BY <1>1, <1>2, <1>3

LEMMA NextComes ==
    ASSUME Typed, [Next]_vars
    PROVE  \A q \in ops' : Comes(q)
<1>1. ASSUME UNCHANGED ops
      PROVE  \A q \in ops' : Comes(q)
  BY <1>1 DEF Comes
<1>2. ASSUME NEW d \in Device, User(d)
      PROVE  \A q \in ops' : Comes(q)
  BY <1>2, ComesByStart, ComesByRestart
     DEF User, Send, DeleteMessages, StartPoll, SetDisplayName, SetAvatar
<1>3. ASSUME NEW d \in Device, LoadName(d) \/ LoadAvatar(d)
      PROVE  \A q \in ops' : Comes(q)
  BY <1>1, <1>3 DEF LoadName, LoadAvatar, swarmVars
<1>4. ASSUME NEW o \in ops, Continues(o)
      PROVE  \A q \in ops' : Comes(q)
  <2>1. o \in Op
    BY TypedFacts
  <2>2. CASE DisplayNameSaved(o)
    <3> DEFINE p == [o EXCEPT !.at = "locate", !.plan = ConfigPlan(o.dev, o.id)]
    <3>1. Becomes(o, p)
      BY <2>2 DEF DisplayNameSaved
    <3>2. p.got = o.got
      BY <2>1 DEF Op
    <3> HIDE DEF p
    <3> QED
      BY <3>1, <3>2, ComesByTurn DEF Comes
  <2>3. CASE Uploaded(o)
    <3> DEFINE p == [o EXCEPT !.at = "save"]
    <3>1. Becomes(o, p) \/ Becomes(o, Rejected(o))
      BY <2>3 DEF Uploaded
    <3>2. p.got = o.got /\ Rejected(o).got = <<>>
      BY <2>1, RejectedOp DEF Op, Blank
    <3> HIDE DEF p
    <3> QED
      BY <3>1, <3>2, ComesByTurn DEF Comes
  <2>4. CASE AvatarSaved(o)
    <3>1. Becomes(o, Cleared(o, "resolved"))
      BY <2>4 DEF AvatarSaved
    <3>2. Cleared(o, "resolved").got = <<>>
      BY <2>1, ClearedOp DEF Blank, At
    <3> QED
      BY <3>1, <3>2, ComesByTurn DEF Comes
  <2>5. CASE Requests(o)
    BY <2>5, ComesByRequest DEF Requests
  <2>6. CASE HasSeen(o)
    <3>1. Becomes(o, Checked(o)) /\ o.got # <<>>
      BY <2>6 DEF HasSeen, Checked
    <3>2. Checked(o).got = o.got \/ Checked(o).got = Tail(o.got)
      BY <2>6, CheckedOp
    <3> QED
      BY <3>1, <3>2, ComesByTurn DEF Comes
  <2>7. CASE MarkSeen(o)
    <3>1. Becomes(o, Marked(o))
      BY <2>7 DEF MarkSeen, Marked
    <3>2. o.got # <<>> /\ Marked(o).got = Tail(o.got)
      BY <2>7, MarkedOp
    <3> QED
      BY <3>1, <3>2, ComesByTurn DEF Comes
  <2>8. CASE Emits(o)
    <3>1. PICK at \in {"resolved", "rejected"} : Becomes(o, Done(o, at))
      BY <2>8, EmitsHow DEF EmitsAs
    <3>2. Done(o, at).got = <<>>
      BY TypedFacts, DoneOp DEF Blank, At
    <3> QED
      BY <3>1, <3>2, ComesByTurn DEF Comes
  <2> QED
    BY <1>4, <2>2, <2>3, <2>4, <2>5, <2>6, <2>7, <2>8 DEF Continues
<1>5. CASE \E a \in Account, n \in Node : Leaves(a, n) /\ UNCHANGED userVars
  BY <1>1, <1>5 DEF Leaves
<1>6. CASE UNCHANGED vars
  BY <1>1, <1>6 DEF vars, swarmVars
<1> QED
  BY <1>2, <1>3, <1>4, <1>5, <1>6 DEF Next

LEMMA OnceKept ==
    ASSUME Typed, Origin, [Next]_vars, Once
    PROVE  Once'
<1>1. \A a \in Account : Distinct(box'[a])
  BY NextEvolves, BoxesDistinct DEF Once
<1>2. ASSUME NEW q \in ops'
      PROVE  Distinct(q.got)
  <2>1. Comes(q)
    BY NextComes
  <2>2. CASE q.got = <<>>
    BY <2>2, NothingDistinct
  <2>3. CASE \E o \in ops : q.got = o.got \/ (o.got # <<>> /\ q.got = Tail(o.got))
    <3>1. PICK o \in ops : q.got = o.got \/ (o.got # <<>> /\ q.got = Tail(o.got))
      BY <2>3
    <3>2. o.got \in Seq(Message) /\ Distinct(o.got)
      BY TypedFacts, OpFields DEF Once
    <3> QED
      BY <3>1, <3>2, TailDistinct
  <2>4. CASE \E a \in Account : q.got = Kept(a)
    <3>1. PICK a \in Account : q.got = Kept(a)
      BY <2>4
    <3>2. box[a] \in Seq(Message) /\ Distinct(box[a])
      BY DEF Typed, StateTypes, Once
    <3> QED
      BY <3>1, <3>2, FilteredDistinct DEF Kept
  <2> QED
    BY <2>1, <2>2, <2>3, <2>4 DEF Comes
<1> QED
  BY <1>1, <1>2 DEF Once

\* What is about a message is about one that was sent.
OfMessages == {"unsend", "read", "reaction", "unreact"}

TrueStep(s, sent) ==
    s.do = "store" => /\ s.msg.kind # "syncMessage"
                      /\ s.msg.kind \in OfMessages => s.msg.about \in sent
TruePlan(plan, sent) == \A k \in 1..Len(plan) : TrueStep(plan[k], sent)
TruePlans == \A o \in ops : TruePlan(o.plan, Times("message"))

LEMMA TimesGrow ==
    ASSUME Evolves, NEW kind
    PROVE  Times(kind) \subseteq Times(kind)'
<1> SUFFICES ASSUME NEW o \in ops, o.kind = kind
             PROVE  o.id \in Times(kind)'
  BY DEF Times
<1>1. PICK p \in ops' : Succeeds(o, p)
  BY DEF Evolves
<1>2. p.kind = kind /\ p.id = o.id
  BY <1>1 DEF Succeeds
<1> QED
  BY <1>1, <1>2 DEF Times

LEMMA TruthStays ==
    ASSUME NEW plan, NEW S, NEW T, S \subseteq T, TruePlan(plan, S)
    PROVE  TruePlan(plan, T)
  BY DEF TruePlan, TrueStep

\* Only what is called with a plan, and the configuration that follows a name, is new.
LEMMA PlansByTurn ==
    ASSUME TruePlans, Evolves, NEW o, NEW p, Becomes(o, p), TruePlan(p.plan, Times("message"))
    PROVE  TruePlans'
  BY TimesGrow, TruthStays DEF TruePlans, Becomes

LEMMA PlansByStart ==
    ASSUME TruePlans, Evolves, NEW d, NEW kind, NEW plan, NEW at, Starts(d, kind, plan, at),
           TruePlan(plan, Times("message"))
    PROVE  TruePlans'
<1> DEFINE n == NewOp(d, clock + 1, kind, plan)
           p == [n EXCEPT !.at = at]
<1>1. ops' = ops \cup {p}
  BY DEF Starts
<1>2. p.plan = plan
  BY DEF NewOp
<1> HIDE DEF p
<1> QED
  BY <1>1, <1>2, TimesGrow, TruthStays DEF TruePlans

LEMMA StepsTrue ==
    ASSUME NEW d \in Device, NEW id \in Nat, NEW k \in Carried, k # "syncMessage", NEW i \in Nat,
           NEW about \in Nat, NEW S, k \in OfMessages => about \in S
    PROVE  TrueStep(ToPeer(d, id, k, i, about), S) /\ TrueStep(ToSelf(d, id, k, i, about), S)
<1>1. /\ IsStep(ToPeer(d, id, k, i, about), Peer(d), d, id, k, "peer", i, about)
      /\ IsStep(ToSelf(d, id, k, i, about), AccountOf[d], d, id, k, "self", i, about)
  BY Addressed
<1>2. k \in OfMessages => Wrapped(k, about, id) \in S
  BY DEF OfMessages, Wrapped
<1> QED
  BY <1>1, <1>2 DEF IsStep, IsMsg, TrueStep

LEMMA OneTrue ==
    ASSUME NEW s, NEW S, TrueStep(s, S)
    PROVE  TruePlan(<<s>>, S)
  BY DEF TruePlan

LEMMA TwoTrue ==
    ASSUME NEW s, NEW t, NEW S, TrueStep(s, S), TrueStep(t, S)
    PROVE  TruePlan(<<s, t>>, S)
  BY DEF TruePlan

LEMMA SendTrue ==
    ASSUME NEW d \in Device, NEW id \in Nat, NEW kind \in Both \cup Notices, NEW about \in Nat,
           NEW S, kind \in {"read", "reaction", "unreact"} => about \in S,
           NEW plan \in Plans(d, id, kind, about)
    PROVE  TruePlan(plan, S)
<1>1. /\ kind \in Carried /\ kind # "syncMessage" /\ 1 \in Nat /\ 0 \in Nat
      /\ kind \in OfMessages => about \in S
  BY KindsCarried DEF Both, Notices, OfMessages
<1> DEFINE p(x) == ToPeer(d, id, kind, 1, x)
           s(x) == ToSelf(d, id, kind, 1, x)
<1>2. ASSUME NEW x \in Nat, kind \in OfMessages => x \in S
      PROVE  TrueStep(p(x), S) /\ TrueStep(s(x), S)
  BY <1>1, <1>2, StepsTrue
<1> HIDE DEF p, s
<1>3. CASE kind = "message"
  <2>1. plan = <<p(0), s(0)>>
    BY <1>3 DEF Plans, MessagePlan, p, s
  <2> QED
    BY <1>1, <1>2, <1>3, <2>1, TwoTrue DEF OfMessages
<1>4. CASE kind \in {"reaction", "unreact"}
  <2>1. plan = <<p(about), s(about)>>
    BY <1>4 DEF Plans, ReactionPlan, p, s
  <2> QED
    BY <1>1, <1>2, <2>1, TwoTrue
<1>5. CASE kind = "call"
  <2>1. PICK sync \in BOOLEAN : plan = CallPlan(d, id, sync)
    BY <1>5 DEF Plans
  <2>2. plan \in {<<p(0)>>, <<s(0)>>}
    BY <1>5, <2>1 DEF CallPlan, p, s
  <2> QED
    BY <1>1, <1>2, <1>5, <2>2, OneTrue DEF OfMessages
<1>6. CASE kind = "read"
  <2>1. plan = <<p(about)>>
    BY <1>6 DEF Plans, ReadPlan, p
  <2> QED
    BY <1>1, <1>2, <2>1, OneTrue
<1>7. CASE kind \in {"typing", "screenshot", "mediaSaved", "accept"}
  <2>1. plan \in {<<p(0)>>, <<p(about)>>}
    BY <1>7 DEF Plans, TypingPlan, NotificationPlan, AcceptPlan, p
  <2> QED
    BY <1>1, <1>2, <1>7, <2>1, OneTrue DEF OfMessages
<1> QED
  BY <1>3, <1>4, <1>5, <1>6, <1>7 DEF Both, Notices

LEMMA UnsendTrue ==
    ASSUME NEW d \in Device, NEW id \in Nat, NEW S \in SUBSET Nat, NEW abouts \in Seq(S)
    PROVE  TruePlan(DeletePlan(d, id, abouts), S)
<1> DEFINE T == {t \in {FromSwarm(d, abouts)}
                        \cup {ToPeer(d, id, "unsend", i, abouts[i]) : i \in DOMAIN abouts}
                        \cup {ToSelf(d, id, "unsend", i, abouts[i]) : i \in DOMAIN abouts} : TrueStep(t, S)}
           f == FromSwarm(d, abouts)
           peers == [i \in DOMAIN abouts |-> ToPeer(d, id, "unsend", i, abouts[i])]
           selves == [i \in DOMAIN abouts |-> ToSelf(d, id, "unsend", i, abouts[i])]
           n == Len(abouts)
<1>1. n \in Nat /\ DOMAIN abouts = 1..n
  OBVIOUS
<1>2. f \in T
  BY DEF FromSwarm, TrueStep
<1>3. ASSUME NEW i \in DOMAIN abouts
      PROVE  TrueStep(ToPeer(d, id, "unsend", i, abouts[i]), S)
             /\ TrueStep(ToSelf(d, id, "unsend", i, abouts[i]), S)
  <2>1. "unsend" \in Carried
    BY KindsCarried
  <2>2. i \in 1..n /\ i \in Nat
    BY <1>1
  <2>3. abouts[i] \in S
    BY <2>2
  <2>4. abouts[i] \in Nat
    BY <2>3
  <2> HIDE DEF T, f, peers, selves, n
  <2> QED
    BY <2>1, <2>2, <2>3, <2>4, StepsTrue
<1>4. peers \in [1..n -> T] /\ selves \in [1..n -> T]
  BY <1>1, <1>3
<1>5. DeletePlan(d, id, abouts) = <<f>> \o (peers \o selves)
  BY DEF DeletePlan, Unsends
<1>6. \A t \in T : TrueStep(t, S)
  OBVIOUS
<1> HIDE DEF T, f, peers, selves, n
<1>7. peers \in Seq(T) /\ selves \in Seq(T) /\ <<f>> \in Seq(T)
  BY <1>1, <1>2, <1>4
<1>8. <<f>> \o (peers \o selves) \in Seq(T)
  BY <1>7, Concatenation
<1> QED
  BY <1>5, <1>6, <1>8 DEF TruePlan

LEMMA ConfigTrue ==
    ASSUME NEW d, NEW id, NEW S
    PROVE  TruePlan(ConfigPlan(d, id), S)
<1> DEFINE m == Msg(id, AccountOf[d], "config", "self", 1, 0, profile[d])
<1>1. m.kind = "config"
  BY DEF Msg
<1> HIDE DEF m
<1>2. StoreStep(AccountOf[d], m).msg = m
  BY DEF StoreStep
<1>3. ConfigPlan(d, id) = <<StoreStep(AccountOf[d], m)>>
  BY DEF ConfigPlan, m
<1>4. TrueStep(StoreStep(AccountOf[d], m), S)
  BY <1>1, <1>2 DEF TrueStep, OfMessages
<1> QED
  BY <1>3, <1>4, OneTrue

\* Of what a poll has in hand a message is either new or yet to be looked at, and is so once.
Took(o, h) == \E m \in Range(o.fresh) : m.hash = h
InHand(o) ==
    /\ Distinct(o.fresh)
    /\ \A m \in Range(o.got) : ~Took(o, m.hash)
    /\ ~Ended(o) /\ o.at \notin {"received", "marking"} => o.fresh = <<>>

\* A poll that takes a message, or is about to, was called before each other one was done
\* that took it too.
Wants(o, h)  == Took(o, h) \/ (o.at = "marking" /\ h = Head(o.got).hash)
InTime(o, p) == \A h : Took(o, h) /\ Wants(p, h) /\ Ended(o) => p.id <= o.until

Polls == /\ \A o \in ops : InHand(o)
         /\ \A o, p \in ops : o # p /\ o.dev = p.dev => InTime(o, p)
         /\ \A d \in Device : \A h \in seen[d] : \E o \in ops : o.dev = d /\ Took(o, h)

\* What a Session has emitted: events of what a poll had taken by then, each once by each
\* poll; and of all it had taken, if the poll went through.
ToldBy(d, t) == \E o \in ops : /\ o.dev = d /\ o.id = t.by /\ Ended(o)
                               /\ \E m \in Range(o.fresh) : m.kind # "config" /\ t.event = EventFor(m)
Told(d) ==
    /\ \A i \in 1..Len(events[d]) : ToldBy(d, events[d][i])
    /\ \A i, j \in 1..Len(events[d]) :
         events[d][i].by = events[d][j].by /\ events[d][i].event.hash = events[d][j].event.hash => i = j
    /\ \A o \in ops : o.dev = d /\ o.at = "resolved" =>
         \A m \in Range(o.fresh) :
            m.kind # "config" => \E i \in 1..Len(events[d]) : events[d][i].event = EventFor(m)

EventsTold == Once /\ TruePlans /\ FreshSeen /\ Polls /\ \A d \in Device : Told(d)

\* An event of a message that is in the box of the account.
ShownAs(d, e) == \E m \in Range(box[AccountOf[d]]) : e = EventFor(m)

LEMMA MessageEventOf ==
    ASSUME Typed, Origin, TruePlans, NEW a \in Account, NEW m \in Range(box[a])
    PROVE  /\ m \in Message
           /\ EventOf(m) \in Range(EventOrder) <=> m.kind # "config"
           /\ EventOf(m) = "syncMessage" => m.from = a
           /\ EventOf(m) = "message" => m.from # a /\ m.ts \in Times("message")
           /\ EventOf(m) \in OfMessages => m.about \in Times("message")
<1>1. PICK o \in ops : \E k : Sends(o, k, a, m)
  BY DEF Origin
<1>2. PICK k : Sends(o, k, a, m)
  BY <1>1
<1>3. o.plan # <<>>
  BY <1>2, OpPlan DEF Sends
<1>4. PlanFor(o.dev, o.id, o.kind, clock, o.plan)
  BY <1>3, OpPlan
<1>5. StoreFor(o.dev, o.id, o.kind, o.plan[k]) /\ o.plan[k].msg = m /\ o.plan[k].to = a
  BY <1>2, <1>4 DEF Sends, PlanFor, StepFor
<1>6. m.kind # "syncMessage" /\ (m.kind \in OfMessages => m.about \in Times("message"))
  BY <1>2, <1>5 DEF TruePlans, TruePlan, TrueStep, Sends
<1>7. m \in Message /\ m.kind \in Carried
  BY <1>5 DEF StoreFor, Message
<1>8. m.sync => m.kind \in Both /\ m.from = a
  BY <1>5 DEF StoreFor
<1>9. EventOf(m) = "syncMessage" => m.from = a
  BY <1>6, <1>8 DEF EventOf
<1>10. EventOf(m) \in Range(EventOrder) <=> m.kind # "config"
  <2>1. "syncMessage" \in Range(EventOrder) /\ "config" \notin Range(EventOrder)
    BY KindsCarried
  <2>2. CASE m.sync
    BY <1>8, <2>1, <2>2 DEF EventOf, Both
  <2>3. CASE ~m.sync
    BY <1>7, <2>1, <2>3 DEF EventOf, Carried
  <2> QED
    BY <2>2, <2>3
<1>11. ASSUME EventOf(m) = "message"
       PROVE  m.from # a /\ m.ts \in Times("message")
  <2>1. ~m.sync /\ m.kind = "message"
    BY <1>11 DEF EventOf
  <2>2. m.from # a /\ m.ts = o.id /\ o.kind = "message"
    BY <1>5, <2>1 DEF StoreFor
  <2> QED
    BY <2>2 DEF Times
<1>12. ASSUME EventOf(m) \in OfMessages
       PROVE  m.about \in Times("message")
  <2>1. ~m.sync /\ m.kind \in OfMessages
    BY <1>12 DEF EventOf, OfMessages
  <2> QED
    BY <1>6, <2>1
<1> QED
  BY <1>7, <1>9, <1>10, <1>11, <1>12

LEMMA EventsTrue ==
    ASSUME Typed, Origin, TruePlans, NEW d \in Device, NEW e, ShownAs(d, e)
    PROVE  EventIsTrue(d, e)
<1>1. PICK m \in Range(box[AccountOf[d]]) : e = EventFor(m)
  BY DEF ShownAs
<1>2. AccountOf[d] \in Account
  BY PeerIsAnother
<1>3. m \in Message /\ (EventOf(m) = "syncMessage" => m.from = AccountOf[d])
  BY <1>2, MessageEventOf
<1>4. /\ EventOf(m) = "message" => m.from # AccountOf[d] /\ m.ts \in Times("message")
      /\ EventOf(m) \in OfMessages => m.about \in Times("message")
  BY <1>2, MessageEventOf
<1>5. /\ e.kind = EventOf(m) /\ e.from = m.from
      /\ EventOf(m) \in {"message", "syncMessage"} => e.about = m.ts
      /\ EventOf(m) \notin {"message", "syncMessage", "call"} => e.about = m.about
  <2>1. m \in Message
    BY <1>3
  <2> QED
    BY <1>1, <2>1, EventForMessage
<1> QED
  BY <1>3, <1>4, <1>5 DEF EventIsTrue, OfMessages

\* The order of the events in a batch: every message that has one, and each one's own.
LEMMA OrderInjective ==
    ASSUME NEW i \in DOMAIN EventOrder, NEW j \in DOMAIN EventOrder, EventOrder[i] = EventOrder[j]
    PROVE  i = j
  BY DEF EventOrder

LEMMA MessagesChosen ==
    ASSUME NEW batch \in Seq(Message), NEW S
    PROVE  LET ms == Filtered(batch, S)
           IN  /\ ms \in Seq(Message)
               /\ \A i \in 1..Len(ms) : ms[i] \in S
               /\ \A i \in 1..Len(batch) :
                    batch[i] \in S => \E j \in 1..Len(ms) : ms[j] = batch[i]
  BY FilteredElements, SMTT(30)

LEMMA EventsOfElements ==
    ASSUME NEW batch \in Seq(Message), NEW k \in DOMAIN EventOrder, Distinct(batch)
    PROVE  /\ Len(EventsOf(batch, k)) \in Nat
           /\ \A i \in 1..Len(EventsOf(batch, k)) :
                \E m \in Range(batch) : /\ EventOf(m) = EventOrder[k]
                                        /\ EventsOf(batch, k)[i] = EventFor(m)
           /\ \A m \in Range(batch) :
                EventOf(m) = EventOrder[k] =>
                    \E i \in 1..Len(EventsOf(batch, k)) : EventsOf(batch, k)[i] = EventFor(m)
           /\ Distinct(EventsOf(batch, k))
<1> DEFINE S  == {m \in Range(batch) : EventOf(m) = EventOrder[k]}
           ms == Filtered(batch, S)
           E  == EventsOf(batch, k)
<1> HIDE DEF S
<1>1. /\ ms \in Seq(Message)
      /\ \A i \in 1..Len(ms) : ms[i] \in S
      /\ \A i \in 1..Len(batch) : batch[i] \in S => \E j \in 1..Len(ms) : ms[j] = batch[i]
  BY MessagesChosen
<1>2. Distinct(ms)
  BY FilteredDistinct
<1>3. E = [i \in DOMAIN ms |-> EventFor(ms[i])]
  BY DEF EventsOf, S
<1>a. \A m : m \in S <=> m \in Range(batch) /\ EventOf(m) = EventOrder[k]
  BY DEF S
<1> HIDE DEF ms, E
<1>4. DOMAIN ms = 1..Len(ms) /\ Len(ms) \in Nat
  BY <1>1
<1>5. E \in [1..Len(ms) -> {EventFor(ms[i]) : i \in 1..Len(ms)}]
  BY <1>3, <1>4
<1>6. Len(E) = Len(ms) /\ \A i \in 1..Len(ms) : E[i] = EventFor(ms[i])
  BY <1>3, <1>4, <1>5
<1>7. ASSUME NEW i \in 1..Len(E)
      PROVE  \E m \in Range(batch) : EventOf(m) = EventOrder[k] /\ E[i] = EventFor(m)
  BY <1>1, <1>6, <1>a
<1>8. ASSUME NEW m \in Range(batch), EventOf(m) = EventOrder[k]
      PROVE  \E i \in 1..Len(E) : E[i] = EventFor(m)
  <2>1. PICK j \in 1..Len(batch) : m = batch[j]
    BY DEF Range
  <2>2. m \in S
    BY <1>8, <1>a
  <2>3. PICK i \in 1..Len(ms) : ms[i] = m
    BY <1>1, <2>1, <2>2
  <2> QED
    BY <1>6, <2>3
<1>9. ASSUME NEW i \in 1..Len(E), NEW j \in 1..Len(E), E[i].hash = E[j].hash
      PROVE  i = j
  <2>1. ms[i] \in Message /\ ms[j] \in Message
    BY <1>1, <1>6
  <2>2. E[i].hash = ms[i].hash /\ E[j].hash = ms[j].hash
    BY <1>6, <2>1, EventForMessage
  <2> QED
    BY <1>2, <1>6, <1>9, <2>2 DEF Distinct
<1>10. Distinct(E)
  BY <1>9 DEF Distinct
<1>11. Len(E) \in Nat
  BY <1>4, <1>6
<1> QED
  BY <1>7, <1>8, <1>10, <1>11 DEF E

LEMMA EmittedElements ==
    ASSUME NEW batch \in Seq(Message), Distinct(batch)
    PROVE  /\ \A i \in 1..Len(Emitted(batch)) :
                \E m \in Range(batch) : /\ EventOf(m) \in Range(EventOrder)
                                        /\ Emitted(batch)[i] = EventFor(m)
           /\ \A m \in Range(batch) :
                EventOf(m) \in Range(EventOrder) =>
                    \E i \in 1..Len(Emitted(batch)) : Emitted(batch)[i] = EventFor(m)
           /\ Distinct(Emitted(batch))
<1> DEFINE ss == [k \in DOMAIN EventOrder |-> EventsOf(batch, k)]
           E == Emitted(batch)
<1>1. ss \in Seq(Seq(Event)) /\ E = FlattenSeq(ss) /\ E \in Seq(Event)
  BY EmittedTyped
<1>2. DOMAIN EventOrder = 1..11
  BY DEF EventOrder
<1>3. Len(ss) = 11 /\ \A k \in 1..11 : ss[k] = EventsOf(batch, k)
  <2>1. ss \in [1..11 -> {EventsOf(batch, k) : k \in 1..11}]
    BY <1>2
  <2> QED
    BY <1>2, <2>1
<1> HIDE DEF ss, E
<1>4. Joins(ss, E, 11)
  BY <1>1, <1>3, FlattenElements
<1>5. ASSUME NEW k \in 1..11
      PROVE  /\ \A i \in 1..Len(ss[k]) :
                   \E m \in Range(batch) : EventOf(m) = EventOrder[k] /\ ss[k][i] = EventFor(m)
             /\ \A m \in Range(batch) :
                   EventOf(m) = EventOrder[k] => \E i \in 1..Len(ss[k]) : ss[k][i] = EventFor(m)
             /\ Distinct(ss[k])
  <2>1. k \in DOMAIN EventOrder /\ ss[k] = EventsOf(batch, k)
    BY <1>2, <1>3
  <2>2. /\ \A i \in 1..Len(EventsOf(batch, k)) :
                \E m \in Range(batch) : /\ EventOf(m) = EventOrder[k]
                                        /\ EventsOf(batch, k)[i] = EventFor(m)
        /\ \A m \in Range(batch) :
                EventOf(m) = EventOrder[k] =>
                    \E i \in 1..Len(EventsOf(batch, k)) : EventsOf(batch, k)[i] = EventFor(m)
        /\ Distinct(EventsOf(batch, k))
    BY <2>1, EventsOfElements
  <2> QED
    BY <2>1, <2>2
<1>6. ASSUME NEW i \in 1..Len(E)
      PROVE  \E m \in Range(batch) : EventOf(m) \in Range(EventOrder) /\ E[i] = EventFor(m)
  <2>1. PICK k \in 1..11 : \E a \in 1..Len(ss[k]) : E[i] = ss[k][a]
    BY <1>4 DEF Joins
  <2>2. PICK a \in 1..Len(ss[k]) : E[i] = ss[k][a]
    BY <2>1
  <2>3. PICK m \in Range(batch) : EventOf(m) = EventOrder[k] /\ ss[k][a] = EventFor(m)
    BY <1>5, <2>2
  <2>4. EventOrder[k] \in Range(EventOrder)
    BY <1>2 DEF Range
  <2> QED
    BY <2>2, <2>3, <2>4
<1>7. ASSUME NEW m \in Range(batch), EventOf(m) \in Range(EventOrder)
      PROVE  \E i \in 1..Len(E) : E[i] = EventFor(m)
  <2>1. PICK k \in 1..11 : EventOf(m) = EventOrder[k]
    BY <1>2, <1>7 DEF Range
  <2>2. PICK a \in 1..Len(ss[k]) : ss[k][a] = EventFor(m)
    BY <1>5, <2>1
  <2> QED
    <3>1. PICK i \in 1..Len(E) : E[i] = ss[k][a]
      BY <1>4 DEF Joins
    <3> QED
      BY <2>2, <3>1
<1>8. ASSUME NEW k \in 1..Len(E), NEW l \in 1..Len(E), k < l
      PROVE  E[k].hash # E[l].hash
  <2>1. PICK i \in 1..11, j \in 1..11 :
           \E a \in 1..Len(ss[i]), b \in 1..Len(ss[j]) :
              /\ E[k] = ss[i][a] /\ E[l] = ss[j][b]
              /\ i < j \/ (i = j /\ a < b)
    BY <1>4, <1>8, ZenonT(60) DEF Joins, InTurn
  <2>2. PICK a \in 1..Len(ss[i]), b \in 1..Len(ss[j]) :
              /\ E[k] = ss[i][a] /\ E[l] = ss[j][b]
              /\ i < j \/ (i = j /\ a < b)
    BY <2>1
  <2>3. CASE i = j
    <3>1. a # b
      BY <2>2, <2>3
    <3>2. Distinct(ss[i])
      BY <1>5
    <3> QED
      BY <2>2, <2>3, <3>1, <3>2 DEF Distinct
  <2>4. CASE i # j
    <3>1. PICK m \in Range(batch) : EventOf(m) = EventOrder[i] /\ ss[i][a] = EventFor(m)
      BY <1>5
    <3>2. PICK n \in Range(batch) : EventOf(n) = EventOrder[j] /\ ss[j][b] = EventFor(n)
      BY <1>5
    <3>3. m # n
      BY <1>2, <2>4, <3>1, <3>2, OrderInjective
    <3>4. m.hash # n.hash
      BY <3>3 DEF Distinct, Range
    <3>5. m \in Message /\ n \in Message
      BY DEF Range
    <3>6. EventFor(m).hash = m.hash /\ EventFor(n).hash = n.hash
      BY <3>5, EventForMessage
    <3> QED
      BY <2>2, <3>1, <3>2, <3>4, <3>6
  <2> QED
    BY <2>3, <2>4
<1>9. Distinct(E)
  <2>1. Len(E) \in Nat
    BY <1>1
  <2>2. ASSUME NEW k \in 1..Len(E), NEW l \in 1..Len(E), E[k].hash = E[l].hash
        PROVE  k = l
    BY <1>8, <2>1, <2>2
  <2> QED
    BY <2>2 DEF Distinct
<1> QED
  BY <1>6, <1>7, <1>9 DEF E

\* What is told is of the box.
LEMMA ToldIsShown ==
    ASSUME FreshSeen, NEW d, NEW t, ToldBy(d, t)
    PROVE  ShownAs(d, t.event)
  BY DEF ToldBy, ShownAs, FreshSeen

\* What a step makes of an operation, as to what it takes: new messages are those it was
\* about to mark, and what it is about to mark was not seen.
Inherits(o, p) ==
    /\ p.dev = o.dev /\ p.id = o.id
    /\ \A h : Took(o, h) => Took(p, h)
    /\ \A h : Took(p, h) => Wants(o, h)
    /\ \A h : Wants(p, h) => Wants(o, h) \/ h \notin seen[o.dev]
    /\ Ended(p) => p.fresh = o.fresh /\ (p = o \/ p.until = clock)

LEMMA InheritsItself == \A o : Inherits(o, o)
  BY DEF Inherits, Wants

LEMMA GoesInherits ==
    ASSUME NEW o \in ops, InHand(o), NEW p, Goes(o, p), p # o
    PROVE  /\ Inherits(o, p) \/ (p.fresh = <<>> /\ p.at # "marking")
           /\ InHand(o) /\ Distinct(p.got) => InHand(p)
           /\ \A h : Took(o, h) => Took(p, h)
<1>1. \A h : Took(p, h) <=> Took(o, h)
  BY DEF Goes, Took
<1>2. CASE ~Ended(o) /\ p.at = "lost" /\ p.got = <<>> /\ p.until = clock
  <2>1. \A h : Wants(p, h) => Wants(o, h)
    BY <1>1, <1>2 DEF Wants
  <2>2. Inherits(o, p)
    BY <1>1, <1>2, <2>1 DEF Inherits, Goes, Wants
  <2>3. InHand(p)
    BY <1>1, <1>2, NothingGot DEF InHand, Goes, Ended
  <2> QED
    BY <1>1, <2>2, <2>3
<1>3. CASE ~Ended(o) /\ o.at \notin {"received", "marking"} /\ p.at # "marking"
  <2>1. o.fresh = <<>> /\ p.fresh = <<>>
    BY <1>3 DEF InHand, Goes
  <2>2. \A h : ~Took(p, h)
    BY <2>1, NothingGot DEF Took
  <2> QED
    BY <1>1, <1>3, <2>1, <2>2, NothingDistinct DEF InHand
<1> QED
  BY <1>2, <1>3 DEF Goes

LEMMA StartingInHand ==
    ASSUME NEW p, Starting(p)
    PROVE  InHand(p) /\ p.fresh = <<>> /\ p.at # "marking"
  BY NothingDistinct, NothingGot DEF Starting, InHand, Took

LEMMA CheckedInherits ==
    ASSUME Typed, NEW o \in ops, HasSeen(o), InHand(o)
    PROVE  /\ Becomes(o, Checked(o)) /\ Inherits(o, Checked(o)) /\ InHand(Checked(o))
           /\ ~Ended(o) /\ Checked(o).at # "resolved"
<1> DEFINE p == Checked(o)
<1>1. Becomes(o, p) /\ o.at = "received" /\ o.got # <<>> /\ o.got \in Seq(Message)
  BY TypedFacts, OpFields DEF HasSeen, Checked
<1>2. /\ Same(o, p)
      /\ \/ p.at = "received" /\ p.got = Tail(o.got)
         \/ p.at = "marking" /\ p.got = o.got /\ Head(o.got).hash \notin seen[o.dev]
  BY CheckedOp
<1> HIDE DEF p
<1>3. \A h : Took(p, h) <=> Took(o, h)
  BY <1>2 DEF Same, Took
<1>4. Range(p.got) \subseteq Range(o.got)
  BY <1>1, <1>2, HeadAndTail
<1>5. ~Ended(p) /\ p.at \in {"received", "marking"} /\ ~Ended(o)
  BY <1>1, <1>2 DEF Ended
<1>6. \A h : Wants(p, h) => Wants(o, h) \/ h \notin seen[o.dev]
  BY <1>2, <1>3 DEF Wants
<1>7. Inherits(o, p)
  BY <1>2, <1>3, <1>5, <1>6 DEF Inherits, Same, Wants
<1>8. InHand(p)
  BY <1>2, <1>3, <1>4, <1>5 DEF InHand, Same
<1> QED
  BY <1>1, <1>5, <1>7, <1>8 DEF p

LEMMA MarkedInherits ==
    ASSUME Typed, NEW o \in ops, MarkSeen(o), InHand(o), Distinct(o.got)
    PROVE  /\ Becomes(o, Marked(o)) /\ Inherits(o, Marked(o)) /\ InHand(Marked(o))
           /\ Took(Marked(o), Head(o.got).hash) /\ ~Ended(o) /\ Marked(o).at # "resolved"
<1> DEFINE p == Marked(o)
           x == Head(o.got)
<1>1. Becomes(o, p) /\ o.at = "marking"
  BY DEF MarkSeen, Marked
<1>2. /\ Alike(o, p) /\ p.at = "received" /\ p.got = Tail(o.got) /\ p.fresh = Append(o.fresh, x)
      /\ o.got # <<>> /\ o.got \in Seq(Message) /\ o.fresh \in Seq(Message)
  BY MarkedOp
<1>3. x \in Message /\ Range(o.got) = {x} \cup Range(Tail(o.got))
  BY <1>2, HeadAndTail
<1> HIDE DEF p, x
<1>4. Range(p.fresh) = Range(o.fresh) \cup {x}
  BY <1>2, <1>3, RangeAppend
<1>5. \A h : Took(p, h) <=> Took(o, h) \/ h = x.hash
  BY <1>4 DEF Took
<1>6. ~Ended(p) /\ ~Ended(o)
  BY <1>1, <1>2 DEF Ended
<1>7. Inherits(o, p)
  BY <1>1, <1>2, <1>5, <1>6 DEF Inherits, Alike, Wants, x
<1>8. \A m \in Range(o.fresh) : m.hash # x.hash
  BY <1>3 DEF InHand, Took
<1>9. Distinct(p.fresh)
  BY <1>2, <1>3, <1>8, AppendDistinct DEF InHand
<1>10. \A m \in Range(p.got) : m.hash # x.hash
  BY <1>2, TailDistinct DEF x
<1>11. InHand(p)
  BY <1>2, <1>3, <1>5, <1>9, <1>10 DEF InHand
<1> QED
  BY <1>1, <1>2, <1>5, <1>6, <1>7, <1>11 DEF p, x

LEMMA DoneInherits ==
    ASSUME Typed, NEW o \in ops, InHand(o), o.at = "received", NEW at \in {"resolved", "rejected"}
    PROVE  Inherits(o, Done(o, at)) /\ InHand(Done(o, at)) /\ ~Ended(o)
<1> DEFINE p == Done(o, at)
<1>1. Alike(o, p) /\ Blank(p) /\ p.at = at /\ p.fresh = o.fresh /\ p.until = clock
  BY TypedFacts, DoneOp DEF At
<1> HIDE DEF p
<1>2. \A h : Took(p, h) <=> Took(o, h)
  BY <1>1 DEF Took
<1>3. Inherits(o, p)
  BY <1>1, <1>2 DEF Inherits, Alike, Wants
<1>4. InHand(p)
  BY <1>1, <1>2, NothingGot DEF InHand, Blank, Ended
<1> QED
  BY <1>3, <1>4 DEF p, Ended

\* Every operation there is after a step.
LEMMA NextInherits ==
    ASSUME Typed, Once, Once', Polls, [Next]_vars, NEW p \in ops'
    PROVE  /\ InHand(p)
           /\ (\E o \in ops : Inherits(o, p)) \/ (p.fresh = <<>> /\ p.at # "marking")
<1>1. \A o \in ops : InHand(o) /\ Distinct(o.got)
  BY DEF Polls, Once
<1>2. Distinct(p.got)
  BY DEF Once
<1>3. ASSUME NEW o \in ops, NEW q, Becomes(o, q), Inherits(o, q), InHand(q)
      PROVE  /\ InHand(p)
             /\ \E x \in ops : Inherits(x, p)
  BY <1>1, <1>3, InheritsItself DEF Becomes
<1>4. CASE Quiet
  <2>1. CASE Starting(p)
    BY <2>1, StartingInHand
  <2>2. CASE \E o \in ops : Goes(o, p)
    BY <1>1, <1>2, <2>2, GoesInherits, InheritsItself
  <2> QED
    BY <1>4, <2>1, <2>2 DEF Quiet
<1>5. CASE \E o \in ops : HasSeen(o)
  BY <1>1, <1>3, <1>5, CheckedInherits
<1>6. CASE \E o \in ops : MarkSeen(o)
  BY <1>1, <1>3, <1>6, MarkedInherits
<1>7. ASSUME NEW o \in ops, Emits(o)
      PROVE  InHand(p) /\ \E x \in ops : Inherits(x, p)
  <2>1. PICK at \in {"resolved", "rejected"} : Becomes(o, Done(o, at))
    BY <1>7, EmitsHow DEF EmitsAs
  <2>2. o.at = "received"
    BY <1>7, EmitsHow
  <2> QED
    BY <1>1, <1>3, <2>1, <2>2, DoneInherits
<1> QED
  BY <1>4, <1>5, <1>6, <1>7, NextHears

\* Every operation there was: what it took is kept, and if it was done it stays.
LEMMA TakenStays ==
    ASSUME Typed, Once, Polls, [Next]_vars, NEW o \in ops
    PROVE  /\ \E p \in ops' : p.dev = o.dev /\ \A h : Took(o, h) => Took(p, h)
           /\ Ended(o) => o \in ops'
<1>1. \A q \in ops : InHand(q) /\ Distinct(q.got)
  BY DEF Polls, Once
<1>2. ASSUME NEW q \in ops, NEW p, Becomes(q, p), Inherits(q, p), ~Ended(q)
      PROVE  /\ \E x \in ops' : x.dev = o.dev /\ \A h : Took(o, h) => Took(x, h)
             /\ Ended(o) => o \in ops'
  BY <1>2 DEF Becomes, Inherits
<1>3. CASE Quiet
  <2>1. PICK p \in ops' : Goes(o, p)
    BY <1>3 DEF Quiet
  <2>2. p.dev = o.dev /\ (Ended(o) => p = o)
    BY <2>1 DEF Goes
  <2>3. \A h : Took(o, h) => Took(p, h)
    BY <2>1 DEF Goes, Took
  <2> QED
    BY <2>2, <2>3
<1>4. CASE \E q \in ops : HasSeen(q)
  BY <1>1, <1>2, <1>4, CheckedInherits
<1>5. CASE \E q \in ops : MarkSeen(q)
  BY <1>1, <1>2, <1>5, MarkedInherits
<1>6. ASSUME NEW q \in ops, Emits(q)
      PROVE  /\ \E x \in ops' : x.dev = o.dev /\ \A h : Took(o, h) => Took(x, h)
             /\ Ended(o) => o \in ops'
  <2>1. PICK at \in {"resolved", "rejected"} : Becomes(q, Done(q, at))
    BY <1>6, EmitsHow DEF EmitsAs
  <2>2. q.at = "received"
    BY <1>6, EmitsHow
  <2> QED
    BY <1>1, <1>2, <2>1, <2>2, DoneInherits
<1> QED
  BY <1>3, <1>4, <1>5, <1>6, NextHears

\* Whoever is done was not before every operation was called that takes what it took.
LEMMA InTimeKept ==
    ASSUME Typed, Typed', Once, Once', FreshSeen, Polls, [Next]_vars,
           NEW p \in ops', NEW q \in ops', p # q, p.dev = q.dev
    PROVE  InTime(p, q)
<1> SUFFICES ASSUME NEW h, Took(p, h), Wants(q, h), Ended(p)
             PROVE  q.id <= p.until
  BY DEF InTime
<1>1. PICK o \in ops : Inherits(o, p)
  BY NextInherits, NothingGot DEF Took
<1>2. PICK r \in ops : Inherits(r, q)
  BY NextInherits, NothingGot DEF Took, Wants
<1>3. p.id # q.id
  BY DEF Typed
<1>4. o # r /\ o.dev = r.dev /\ q.id = r.id
  BY <1>1, <1>2, <1>3 DEF Inherits
<1>5. r.id \in 1..clock /\ clock \in Nat
  BY TypedFacts DEF OpOK
<1>6. CASE p.until = clock
  BY <1>4, <1>5, <1>6
<1>7. CASE p = o
  <2>1. Took(o, h) /\ Ended(o)
    BY <1>7
  <2>2. h \in seen[r.dev]
    BY <1>4, <2>1 DEF FreshSeen, Took
  <2>3. Wants(r, h)
    BY <1>2, <2>2 DEF Inherits
  <2>4. InTime(o, r)
    BY <1>4 DEF Polls
  <2>5. r.id <= o.until
    BY <2>1, <2>3, <2>4 DEF InTime
  <2> QED
    BY <1>4, <1>7, <2>5
<1> QED
  BY <1>1, <1>6, <1>7 DEF Inherits

LEMMA SeenIsTaken ==
    ASSUME Typed, Once, Polls, [Next]_vars, NEW d \in Device, NEW h \in seen'[d]
    PROVE  \E p \in ops' : p.dev = d /\ Took(p, h)
<1>1. seen \in [Device -> SUBSET Hash]
  BY DEF Typed, StateTypes
<1>2. CASE h \in seen[d]
  <2>1. PICK o \in ops : o.dev = d /\ Took(o, h)
    BY <1>2 DEF Polls
  <2> QED
    BY <2>1, TakenStays
<1>3. CASE h \notin seen[d]
  <2>1. ASSUME NEW o \in ops, HasSeen(o) \/ Emits(o)
        PROVE  seen' = seen
    BY <2>1, EmitsHow DEF HasSeen, userVars
  <2>2. PICK o \in ops : MarkSeen(o)
    BY <1>3, <2>1, NextHears DEF Quiet
  <2>3. seen' = [seen EXCEPT ![o.dev] = seen[o.dev] \cup {Head(o.got).hash}]
    BY <2>2 DEF MarkSeen
  <2>4. o.dev = d /\ h = Head(o.got).hash
    BY <1>1, <1>3, <2>3
  <2>5. InHand(o) /\ Distinct(o.got)
    BY DEF Polls, Once
  <2>6. Becomes(o, Marked(o)) /\ Inherits(o, Marked(o)) /\ Took(Marked(o), h)
    BY <2>2, <2>4, <2>5, MarkedInherits
  <2> QED
    BY <2>4, <2>6 DEF Becomes, Inherits
<1> QED
  BY <1>2, <1>3

LEMMA PollsKept ==
    ASSUME Typed, Typed', Once, Once', FreshSeen, Polls, [Next]_vars
    PROVE  Polls'
<1>1. \A p \in ops' : InHand(p)
  BY NextInherits
<1>2. \A p, q \in ops' : p # q /\ p.dev = q.dev => InTime(p, q)
  BY InTimeKept
<1>3. \A d \in Device : \A h \in seen'[d] : \E p \in ops' : p.dev = d /\ Took(p, h)
  BY SeenIsTaken
<1> QED
  BY <1>1, <1>2, <1>3 DEF Polls, InHand, InTime, Took, Wants, Ended

\* A Session that tells nothing.
LEMMA QuietTold ==
    ASSUME Typed, Once, Polls, [Next]_vars, NEW d \in Device, Told(d), events'[d] = events[d],
           \A p \in ops' : p.dev = d /\ p.at = "resolved" => p \in ops \/ p.fresh = <<>>
    PROVE  Told(d)'
<1>1. ASSUME NEW t, ToldBy(d, t)
      PROVE  ToldBy(d, t)'
  <2>1. PICK o \in ops : /\ o.dev = d /\ o.id = t.by /\ Ended(o)
                         /\ \E m \in Range(o.fresh) : m.kind # "config" /\ t.event = EventFor(m)
    BY <1>1 DEF ToldBy
  <2>2. o \in ops'
    BY <2>1, TakenStays
  <2> QED
    BY <2>1, <2>2 DEF ToldBy, Ended
<1>2. \A p \in ops' : p.dev = d /\ p.at = "resolved" =>
         \A m \in Range(p.fresh) :
            m.kind # "config" => \E i \in 1..Len(events[d]) : events[d][i].event = EventFor(m)
  BY NothingGot DEF Told
<1> QED
  BY <1>1, <1>2 DEF Told

\* The events of a poll are of what it has taken, each once.
LEMMA EmittedOfFresh ==
    ASSUME Typed, Origin, EventsTold, NEW o \in ops
    PROVE  LET es == Emitted(o.fresh)
           IN  /\ \A i \in 1..Len(es) :
                    \E m \in Range(o.fresh) : m.kind # "config" /\ es[i] = EventFor(m)
               /\ \A m \in Range(o.fresh) :
                    m.kind # "config" => \E i \in 1..Len(es) : es[i] = EventFor(m)
               /\ Distinct(es) /\ es \in Seq(Event)
<1> DEFINE batch == o.fresh
           es == Emitted(batch)
<1>1. batch \in Seq(Message) /\ AccountOf[o.dev] \in Account
  BY TypedFacts, OpFields
<1>2. Distinct(batch) /\ \A m \in Range(batch) : m \in Range(box[AccountOf[o.dev]])
  BY DEF EventsTold, Polls, InHand, FreshSeen
<1> HIDE DEF batch, es
<1>3. \A m \in Range(batch) : EventOf(m) \in Range(EventOrder) <=> m.kind # "config"
  BY <1>1, <1>2, MessageEventOf DEF EventsTold
<1>4. /\ \A i \in 1..Len(es) :
           \E m \in Range(batch) : EventOf(m) \in Range(EventOrder) /\ es[i] = EventFor(m)
      /\ \A m \in Range(batch) :
           EventOf(m) \in Range(EventOrder) => \E i \in 1..Len(es) : es[i] = EventFor(m)
      /\ Distinct(es)
  BY <1>1, <1>2, EmittedElements DEF es
<1>5. es \in Seq(Event)
  BY <1>1, EmittedTyped DEF es
<1> QED
  BY <1>3, <1>4, <1>5 DEF es, batch

\* What a poll tells when it is done, all of it or as far as a listener let it.
LEMMA EmitsTold ==
    ASSUME Typed, Typed', Origin, EventsTold, [Next]_vars, NEW o \in ops, Emits(o)
    PROVE  Told(o.dev)'
<1> DEFINE d == o.dev
           es == Emitted(o.fresh)
           E == events[d]
<1>1. PICK k \in 0..Len(es), at \in {"resolved", "rejected"} :
         EmitsAs(o, k, at) /\ (at = "resolved" => k = Len(es))
  BY EmitsHow
<1> DEFINE p == Done(o, at)
<1>2. Becomes(o, p) /\ Tells(o, k) /\ o.at = "received"
  BY <1>1, EmitsHow DEF EmitsAs
<1>3. Alike(o, p) /\ p.at = at /\ p.fresh = o.fresh
  BY TypedFacts, DoneOp DEF At
<1>4. /\ \A i \in 1..Len(es) : \E m \in Range(o.fresh) : m.kind # "config" /\ es[i] = EventFor(m)
      /\ \A m \in Range(o.fresh) : m.kind # "config" => \E i \in 1..Len(es) : es[i] = EventFor(m)
      /\ Distinct(es) /\ es \in Seq(Event)
  BY EmittedOfFresh
<1>5. PICK G : G = events'[d]
  OBVIOUS
<1>6. /\ Len(G) = Len(E) + k /\ Len(E) \in Nat
      /\ \A i \in 1..Len(E) : G[i] = E[i]
      /\ \A i \in 1..k : G[i + Len(E)] = [event |-> es[i], by |-> o.id]
  BY <1>2, <1>5, TellsTyped
<1>7. Told(d) /\ d \in Device /\ Once /\ Polls
  BY TypedFacts DEF EventsTold
<1>8. Len(es) \in Nat
  BY <1>4
<1> HIDE DEF es, p, E, d
<1>9. p \in ops' /\ \A q \in ops' : q = p \/ q \in ops \ {o}
  BY <1>2 DEF Becomes
<1>10. p.dev = d /\ p.id = o.id /\ Ended(p) /\ ~Ended(o)
  BY <1>2, <1>3 DEF Alike, Ended, d
<1>11. ASSUME NEW i \in 1..Len(G)
       PROVE  \/ i \in 1..Len(E) /\ G[i] = E[i]
              \/ /\ i - Len(E) \in 1..k /\ G[i].event = es[i - Len(E)] /\ G[i].by = o.id
  <2> DEFINE j == i - Len(E)
  <2>1. i \in 1..Len(E) \/ (j \in 1..k /\ j + Len(E) = i)
    BY <1>6, <1>8
  <2>2. CASE i \in 1..Len(E)
    BY <1>6, <2>2
  <2>3. CASE j \in 1..k /\ j + Len(E) = i
    <3> HIDE DEF j
    <3>1. G[i] = [event |-> es[j], by |-> o.id]
      BY <1>6, <2>3
    <3>2. G[i].event = es[j] /\ G[i].by = o.id
      BY <3>1
    <3> QED
      BY <2>3, <3>2 DEF j
  <2> QED
    BY <2>1, <2>2, <2>3
<1>12. ASSUME NEW i \in 1..Len(E), NEW t, t = E[i]
       PROVE  t.by # o.id /\ ToldBy(d, t)'
  <2>1. PICK q \in ops : /\ q.dev = d /\ q.id = t.by /\ Ended(q)
                         /\ \E m \in Range(q.fresh) : m.kind # "config" /\ t.event = EventFor(m)
    BY <1>7, <1>12 DEF Told, ToldBy, E
  <2>2. q \in ops' /\ q.id # o.id
    <3>1. q # o
      BY <1>10, <2>1
    <3> QED
      BY <1>7, <2>1, <3>1, TakenStays DEF Typed
  <2> QED
    BY <2>1, <2>2 DEF ToldBy, Ended
<1>13. ASSUME NEW i \in 1..k
       PROVE  i \in 1..Len(es) /\ \E m \in Range(o.fresh) : m.kind # "config" /\ es[i] = EventFor(m)
  BY <1>1, <1>4, <1>8
<1>14. ASSUME NEW i \in 1..Len(G)
       PROVE  ToldBy(d, G[i])'
  <2>1. CASE i \in 1..Len(E) /\ G[i] = E[i]
    BY <1>12, <2>1
  <2>2. CASE i - Len(E) \in 1..k /\ G[i].event = es[i - Len(E)] /\ G[i].by = o.id
    <3>1. \E m \in Range(p.fresh) : m.kind # "config" /\ G[i].event = EventFor(m)
      BY <1>3, <1>13, <2>2
    <3> QED
      BY <1>9, <1>10, <2>2, <3>1 DEF ToldBy, Ended
  <2> QED
    BY <1>11, <2>1, <2>2
<1>15. ASSUME NEW i \in 1..Len(G), NEW j \in 1..Len(G), G[i].by = G[j].by, G[i].event.hash = G[j].event.hash
       PROVE  i = j
  <2>1. CASE i \in 1..Len(E) /\ G[i] = E[i] /\ j \in 1..Len(E) /\ G[j] = E[j]
    BY <1>7, <1>15, <2>1 DEF Told, E
  <2>2. CASE /\ i - Len(E) \in 1..k /\ G[i].event = es[i - Len(E)]
             /\ j - Len(E) \in 1..k /\ G[j].event = es[j - Len(E)]
    <3> DEFINE x == i - Len(E)
               y == j - Len(E)
    <3>1. x \in 1..Len(es) /\ y \in 1..Len(es) /\ es[x].hash = es[y].hash
      BY <1>13, <1>15, <2>2
    <3> HIDE DEF x, y
    <3>2. x = y
      BY <1>4, <3>1 DEF Distinct
    <3>3. i - Len(E) = j - Len(E)
      BY <3>2 DEF x, y
    <3> QED
      BY <1>6, <3>3
  <2>3. ~(i \in 1..Len(E) /\ G[i] = E[i] /\ G[j].by = o.id)
    BY <1>12, <1>15
  <2>4. ~(j \in 1..Len(E) /\ G[j] = E[j] /\ G[i].by = o.id)
    BY <1>12, <1>15
  <2> QED
    BY <1>11, <2>1, <2>2, <2>3, <2>4
<1>16. ASSUME NEW q \in ops', q.dev = d, q.at = "resolved", NEW m \in Range(q.fresh), m.kind # "config"
       PROVE  \E i \in 1..Len(G) : G[i].event = EventFor(m)
  <2>1. CASE q \in ops
    <3>1. PICK i \in 1..Len(E) : E[i].event = EventFor(m)
      BY <1>7, <1>16, <2>1 DEF Told, E
    <3>2. i \in 1..Len(G) /\ G[i] = E[i]
      BY <1>6, <1>8
    <3> QED
      BY <3>1, <3>2
  <2>2. CASE q = p
    <3>1. at = "resolved" /\ k = Len(es) /\ m \in Range(o.fresh)
      BY <1>1, <1>3, <1>16, <2>2
    <3>2. PICK i \in 1..Len(es) : es[i] = EventFor(m)
      BY <1>4, <1>16, <3>1
    <3>3. i + Len(E) \in 1..Len(G) /\ G[i + Len(E)] = [event |-> es[i], by |-> o.id]
      BY <1>6, <1>8, <3>1
    <3>4. G[i + Len(E)].event = es[i]
      BY <3>3
    <3> QED
      BY <3>2, <3>3, <3>4
  <2> QED
    BY <1>9, <2>1, <2>2
<1> QED
  BY <1>5, <1>14, <1>15, <1>16 DEF Told, d

\* What a user knows are the timestamps of messages.
LEMMA UserKnows ==
    ASSUME Typed, Origin, EventsTold, NEW d \in Device
    PROVE  /\ Sent(d) \subseteq Times("message") /\ Heard(d) \subseteq Times("message")
           /\ Times("message") \in SUBSET Nat
<1>1. Sent(d) \subseteq Times("message")
  BY DEF Sent, Times
<1>2. ASSUME NEW i \in DOMAIN events[d], events[d][i].event.kind = "message"
      PROVE  events[d][i].event.about \in Times("message")
  <2>1. i \in 1..Len(events[d])
    BY DEF Typed, StateTypes
  <2>2. ShownAs(d, events[d][i].event)
    BY <2>1, ToldIsShown DEF EventsTold, Told
  <2>3. EventIsTrue(d, events[d][i].event)
    BY <2>2, EventsTrue DEF EventsTold
  <2> QED
    BY <1>2, <2>3 DEF EventIsTrue
<1>3. Heard(d) \subseteq Times("message")
  BY <1>2 DEF Heard
<1>4. Times("message") \in SUBSET Nat
  BY OpPlan DEF Times
<1> QED
  BY <1>1, <1>3, <1>4

LEMMA NoPlanTrue ==
    ASSUME NEW S
    PROVE  TruePlan(<<>>, S)
  BY DEF TruePlan

LEMMA PlansByUser ==
    ASSUME Typed, Origin, EventsTold, Evolves, NEW d \in Device, User(d)
    PROVE  TruePlans'
<1> DEFINE T == Times("message")
<1>1. /\ Sent(d) \subseteq T /\ Heard(d) \subseteq T /\ T \in SUBSET Nat /\ TruePlans
      /\ clock \in Nat /\ clock + 1 \in Nat
  BY UserKnows DEF EventsTold, Typed, StateTypes
<1> HIDE DEF T
<1>2. ASSUME NEW kind \in Both \cup Notices, Send(d, kind)
      PROVE  TruePlans'
  <2>1. PICK about \in Abouts(d, kind) :
          \E plan \in Plans(d, clock + 1, kind, about) : Starts(d, kind, plan, "locate")
    BY <1>2 DEF Send
  <2>2. PICK plan \in Plans(d, clock + 1, kind, about) : Starts(d, kind, plan, "locate")
    BY <2>1
  <2>3. about \in Nat /\ (kind \in {"read", "reaction", "unreact"} => about \in T)
    <3>1. CASE kind \in About
      <4>1. about \in T
        BY <1>1, <3>1 DEF Abouts
      <4> QED
        BY <1>1, <4>1
    <3>2. CASE kind \notin About
      BY <3>2 DEF Abouts, About
    <3> QED
      BY <3>1, <3>2
  <2>4. TruePlan(plan, T)
    BY <1>1, <2>3, SendTrue
  <2> QED
    BY <1>1, <2>2, <2>4, PlansByStart DEF T
<1>3. CASE DeleteMessages(d)
  <2>1. PICK abouts \in {<<x>> : x \in Sent(d)} \cup {<<x, y>> : x, y \in Sent(d)} :
          Starts(d, "delete", DeletePlan(d, clock + 1, abouts), "locate")
    BY <1>3 DEF DeleteMessages
  <2>2. abouts \in Seq(T)
    <3>1. CASE \E x \in Sent(d) : abouts = <<x>>
      BY <1>1, <3>1
    <3>2. CASE \E x, y \in Sent(d) : abouts = <<x, y>>
      BY <1>1, <3>2
    <3> QED
      BY <2>1, <3>1, <3>2
  <2>3. TruePlan(DeletePlan(d, clock + 1, abouts), T)
    BY <1>1, <2>2, UnsendTrue
  <2> QED
    BY <1>1, <2>1, <2>3, PlansByStart DEF T
<1>4. CASE StartPoll(d)
  <2>1. Starts(d, "poll", PollPlan(d), "locate")
    BY <1>4 DEF StartPoll
  <2>2. TruePlan(PollPlan(d), T)
    BY OneTrue DEF PollPlan, TrueStep
  <2> QED
    BY <1>1, <2>1, <2>2, PlansByStart DEF T
<1>5. CASE SetDisplayName(d)
  <2>1. Starts(d, "rename", <<>>, "save")
    BY <1>5 DEF SetDisplayName
  <2> QED
    BY <1>1, <2>1, NoPlanTrue, PlansByStart
<1>6. CASE SetAvatar(d)
  <2>1. Starts(d, "avatar", <<>>, "upload")
    BY <1>6 DEF SetAvatar
  <2> QED
    BY <1>1, <2>1, NoPlanTrue, PlansByStart
<1>7. CASE Restart(d)
  <2>1. PICK named \in BOOLEAN : ops' = Survivors(d) \cup Begun(d, named)
    BY <1>7, Zenon DEF Restart, Survivors, Begun, Began, Renaming
  <2>2. ASSUME NEW q \in Survivors(d)
        PROVE  \E o \in ops : q.plan = o.plan
    <3>1. PICK o \in ops : q = IF o.dev = d /\ ~Ended(o) THEN Done(o, "lost") ELSE o
      BY DEF Survivors
    <3>2. Done(o, "lost").plan = o.plan
      BY TypedFacts, DoneOp DEF Alike, At
    <3> QED
      BY <3>1, <3>2
  <2>3. ASSUME NEW q \in Begun(d, named)
        PROVE  q.plan = <<>>
    <3>1. q = Began(d) \/ q = Renaming(d)
      BY DEF Begun
    <3>2. Began(d).plan = <<>> /\ Renaming(d).plan = <<>>
      BY DEF Began, Renaming, Cleared, NewOp
    <3> QED
      BY <3>1, <3>2
  <2>4. ASSUME NEW q \in ops'
        PROVE  TruePlan(q.plan, T)
    BY <1>1, <2>1, <2>2, <2>3, NoPlanTrue DEF TruePlans, T
  <2>5. \A q \in ops' : TruePlan(q.plan, Times("message")')
    BY <2>4, TimesGrow, TruthStays DEF T
  <2> QED
    BY <2>5 DEF TruePlans
<1> QED
  BY <1>2, <1>3, <1>4, <1>5, <1>6, <1>7 DEF User

LEMMA PlansByContinuing ==
    ASSUME Typed, TruePlans, Evolves, NEW o \in ops, Continues(o)
    PROVE  TruePlans'
<1>1. o \in Op /\ TruePlan(o.plan, Times("message"))
  BY TypedFacts DEF TruePlans
<1>2. ASSUME NEW p, Becomes(o, p), p.plan = o.plan
      PROVE  TruePlans'
  BY <1>1, <1>2, PlansByTurn
<1>3. CASE DisplayNameSaved(o)
  <2> DEFINE plan == ConfigPlan(o.dev, o.id)
             p == [o EXCEPT !.at = "locate", !.plan = plan]
  <2>1. Becomes(o, p)
    BY <1>3 DEF DisplayNameSaved
  <2>2. TruePlan(plan, Times("message"))
    BY ConfigTrue
  <2> HIDE DEF plan
  <2>3. p.plan = plan
    BY <1>1 DEF Op
  <2> HIDE DEF p
  <2> QED
    BY <2>1, <2>2, <2>3, PlansByTurn
<1>4. CASE Uploaded(o)
  <2> DEFINE p == [o EXCEPT !.at = "save"]
  <2>1. Becomes(o, p) \/ Becomes(o, Rejected(o))
    BY <1>4 DEF Uploaded
  <2>2. p.plan = o.plan
    BY <1>1 DEF Op
  <2>3. Rejected(o).plan = o.plan
    BY <1>1, RejectedOp DEF Same
  <2> HIDE DEF p
  <2> QED
    BY <1>2, <2>1, <2>2, <2>3
<1>5. CASE AvatarSaved(o)
  <2>1. Becomes(o, Cleared(o, "resolved"))
    BY <1>5 DEF AvatarSaved
  <2>2. Cleared(o, "resolved").plan = o.plan
    BY <1>1, ClearedOp DEF Same, At
  <2> QED
    BY <1>2, <2>1, <2>2
<1>7. CASE HasSeen(o)
  <2>1. Becomes(o, Checked(o)) /\ Same(o, Checked(o))
    BY <1>7, CheckedOp DEF HasSeen, Checked
  <2> QED
    BY <1>2, <2>1 DEF Same
<1>8. CASE MarkSeen(o)
  <2>1. Becomes(o, Marked(o)) /\ Alike(o, Marked(o))
    BY <1>8, MarkedOp DEF MarkSeen, Marked
  <2> QED
    BY <1>2, <2>1 DEF Alike
<1>9. CASE Emits(o)
  <2>1. PICK at \in {"resolved", "rejected"} : Becomes(o, Done(o, at))
    BY <1>9, EmitsHow DEF EmitsAs
  <2>2. Done(o, at).plan = o.plan
    BY TypedFacts, DoneOp DEF Alike, At
  <2> QED
    BY <1>2, <2>1, <2>2
<1>6. CASE Requests(o)
  <2>1. PICK p : Turns(o, p)
    BY <1>6, RequestTurns DEF Requests
  <2> QED
    BY <1>2, <2>1 DEF Turns, Same
<1> QED
  BY <1>3, <1>4, <1>5, <1>6, <1>7, <1>8, <1>9 DEF Continues

LEMMA PlansKept ==
    ASSUME Typed, Origin, EventsTold, [Next]_vars
    PROVE  TruePlans'
<1>1. Evolves /\ TruePlans
  BY NextEvolves DEF EventsTold
<1>2. ASSUME UNCHANGED ops
      PROVE  TruePlans'
  BY <1>1, <1>2 DEF TruePlans, Times
<1>3. CASE \E d \in Device : User(d)
  BY <1>1, <1>3, PlansByUser
<1>4. CASE \E d \in Device : LoadName(d) \/ LoadAvatar(d)
  BY <1>2, <1>4 DEF LoadName, LoadAvatar, swarmVars
<1>5. CASE \E o \in ops : Continues(o)
  BY <1>1, <1>5, PlansByContinuing
<1>6. CASE \E a \in Account, n \in Node : Leaves(a, n) /\ UNCHANGED userVars
  BY <1>2, <1>6 DEF Leaves
<1>7. CASE UNCHANGED vars
  BY <1>2, <1>7 DEF vars, swarmVars
<1> QED
  BY <1>3, <1>4, <1>5, <1>6, <1>7 DEF Next

LEMMA ToldKept ==
    ASSUME Typed, Typed', Origin, EventsTold, [Next]_vars, NEW d \in Device
    PROVE  Told(d)'
<1>1. Told(d) /\ Once /\ Polls /\ \A o \in ops : InHand(o) /\ Distinct(o.got)
  BY DEF EventsTold, Polls, Once
<1>2. ASSUME events'[d] = events[d],
             \A p \in ops' : p.dev = d /\ p.at = "resolved" => p \in ops \/ p.fresh = <<>>
      PROVE  Told(d)'
  BY <1>1, <1>2, QuietTold
<1>3. CASE Quiet
  <2>1. ASSUME NEW p \in ops', p.at = "resolved", p \notin ops
        PROVE  p.fresh = <<>>
    BY <1>1, <1>3, <2>1 DEF Quiet, Goes, Starting, InHand
  <2> QED
    BY <1>2, <1>3, <2>1 DEF Quiet
<1>4. ASSUME NEW o \in ops, HasSeen(o)
      PROVE  Told(d)'
  <2>1. Becomes(o, Checked(o)) /\ Checked(o).at # "resolved"
    BY <1>1, <1>4, CheckedInherits
  <2>2. events' = events
    BY <1>4 DEF HasSeen, userVars
  <2> QED
    BY <1>2, <2>1, <2>2 DEF Becomes
<1>5. ASSUME NEW o \in ops, MarkSeen(o)
      PROVE  Told(d)'
  <2>1. Becomes(o, Marked(o)) /\ Marked(o).at # "resolved"
    BY <1>1, <1>5, MarkedInherits
  <2>2. events' = events
    BY <1>5 DEF MarkSeen
  <2> QED
    BY <1>2, <2>1, <2>2 DEF Becomes
<1>6. ASSUME NEW o \in ops, Emits(o), o.dev # d
      PROVE  Told(d)'
  <2>1. PICK k \in 0..Len(Emitted(o.fresh)), at \in {"resolved", "rejected"} :
           Becomes(o, Done(o, at)) /\ Tells(o, k)
    BY <1>6, EmitsHow DEF EmitsAs
  <2>2. Done(o, at).dev = o.dev
    BY TypedFacts, DoneOp DEF Alike, At
  <2>3. events'[d] = events[d]
    BY <1>6, <2>1, TellsTyped
  <2> QED
    BY <1>2, <1>6, <2>1, <2>2, <2>3 DEF Becomes
<1>7. ASSUME NEW o \in ops, Emits(o), o.dev = d
      PROVE  Told(d)'
  BY <1>7, EmitsTold
<1> QED
  BY <1>3, <1>4, <1>5, <1>6, <1>7, NextHears

LEMMA NextTold ==
    ASSUME Typed, Typed', Origin, EventsTold, [Next]_vars
    PROVE  EventsTold'
<1>1. Once' /\ TruePlans' /\ FreshSeen'
  BY OnceKept, PlansKept, FreshKept DEF EventsTold
<1>2. Polls'
  BY <1>1, PollsKept DEF EventsTold
<1>3. \A d \in Device : Told(d)'
  BY ToldKept
<1> QED
  BY <1>1, <1>2, <1>3 DEF EventsTold

LEMMA InitTold == Init => EventsTold
<1> SUFFICES ASSUME Init PROVE EventsTold
  OBVIOUS
<1>1. ops = {} /\ \A a \in Account : box[a] = <<>>
  BY DEF Init
<1>2. \A d \in Device : seen[d] = {} /\ events[d] = <<>>
  BY DEF Init
<1>3. Once /\ TruePlans /\ FreshSeen /\ Polls
  BY <1>1, <1>2, NothingDistinct DEF Once, TruePlans, FreshSeen, Polls
<1>4. \A d \in Device : Told(d)
  BY <1>1, <1>2 DEF Told
<1> QED
  BY <1>3, <1>4 DEF EventsTold

LEMMA ToldImplies ==
    ASSUME Typed, Origin, EventsTold
    PROVE  EventsAreTrue
<1> SUFFICES ASSUME NEW d \in Device
             PROVE  LET E == events[d]
                    IN  /\ \A i \in DOMAIN E : EventIsTrue(d, E[i].event)
                        /\ \A i, j \in DOMAIN E :
                              i # j /\ E[i].event.hash = E[j].event.hash =>
                                  \E o, p \in ops : /\ o # p /\ o.id = E[i].by /\ p.id = E[j].by
                                                    /\ Overlap(o, p)
                        /\ \A m \in Range(box[AccountOf[d]]) :
                              m.hash \in seen[d] /\ m.kind # "config" =>
                                  \/ \E i \in DOMAIN E : E[i].event.hash = m.hash
                                  \/ \E o \in ops : o.dev = d /\ o.at # "resolved" /\ m \in Range(o.fresh)
  BY DEF EventsAreTrue
<1> DEFINE E == events[d]
<1>1. Told(d) /\ TruePlans /\ FreshSeen /\ Polls /\ Once
  BY DEF EventsTold
<1>2. DOMAIN E = 1..Len(E)
  BY DEF Typed, StateTypes
<1>3. ASSUME NEW i \in DOMAIN E
      PROVE  EventIsTrue(d, E[i].event)
  BY <1>1, <1>2, ToldIsShown, EventsTrue DEF Told
<1>4. ASSUME NEW i \in DOMAIN E
      PROVE  \E o \in ops : o.dev = d /\ o.id = E[i].by /\ Took(o, E[i].event.hash)
  <2>1. PICK o \in ops : /\ o.dev = d /\ o.id = E[i].by
                         /\ \E m \in Range(o.fresh) : E[i].event = EventFor(m)
    BY <1>1, <1>2 DEF Told, ToldBy
  <2>2. PICK m \in Range(o.fresh) : E[i].event = EventFor(m)
    BY <2>1
  <2>3. m \in Message
    BY TypedFacts, OpFields DEF Range
  <2>4. E[i].event.hash = m.hash
    BY <2>2, <2>3, EventForMessage
  <2> QED
    BY <2>1, <2>4 DEF Took
<1>5. ASSUME NEW i \in DOMAIN E, NEW j \in DOMAIN E, i # j, E[i].event.hash = E[j].event.hash
      PROVE  \E o, p \in ops : /\ o # p /\ o.id = E[i].by /\ p.id = E[j].by
                               /\ Overlap(o, p)
  <2>1. E[i].by # E[j].by
    BY <1>1, <1>2, <1>5 DEF Told
  <2>2. PICK o \in ops : o.dev = d /\ o.id = E[i].by /\ Took(o, E[i].event.hash)
    BY <1>4
  <2>3. PICK p \in ops : p.dev = d /\ p.id = E[j].by /\ Took(p, E[j].event.hash)
    BY <1>4
  <2>4. o # p
    BY <2>1, <2>2, <2>3
  <2>5. InTime(o, p) /\ InTime(p, o)
    BY <1>1, <2>2, <2>3, <2>4 DEF Polls
  <2>6. Overlap(o, p)
    BY <1>5, <2>2, <2>3, <2>5 DEF InTime, Wants, Overlap
  <2> QED
    BY <2>2, <2>3, <2>4, <2>6
<1>6. ASSUME NEW m \in Range(box[AccountOf[d]]), m.hash \in seen[d], m.kind # "config"
      PROVE  \/ \E i \in DOMAIN E : E[i].event.hash = m.hash
             \/ \E o \in ops : o.dev = d /\ o.at # "resolved" /\ m \in Range(o.fresh)
  <2>1. PICK o \in ops : o.dev = d /\ Took(o, m.hash)
    BY <1>1, <1>6 DEF Polls
  <2>2. PICK n \in Range(o.fresh) : n.hash = m.hash
    BY <2>1 DEF Took
  <2>3. AccountOf[d] \in Account /\ box[AccountOf[d]] \in Seq(Message)
    BY PeerIsAnother DEF Typed, StateTypes
  <2>4. n = m
    BY <1>1, <2>1, <2>2, <2>3, DistinctTells DEF FreshSeen, Once
  <2>5. CASE o.at # "resolved"
    BY <2>1, <2>2, <2>4, <2>5
  <2>6. CASE o.at = "resolved"
    <3>1. PICK i \in 1..Len(E) : E[i].event = EventFor(m)
      BY <1>1, <1>6, <2>1, <2>2, <2>4, <2>6 DEF Told
    <3>2. m \in Message
      BY <1>1, <2>3, MessageEventOf
    <3>3. EventFor(m).hash = m.hash
      BY <3>2, EventForMessage
    <3> QED
      BY <1>2, <3>1, <3>3
  <2> QED
    BY <2>5, <2>6
<1> QED
  BY <1>3, <1>5, <1>6

\* Whatever a Session tells its application is true: no message from oneself is told as
\* another's, and what an event is about is a timestamp that sendMessage gave.  With checks,
\* marks, listeners that throw and restarts in any order, a message is told twice only by
\* two polls that overlap; and one that is marked as seen has its event, unless the poll that
\* marked it has it yet in hand, or lost it.
THEOREM EventsAreTrueAlways == Spec => []EventsAreTrue
<1>1. Init => Typed /\ Origin /\ EventsTold
  BY InitTyped, InitOrdered, InitTold
<1>2. Typed /\ Origin /\ EventsTold /\ [Next]_vars => (Typed /\ Origin /\ EventsTold)'
  BY NextTyped, NextEvolves, OriginKept, NextTold
<1>3. Typed /\ Origin /\ EventsTold => EventsAreTrue
  BY ToldImplies
<1> QED
  BY <1>1, <1>2, <1>3, PTL DEF Spec

=============================================================================
