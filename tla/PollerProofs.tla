----------------------------- MODULE PollerProofs -----------------------------
(***************************************************************************)
(* Theorems about the Pollers.                                             *)
(***************************************************************************)
EXTENDS PollerProperties, TLAPS

\* The cadence is all that TimerFollowsInterval speaks of.
CadenceType == /\ interval \in [Pollers -> Intervals \cup {None}]
               /\ timer \in [Pollers -> Intervals \cup {None}]
               /\ attached \subseteq Pollers
               /\ authorized \in BOOLEAN

CadenceInv == CadenceType /\ TimerFollowsInterval

\* startPolling() on pollers that may poll keeps the invariant, whatever was set or
\* stopped just before: it is stated for the intervals iv and the timers tm it begins with.
LEMMA StartKeepsCadence ==
    ASSUME NEW ps \in SUBSET Pollers, NEW iv, NEW tm,
           iv \in [Pollers -> Intervals \cup {None}],
           tm \in [Pollers -> Intervals \cup {None}],
           \A p \in Pollers : tm[p] # None => tm[p] = iv[p],
           Start(ps, iv, tm)
    PROVE  /\ timer' \in [Pollers -> Intervals \cup {None}]
           /\ \A p \in Pollers : timer'[p] # None =>
                 timer'[p] = iv[p] /\ (p \in ps \/ tm[p] # None)
BY DEF Start

\* setInterval() on some pollers: none of them runs at an interval it had before.
LEMMA RestartKeepsCadence ==
    ASSUME CadenceInv, NEW ps \in SUBSET Pollers, NEW i \in Intervals \cup {None},
           Restart(ps, i), UNCHANGED <<attached, authorized>>
    PROVE  CadenceInv'
<1> DEFINE iv == [p \in Pollers |-> IF p \in ps THEN i ELSE interval[p]]
           tm == [p \in Pollers |-> IF p \in ps THEN None ELSE timer[p]]
           go == IF authorized THEN ps \cap attached ELSE {}
<1>1. /\ iv \in [Pollers -> Intervals \cup {None}]
      /\ tm \in [Pollers -> Intervals \cup {None}]
      /\ \A p \in Pollers : tm[p] # None => tm[p] = iv[p]
  BY DEF CadenceInv, CadenceType, TimerFollowsInterval
<1>2. interval' = iv /\ Start(go, iv, tm)
  BY DEF Restart
<1>3. go \in SUBSET Pollers
  OBVIOUS
<1>4. \A p \in Pollers : tm[p] # None => p \in attached /\ authorized
  BY DEF CadenceInv, CadenceType, TimerFollowsInterval
<1>5. \A p \in go : p \in attached /\ authorized
  OBVIOUS
<1> HIDE DEF iv, tm, go
<1>6. /\ timer' \in [Pollers -> Intervals \cup {None}]
      /\ \A p \in Pollers : timer'[p] # None =>
            timer'[p] = iv[p] /\ (p \in go \/ tm[p] # None)
  BY <1>1, <1>2, <1>3, StartKeepsCadence
<1> QED
  BY <1>1, <1>2, <1>4, <1>5, <1>6 DEF CadenceInv, CadenceType, TimerFollowsInterval

\* Pollers that were attached, or are now, start at their interval.
LEMMA StartedKeepsCadence ==
    ASSUME CadenceInv, NEW ps \in SUBSET Pollers, Start(ps, interval, timer),
           interval' = interval, attached \cup ps \subseteq attached', attached' \subseteq Pollers,
           authorized' \in BOOLEAN, authorized => authorized', ps # {} => authorized'
    PROVE  CadenceInv'
<1>1. /\ timer' \in [Pollers -> Intervals \cup {None}]
      /\ \A p \in Pollers : timer'[p] # None =>
            timer'[p] = interval[p] /\ (p \in ps \/ timer[p] # None)
  BY StartKeepsCadence DEF CadenceInv, CadenceType, TimerFollowsInterval
<1> QED
  BY <1>1 DEF CadenceInv, CadenceType, TimerFollowsInterval

LEMMA CadenceInit == Init => CadenceInv
BY PollerAssumption DEF Init, CadenceInv, CadenceType, TimerFollowsInterval

LEMMA CadenceStep == CadenceInv /\ [Next]_vars => CadenceInv'
<1> SUFFICES ASSUME CadenceInv, [Next]_vars PROVE CadenceInv'
  OBVIOUS
<1>1. ASSUME UNCHANGED cadence PROVE CadenceInv'
  BY <1>1 DEF cadence, CadenceInv, CadenceType, TimerFollowsInterval
<1>2. CASE SetMnemonic
  BY <1>2, StartedKeepsCadence DEF SetMnemonic, CadenceInv, CadenceType
<1>3. ASSUME NEW p \in Pollers, AddPoller(p) PROVE CadenceInv'
  <2>1. (IF authorized THEN {p} ELSE {}) \in SUBSET Pollers
    OBVIOUS
  <2> QED
    BY <1>3, <2>1, StartedKeepsCadence DEF AddPoller, CadenceInv, CadenceType
<1>4. ASSUME NEW p \in Pollers, StartPolling(p) PROVE CadenceInv'
  <2>1. {p} \in SUBSET Pollers
    OBVIOUS
  <2> QED
    BY <1>4, <2>1, StartedKeepsCadence DEF StartPolling, CadenceInv, CadenceType
<1>5. ASSUME NEW p \in Pollers, StopPolling(p) PROVE CadenceInv'
  BY <1>5 DEF StopPolling, CadenceInv, CadenceType, TimerFollowsInterval
<1>6. ASSUME NEW p \in Pollers, NEW i \in {UserInterval[p], None}, SetInterval(p, i)
      PROVE CadenceInv'
  <2>1. {p} \in SUBSET Pollers /\ i \in Intervals \cup {None}
    BY PollerAssumption
  <2> QED
    BY <1>6, <2>1, RestartKeepsCadence DEF SetInterval
<1>7. ASSUME NEW i \in Intervals, SetPollInterval(i) PROVE CadenceInv'
  <2>1. attached \in SUBSET Pollers /\ i \in Intervals \cup {None}
    BY DEF CadenceInv, CadenceType
  <2> QED
    BY <1>7, <2>1, RestartKeepsCadence DEF SetPollInterval
<1>8. CASE Crash
  BY <1>8, PollerAssumption DEF Crash, CadenceInv, CadenceType, TimerFollowsInterval
<1>9. ASSUME NEW p \in Pollers, Tick(p) \/ PollNow(p) PROVE CadenceInv'
  BY <1>1, <1>9 DEF Tick, PollNow
<1>10. ASSUME NEW s \in Slot, Continue(s) PROVE CadenceInv'
  BY <1>1, <1>10 DEF Continue, ReceiveSwarms, ReadHashes, Answer, Process, UpdateRead,
                     UpdateWrite, HasSeen, MarkSeen, Emit, Emitted
<1>11. ASSUME NEW s \in Slot, SwarmConnectionFailed(s) \/ PollRejected(s) \/ ListenerThrows(s)
       PROVE CadenceInv'
  BY <1>1, <1>11 DEF SwarmConnectionFailed, PollRejected, ListenerThrows, Emitted
<1>12. ASSUME NEW n \in Namespace, Send(n) PROVE CadenceInv'
  BY <1>1, <1>12 DEF Send
<1>13. CASE UNCHANGED vars
  BY <1>1, <1>13 DEF vars
<1> QED
  BY <1>2, <1>3, <1>4, <1>5, <1>6, <1>7, <1>8, <1>9, <1>10, <1>11, <1>12, <1>13 DEF Next

\* A poller polls at the interval that was set last, for every set of pollers, intervals
\* and mishaps (polling/index.ts:80-116).
THEOREM TimerFollowsAlways == Spec => []TimerFollowsInterval
<1>1. CadenceInv => TimerFollowsInterval
  BY DEF CadenceInv
<1> QED
  BY <1>1, CadenceInit, CadenceStep, PTL DEF Spec

----------------------------------------------------------------------------
(* Types.                                                                  *)

LEMMA PollFacts ==
    /\ Idle \in Poll /\ NoHash \in Hash /\ Nothing \in [Namespace -> Seq(Nat)]
    /\ None \notin Namespace
BY PollerAssumption DEF Idle, Poll, NoHash, Nothing, Hash, Stage

LEMMA PollFields ==
    ASSUME NEW r \in Poll
    PROVE  /\ r.stage \in Stage /\ r.since \in Hash /\ r.upto \in Hash /\ r.done \in Hash
           /\ r.old \in Hash /\ r.checking \in Namespace \cup {None}
           /\ r.fresh \in [Namespace -> Seq(Nat)] /\ r.update \in {"none", "get", "set"}
           /\ DOMAIN r = {"stage", "node", "since", "upto", "done", "checking", "fresh", "update", "old"}
BY DEF Poll

LEMMA BeginType ==
    ASSUME TypeOK, NEW ps, Begin(ps)
    PROVE  poll' \in [Slot -> Poll]
<1>1. NewPoll \in Poll
  BY PollFacts DEF TypeOK, NewPoll, Idle, Poll, Stage
<1> QED
  BY <1>1 DEF TypeOK, Begin

LEMMA StepsType ==
    ASSUME TypeOK, NEW s \in Slot,
           \/ ReceiveSwarms(s) \/ ReadHashes(s) \/ Answer(s) \/ Process(s)
           \/ UpdateRead(s) \/ UpdateWrite(s)
           \/ SwarmConnectionFailed(s) \/ PollRejected(s)
    PROVE  poll' \in [Slot -> Poll] /\ hashes' \in Hash
<1> USE PollFacts
<1>1. poll[s] \in Poll
  BY DEF TypeOK
<1>2. CASE ReceiveSwarms(s)
  <2>1. PICK n \in Nodes : poll' = [poll EXCEPT ![s] = [@ EXCEPT !.stage = "hashes", !.node = n]]
    BY <1>2 DEF ReceiveSwarms
  <2>2. [poll[s] EXCEPT !.stage = "hashes", !.node = n] \in Poll
    BY <1>1 DEF Poll, Stage
  <2> QED
    BY <1>2, <2>1, <2>2 DEF TypeOK, ReceiveSwarms, durable
<1>3. CASE ReadHashes(s)
  BY <1>1, <1>3 DEF TypeOK, ReadHashes, Poll, Stage, durable
<1>4. CASE Answer(s)
  <2>1. AnswerTo(s) \in Hash
    BY <1>1 DEF TypeOK, AnswerTo, Poll, Hash
  <2> QED
    BY <1>1, <1>4, <2>1 DEF TypeOK, Answer, Poll, Stage, durable
<1>5. CASE Process(s)
  BY <1>1, <1>5 DEF TypeOK, Process, Received, Poll, Stage, durable
<1>6. CASE UpdateRead(s)
  BY <1>1, <1>6 DEF TypeOK, UpdateRead, Poll, Stage, durable
<1>7. CASE UpdateWrite(s)
  <2>1. NewHashes(poll[s]) \in Hash
    BY <1>1 DEF NewHashes, Poll, Hash
  <2> QED
    BY <1>1, <1>7, <2>1 DEF TypeOK, UpdateWrite, Finished, Poll, Stage
<1>8. CASE SwarmConnectionFailed(s)
  <2>1. hashes' \in Hash
    BY <1>8 DEF TypeOK, SwarmConnectionFailed, durable
  <2>2. ASSUME NEW n \in Nodes PROVE [poll[s] EXCEPT !.stage = "sent", !.node = n, !.upto = NoHash] \in Poll
    BY <1>1 DEF Poll, Stage
  <2>3. \/ poll' = [poll EXCEPT ![s] = Idle]
        \/ \E n \in Nodes :
              poll' = [poll EXCEPT ![s] = [@ EXCEPT !.stage = "sent", !.node = n, !.upto = NoHash]]
    BY <1>8 DEF TypeOK, SwarmConnectionFailed
  <2> QED
    BY <2>1, <2>2, <2>3, ZenonT(60) DEF TypeOK
<1>9. CASE PollRejected(s)
  BY <1>1, <1>9 DEF TypeOK, PollRejected, durable
<1> QED
  BY <1>2, <1>3, <1>4, <1>5, <1>6, <1>7, <1>8, <1>9

LEMMA CheckedType ==
    ASSUME NEW r \in Poll, NEW n \in Namespace
    PROVE  Passed(r, n) \in Poll /\ Kept(r, n) \in Poll
<1>1. r.done \in Hash /\ r.fresh \in [Namespace -> Seq(Nat)]
  BY PollFields
<1>2. Coming(r, n) \in Nat
  BY <1>1 DEF Coming, Hash
<1>3. [r.done EXCEPT ![n] = Coming(r, n)] \in Hash
  BY <1>1, <1>2 DEF Hash
<1>4. Append(r.fresh[n], Coming(r, n)) \in Seq(Nat)
  BY <1>1, <1>2
<1>5. [r.fresh EXCEPT ![n] = Append(r.fresh[n], Coming(r, n))] \in [Namespace -> Seq(Nat)]
  BY <1>1, <1>4
<1> QED
  BY <1>3, <1>5 DEF Passed, Kept, Poll

LEMMA ChecksType ==
    ASSUME TypeOK, NEW s \in Slot, MarkSeen(s) \/ \E n \in Namespace : HasSeen(s, n)
    PROVE  poll' \in [Slot -> Poll] /\ seen' \in [Namespace -> SUBSET Nat]
<1> USE PollFacts
<1>1. poll[s] \in Poll
  BY DEF TypeOK
<1>2. ASSUME NEW n \in Namespace PROVE Passed(poll[s], n) \in Poll /\ Kept(poll[s], n) \in Poll
  BY <1>1, CheckedType
<1>3. CASE MarkSeen(s)
  <2>1. poll[s].checking \in Namespace
    BY <1>1, <1>3, PollFields DEF MarkSeen
  <2>2. Coming(poll[s], poll[s].checking) \in Nat
    BY <1>1, <2>1, PollFields DEF Coming, Hash
  <2> QED
    BY <1>1, <1>2, <1>3, <2>1, <2>2 DEF TypeOK, MarkSeen
<1>4. ASSUME NEW n \in Namespace, HasSeen(s, n)
      PROVE  poll' \in [Slot -> Poll] /\ seen' \in [Namespace -> SUBSET Nat]
  <2>1. [poll[s] EXCEPT !.checking = n] \in Poll
    BY <1>1 DEF Poll
  <2>2. /\ seen' = seen
        /\ \/ poll' = [poll EXCEPT ![s] = Passed(@, n)]
           \/ poll' = [poll EXCEPT ![s] = [@ EXCEPT !.checking = n]]
    BY <1>4 DEF HasSeen, durable
  <2> QED
    BY <1>2, <1>4, <2>1, <2>2, ZenonT(60) DEF TypeOK
<1> QED
  BY <1>3, <1>4

LEMMA EmittedType ==
    ASSUME TypeOK, NEW s \in Slot, NEW k \in [Namespace -> Nat],
           \A n \in Namespace : k[n] <= Len(poll[s].fresh[n]), Emitted(s, k)
    PROVE  poll' \in [Slot -> Poll] /\ delivered' \in [Namespace -> Seq(Nat)]
<1>1. poll[s] \in Poll
  BY DEF TypeOK
<1>2. ASSUME NEW n \in Namespace
      PROVE  delivered[n] \o SubSeq(poll[s].fresh[n], 1, k[n]) \in Seq(Nat)
  <2>1. poll[s].fresh[n] \in Seq(Nat) /\ delivered[n] \in Seq(Nat)
    BY <1>1 DEF TypeOK, Poll
  <2>2. SubSeq(poll[s].fresh[n], 1, k[n]) \in Seq(Nat)
    BY <2>1, SMTT(30)
  <2> QED
    BY <2>1, <2>2
<1> QED
  BY <1>1, <1>2, PollFacts DEF TypeOK, Emitted, Finished, Poll, Stage

\* What a poll changes besides poll, storage and delivered.
LEMMA RestType ==
    ASSUME TypeOK, NEW s \in Slot,
           \/ Continue(s) \/ SwarmConnectionFailed(s) \/ PollRejected(s) \/ ListenerThrows(s)
    PROVE  /\ UNCHANGED <<stored, storage, cadence>>
           /\ ourSwarms' \subseteq Nodes
           /\ ourSwarm' \in ourSwarms' \cup {None} /\ (ourSwarm' = None <=> ourSwarms' = {})
           /\ mishaps' \in 0..MaxMishaps
           /\ lossy' \in BOOLEAN
<1> USE PollerAssumption, PollBounds DEF TypeOK, durable, nodes, luck
<1>1. CASE ReceiveSwarms(s)
  BY <1>1 DEF ReceiveSwarms
<1>2. CASE SwarmConnectionFailed(s)
  <2>1. /\ ourSwarms' \subseteq ourSwarms
        /\ ourSwarm' \in ourSwarms' \/ (ourSwarms' = {} /\ ourSwarm' = None)
    BY <1>2 DEF SwarmConnectionFailed
  <2>2. UNCHANGED <<stored, storage, cadence>> /\ Suffers(FALSE)
    BY <1>2 DEF SwarmConnectionFailed
  <2> QED
    BY <2>1, <2>2 DEF Suffers
<1>3. CASE PollRejected(s)
  BY <1>3 DEF PollRejected, Suffers
<1>4. CASE ListenerThrows(s)
  BY <1>4 DEF ListenerThrows, Suffers, Emitted
<1>5. CASE ReadHashes(s) \/ Answer(s) \/ Process(s) \/ UpdateRead(s) \/ UpdateWrite(s)
  BY <1>5 DEF ReadHashes, Answer, Process, UpdateRead, UpdateWrite
<1>6. CASE MarkSeen(s) \/ Emit(s) \/ \E n \in Namespace : HasSeen(s, n)
  BY <1>6 DEF MarkSeen, Emit, Emitted, HasSeen
<1> QED
  BY <1>1, <1>2, <1>3, <1>4, <1>5, <1>6 DEF Continue

LEMMA SlotStepType ==
    ASSUME TypeOK, NEW s \in Slot,
           \/ Continue(s) \/ SwarmConnectionFailed(s) \/ PollRejected(s) \/ ListenerThrows(s)
    PROVE  TypeOK'
<1>1. CASE \/ ReceiveSwarms(s) \/ ReadHashes(s) \/ Answer(s) \/ Process(s)
           \/ UpdateRead(s) \/ UpdateWrite(s)
           \/ SwarmConnectionFailed(s) \/ PollRejected(s)
  <2>1. poll' \in [Slot -> Poll] /\ hashes' \in Hash
    BY <1>1, StepsType
  <2>2. UNCHANGED <<seen, delivered>>
    BY <1>1 DEF ReceiveSwarms, ReadHashes, Answer, Process, UpdateRead, UpdateWrite,
                SwarmConnectionFailed, PollRejected, durable
  <2> QED
    BY <2>1, <2>2, RestType DEF TypeOK, cadence
<1>2. CASE MarkSeen(s) \/ \E n \in Namespace : HasSeen(s, n)
  <2>1. poll' \in [Slot -> Poll] /\ seen' \in [Namespace -> SUBSET Nat]
    BY <1>2, ChecksType
  <2>2. UNCHANGED <<hashes, delivered>>
    BY <1>2 DEF MarkSeen, HasSeen, durable
  <2> QED
    BY <2>1, <2>2, RestType DEF TypeOK, cadence
<1>3. ASSUME NEW k \in [Namespace -> Nat], \A n \in Namespace : k[n] <= Len(poll[s].fresh[n]),
             Emitted(s, k)
      PROVE  TypeOK'
  <2>1. poll' \in [Slot -> Poll] /\ delivered' \in [Namespace -> Seq(Nat)]
    BY <1>3, EmittedType
  <2>2. UNCHANGED <<hashes, seen>>
    BY <1>3 DEF Emitted, durable
  <2> QED
    BY <2>1, <2>2, RestType DEF TypeOK, cadence
<1>4. CASE Emit(s)
  <2>1. poll[s].fresh \in [Namespace -> Seq(Nat)]
    BY PollFields DEF TypeOK
  <2>2. All(s) \in [Namespace -> Nat] /\ \A n \in Namespace : All(s)[n] = Len(poll[s].fresh[n])
    BY <2>1 DEF All
  <2> QED
    BY <1>3, <1>4, <2>2 DEF Emit
<1>5. CASE ListenerThrows(s)
  <2>1. PICK k \in [Namespace -> 0..MaxMessages] :
             (\A n \in Namespace : k[n] <= Len(poll[s].fresh[n])) /\ Emitted(s, k)
    BY <1>5 DEF ListenerThrows
  <2>2. k \in [Namespace -> Nat]
    BY PollBounds
  <2> QED
    BY <1>3, <2>1, <2>2
<1> QED
  BY <1>1, <1>2, <1>4, <1>5 DEF Continue

\* An operation, a timer or a crash: polls begin or are gone.
LEMMA OtherStepType ==
    ASSUME TypeOK, CadenceInv',
           \/ SetMnemonic
           \/ \E p \in Pollers :
                 \/ AddPoller(p) \/ StartPolling(p) \/ StopPolling(p) \/ Tick(p) \/ PollNow(p)
                 \/ \E i \in {UserInterval[p], None} : SetInterval(p, i)
           \/ \E i \in Intervals : SetPollInterval(i)
           \/ \E n \in Namespace : Send(n)
           \/ Crash
    PROVE  TypeOK'
<1>1. CASE \E n \in Namespace : Send(n)
  BY <1>1, PollBounds DEF Send, TypeOK, nodes, cadence, luck
<1>2. CASE Crash
  <2>1. poll' \in [Slot -> Poll]
    BY <1>2, PollFacts DEF Crash
  <2>2. mishaps' \in 0..MaxMishaps /\ lossy' \in BOOLEAN
    BY <1>2, PollBounds DEF Crash, Suffers, TypeOK
  <2>3. UNCHANGED <<stored, hashes, seen, storage, delivered>> /\ ourSwarms' = {} /\ ourSwarm' = None
    BY <1>2 DEF Crash, durable
  <2> QED
    BY <2>1, <2>2, <2>3 DEF TypeOK, CadenceInv, CadenceType
<1>3. CASE ~Crash /\ ~\E n \in Namespace : Send(n)
  <2>1. UNCHANGED <<durable, delivered, nodes, luck>> /\ (UNCHANGED poll \/ \E ps : Begin(ps))
    BY <1>3 DEF SetMnemonic, AddPoller, StartPolling, StopPolling, Tick, PollNow, SetInterval,
                SetPollInterval, Start, Restart, durable, nodes, luck
  <2>2. poll' \in [Slot -> Poll]
    BY <2>1, BeginType DEF TypeOK
  <2> QED
    BY <2>1, <2>2 DEF TypeOK, durable, nodes, luck, CadenceInv, CadenceType
<1> QED
  BY <1>1, <1>2, <1>3

LEMMA TypeInit == Init => TypeOK
<1> SUFFICES ASSUME Init PROVE TypeOK
  OBVIOUS
<1>1. CadenceInv
  BY CadenceInit
<1>2. NoHash \in [Namespace -> 0..MaxMessages] /\ [n \in Namespace |-> {}] \in [Namespace -> SUBSET Nat]
  BY PollBounds DEF NoHash
<1>3. [s \in Slot |-> Idle] \in [Slot -> Poll]
  BY PollFacts
<1>4. /\ stored \in [Namespace -> 0..MaxMessages] /\ hashes \in Hash
      /\ seen \in [Namespace -> SUBSET Nat] /\ storage \in Storages
      /\ poll \in [Slot -> Poll] /\ delivered \in [Namespace -> Seq(Nat)]
  BY <1>2, <1>3, PollFacts DEF Init
<1>5. ourSwarms = {} /\ ourSwarm = None /\ mishaps \in 0..MaxMishaps /\ lossy = FALSE
  BY PollBounds DEF Init
<1> QED
  BY <1>1, <1>4, <1>5 DEF TypeOK, CadenceInv, CadenceType

LEMMA TypeStep == TypeOK /\ CadenceInv' /\ [Next]_vars => TypeOK'
<1> SUFFICES ASSUME TypeOK, CadenceInv', [Next]_vars PROVE TypeOK'
  OBVIOUS
<1>1. CASE UNCHANGED vars
  BY <1>1 DEF TypeOK, vars, durable, nodes, cadence, luck
<1>2. CASE Next
  BY <1>2, SlotStepType, OtherStepType DEF Next
<1> QED
  BY <1>1, <1>2

\* The types are invariant for every set of pollers and namespaces and all bounds.
THEOREM PollerTypeCorrect == Spec => []TypeOK
<1> QED
  BY CadenceInit, CadenceStep, TypeInit, TypeStep, PTL DEF Spec

----------------------------------------------------------------------------
(* How far each poll is.                                                   *)

Late == {"working", "emitted"}
Sent == {"sent", "answered"} \cup Late

\* A poll has asked for what follows what was stored, goes through the answer from its
\* beginning to its end, and whatever it has been through is marked.
SlotOK(s) ==
    LET r == poll[s]
    IN  /\ r.update # "none" => r.stage \in Late
        /\ r.checking # None => r.stage = "working"
        /\ \A n \in Namespace :
          /\ r.stage \in Sent => r.since[n] <= stored[n]
          /\ r.stage \in {"answered"} \cup Late => r.since[n] <= r.upto[n] /\ r.upto[n] <= stored[n]
          /\ r.stage \in Late => r.since[n] <= r.done[n] /\ r.done[n] <= r.upto[n]
          /\ r.stage \in Late => \A i \in Nat : r.since[n] < i /\ i <= r.done[n] => i \in seen[n]
          /\ r.stage = "emitted" => r.done[n] = r.upto[n]
          /\ r.checking = n => r.done[n] < r.upto[n]
          /\ r.update = "set" => r.old[n] <= stored[n]

Progress == /\ \A n \in Namespace : hashes[n] <= stored[n]
            /\ \A s \in Slot : SlotOK(s)

\* Nothing that others do disturbs a poll.
LEMMA SlotFrame ==
    ASSUME TypeOK, TypeOK', NEW t \in Slot, SlotOK(t), poll'[t] = poll[t],
           \A n \in Namespace : stored[n] <= stored'[n] /\ seen[n] \subseteq seen'[n]
    PROVE  SlotOK(t)'
<1>1. poll[t] \in Poll
  BY DEF TypeOK
<1>2. \A n \in Namespace : /\ stored[n] \in Nat /\ stored'[n] \in Nat
                           /\ poll[t].since[n] \in Nat /\ poll[t].upto[n] \in Nat
                           /\ poll[t].old[n] \in Nat
  BY <1>1, PollFields, PollBounds DEF TypeOK, Hash
<1> QED
  BY <1>2 DEF SlotOK

\* A poll that begins or is over promises nothing.
LEMMA SlotEarly ==
    ASSUME NEW t \in Slot, poll'[t] \in Poll, poll'[t].stage \in {"idle", "swarm", "hashes"},
           poll'[t].checking = None, poll'[t].update = "none"
    PROVE  SlotOK(t)'
BY PollFacts DEF SlotOK, Sent, Late

LEMMA SlotStep ==
    ASSUME TypeOK, TypeOK', Progress, NEW s \in Slot,
           \/ ReceiveSwarms(s) \/ ReadHashes(s) \/ Answer(s) \/ Process(s)
           \/ UpdateRead(s) \/ UpdateWrite(s) \/ MarkSeen(s)
           \/ SwarmConnectionFailed(s) \/ PollRejected(s)
           \/ \E n \in Namespace : HasSeen(s, n)
           \/ \E k : Emitted(s, k)
    PROVE  SlotOK(s)'
<1> DEFINE r == poll[s]
<1> DEFINE q == poll'[s]
<1>1. /\ r \in Poll /\ q \in Poll /\ SlotOK(s)
      /\ DOMAIN r = {"stage", "node", "since", "upto", "done", "checking", "fresh", "update", "old"}
      /\ DOMAIN poll = Slot
  BY PollFields DEF TypeOK, Progress
<1>2. /\ r.since \in Hash /\ r.upto \in Hash /\ r.done \in Hash /\ r.old \in Hash
      /\ hashes \in Hash /\ stored \in Hash
      /\ \A n \in Namespace : hashes[n] <= stored[n]
  <2>1. stored \in Hash
    BY PollBounds DEF TypeOK, Hash
  <2> QED
    BY <1>1, <2>1, PollFields DEF TypeOK, Progress
<1> HIDE DEF r, q
<1>3. CASE ReceiveSwarms(s)
  <2>1. q.stage = "hashes" /\ q.checking = r.checking /\ q.update = r.update /\ r.stage = "swarm"
    BY <1>1, <1>3 DEF ReceiveSwarms, r, q
  <2>2. q.checking = None /\ q.update = "none"
    BY <1>1, <2>1 DEF SlotOK, Late, r
  <2> QED
    BY <1>1, <2>1, <2>2, SlotEarly DEF q
<1>4. CASE ReadHashes(s)
  <2>1. /\ q.stage = "sent" /\ q.since = hashes /\ q.checking = r.checking /\ q.update = r.update
        /\ r.stage = "hashes"
    BY <1>1, <1>4 DEF ReadHashes, r, q
  <2>2. UNCHANGED <<stored, seen>>
    BY <1>4 DEF ReadHashes, durable
  <2> QED
    BY <1>1, <1>2, <2>1, <2>2, PollFacts DEF SlotOK, Sent, Late, r, q
<1>5. CASE Answer(s)
  <2>1. /\ q.stage = "answered" /\ q.since = r.since /\ q.checking = r.checking
        /\ q.update = r.update /\ q.upto = AnswerTo(s) /\ r.stage = "sent"
    BY <1>1, <1>5 DEF Answer, r, q
  <2>2. UNCHANGED <<stored, seen>>
    BY <1>5 DEF Answer, durable
  <2>3. \A n \in Namespace : AnswerTo(s)[n] = stored[n] \/ AnswerTo(s)[n] = r.since[n]
    BY DEF AnswerTo, r
  <2>4. q.checking = None /\ q.update = "none"
    BY <1>1, <2>1, PollFields DEF SlotOK, Late, r
  <2>5. \A n \in Namespace : q.since[n] <= q.upto[n] /\ q.upto[n] <= stored[n] /\ q.since[n] <= stored[n]
    BY <1>1, <1>2, <2>1, <2>3 DEF SlotOK, Sent, Hash, r
  <2> QED
    BY <2>1, <2>2, <2>4, <2>5, PollFacts DEF SlotOK, Late, q
<1>6. CASE Process(s)
  <2>1. r.stage = "answered" /\ q = Received(r) /\ UNCHANGED <<stored, seen>>
    BY <1>1, <1>6 DEF Process, r, q, durable
  <2>2. CASE q = Idle
    BY <1>1, <2>2, SlotEarly DEF Idle, q
  <2>3. CASE q # Idle
    <3>1. /\ q.stage = "working" /\ q.since = r.since /\ q.upto = r.upto /\ q.done = r.since
          /\ q.checking = r.checking /\ q.update = "get"
      BY <1>1, <2>1, <2>3 DEF Received
    <3>2. q.checking = None
      BY <1>1, <2>1, <3>1 DEF SlotOK, r
    <3>3. \A n \in Namespace : /\ q.since[n] <= q.upto[n] /\ q.upto[n] <= stored[n]
                               /\ q.since[n] <= stored[n] /\ q.since[n] <= q.done[n]
                               /\ q.done[n] <= q.upto[n]
                               /\ \A i \in Nat : ~(q.since[n] < i /\ i <= q.done[n])
      BY <1>1, <1>2, <2>1, <3>1 DEF SlotOK, Sent, Hash, r
    <3> QED
      BY <2>1, <3>1, <3>2, <3>3, PollFacts DEF SlotOK, Late, q
  <2> QED
    BY <2>2, <2>3
<1>7. CASE UpdateRead(s)
  <2>1. /\ q.stage = r.stage /\ q.since = r.since /\ q.upto = r.upto /\ q.done = r.done
        /\ q.checking = r.checking /\ q.update = "set" /\ q.old = hashes /\ r.update = "get"
    BY <1>1, <1>7 DEF UpdateRead, r, q
  <2>2. UNCHANGED <<stored, seen>>
    BY <1>7 DEF UpdateRead, durable
  <2> QED
    BY <1>1, <1>2, <2>1, <2>2, PollFacts DEF SlotOK, Sent, Late, r, q
<1>8. CASE UpdateWrite(s)
  <2>1. q = Finished([r EXCEPT !.update = "none"]) /\ UNCHANGED <<stored, seen>>
    BY <1>1, <1>8 DEF UpdateWrite, r, q
  <2>2. CASE q = Idle
    BY <1>1, <2>2, SlotEarly DEF Idle, q
  <2>3. CASE q # Idle
    <3>1. /\ q.stage = r.stage /\ q.since = r.since /\ q.upto = r.upto /\ q.done = r.done
          /\ q.checking = r.checking /\ q.update = "none"
      BY <1>1, <2>1, <2>3 DEF Finished
    <3> QED
      BY <1>1, <1>2, <2>1, <3>1 DEF SlotOK, Sent, Late, r, q
  <2> QED
    BY <2>2, <2>3
<1>9. CASE MarkSeen(s)
  <2> DEFINE n == r.checking
  <2>1. /\ n # None /\ q = Kept(r, n) /\ stored' = stored
        /\ seen' = [seen EXCEPT ![n] = @ \cup {Coming(r, n)}]
    BY <1>1, <1>9 DEF MarkSeen, r, q
  <2>2. n \in Namespace
    BY <1>1, <2>1, PollFields
  <2> HIDE DEF n
  <2>3. /\ q.stage = r.stage /\ q.since = r.since /\ q.upto = r.upto /\ q.old = r.old
        /\ q.checking = None /\ q.update = r.update
        /\ q.done = [r.done EXCEPT ![n] = Coming(r, n)]
    BY <1>1, <2>1 DEF Kept
  <2>4. r.stage = "working" /\ r.done[n] < r.upto[n]
    BY <1>1, <2>1, <2>2 DEF SlotOK, r, n
  <2>5. seen \in [Namespace -> SUBSET Nat]
    BY DEF TypeOK
  <2>6. ASSUME NEW m \in Namespace, NEW i \in Nat, q.since[m] < i, i <= q.done[m]
        PROVE  i \in seen'[m]
    <3>1. i <= r.done[m] \/ (m = n /\ i = Coming(r, n))
      BY <1>2, <2>2, <2>3, <2>6 DEF Coming, Hash
    <3> QED
      BY <1>1, <2>1, <2>2, <2>3, <2>4, <2>5, <2>6, <3>1 DEF SlotOK, Late, r
  <2>7. \A m \in Namespace : q.since[m] <= q.done[m] /\ q.done[m] <= q.upto[m]
    BY <1>1, <1>2, <2>2, <2>3, <2>4 DEF SlotOK, Late, Coming, Hash, r
  <2> QED
    BY <1>1, <1>2, <2>1, <2>3, <2>4, <2>6, <2>7, PollFacts DEF SlotOK, Sent, Late, r, q
<1>10. CASE SwarmConnectionFailed(s)
  <2>1. /\ r.stage \in {"sent", "answered"} /\ UNCHANGED <<stored, seen>>
        /\ \/ q = Idle
           \/ /\ q.stage = "sent" /\ q.since = r.since /\ q.checking = r.checking
              /\ q.update = r.update
    BY <1>1, <1>10, ZenonT(60) DEF SwarmConnectionFailed, r, q, durable
  <2>2. CASE q = Idle
    BY <1>1, <2>2, SlotEarly DEF Idle, q
  <2> QED
    BY <1>1, <1>2, <2>1, <2>2, PollFacts DEF SlotOK, Sent, Late, r, q
<1>11. CASE PollRejected(s)
  <2>1. q = Idle
    BY <1>1, <1>11 DEF PollRejected, q
  <2> QED
    BY <1>1, <2>1, SlotEarly DEF Idle, q
<1>12. ASSUME NEW n \in Namespace, HasSeen(s, n) PROVE SlotOK(s)'
  <2>1. /\ r.stage = "working" /\ r.checking = None /\ r.done[n] < r.upto[n]
        /\ UNCHANGED <<stored, seen>>
        /\ \/ Coming(r, n) \in seen[n] /\ q = Passed(r, n)
           \/ q = [r EXCEPT !.checking = n]
    BY <1>1, <1>12 DEF HasSeen, r, q, durable
  <2>2. CASE q = [r EXCEPT !.checking = n]
    <3>1. /\ q.stage = "working" /\ q.since = r.since /\ q.upto = r.upto /\ q.done = r.done
          /\ q.checking = n /\ q.update = r.update /\ q.old = r.old
      BY <1>1, <2>1, <2>2
    <3> QED
      BY <1>1, <1>2, <2>1, <3>1 DEF SlotOK, Sent, Late, r, q
  <2>3. CASE Coming(r, n) \in seen[n] /\ q = Passed(r, n)
    <3>1. /\ q.stage = "working" /\ q.since = r.since /\ q.upto = r.upto
          /\ q.done = [r.done EXCEPT ![n] = Coming(r, n)]
          /\ q.checking = None /\ q.update = r.update /\ q.old = r.old
      BY <1>1, <2>1, <2>3 DEF Passed
    <3>2. ASSUME NEW m \in Namespace, NEW i \in Nat, q.since[m] < i, i <= q.done[m]
          PROVE  i \in seen[m]
      <4>1. i <= r.done[m] \/ (m = n /\ i = Coming(r, n))
        BY <1>2, <3>1, <3>2 DEF Coming, Hash
      <4> QED
        BY <1>1, <2>1, <2>3, <3>1, <3>2, <4>1 DEF SlotOK, Late, r
    <3>3. \A m \in Namespace : q.since[m] <= q.done[m] /\ q.done[m] <= q.upto[m]
      BY <1>1, <1>2, <2>1, <3>1 DEF SlotOK, Late, Coming, Hash, r
    <3> QED
      BY <1>1, <1>2, <2>1, <3>1, <3>2, <3>3, PollFacts DEF SlotOK, Sent, Late, r, q
  <2> QED
    BY <2>1, <2>2, <2>3
<1>13. ASSUME NEW k, Emitted(s, k) PROVE SlotOK(s)'
  <2>1. /\ r.stage = "working" /\ r.checking = None /\ r.done = r.upto
        /\ UNCHANGED <<stored, seen>> /\ q = Finished([r EXCEPT !.stage = "emitted"])
    BY <1>1, <1>13 DEF Emitted, r, q, durable
  <2>2. CASE q = Idle
    BY <1>1, <2>2, SlotEarly DEF Idle, q
  <2>3. CASE q # Idle
    <3>1. /\ q.stage = "emitted" /\ q.since = r.since /\ q.upto = r.upto /\ q.done = r.done
          /\ q.checking = None /\ q.update = r.update /\ q.old = r.old
      BY <1>1, <2>1, <2>3 DEF Finished
    <3> QED
      BY <1>1, <1>2, <2>1, <3>1, PollFacts DEF SlotOK, Sent, Late, r, q
  <2> QED
    BY <2>2, <2>3
<1> QED
  BY <1>3, <1>4, <1>5, <1>6, <1>7, <1>8, <1>9, <1>10, <1>11, <1>12, <1>13

\* What can happen besides a step of a poll, as far as polls and messages are concerned.
LEMMA Shape ==
    ASSUME [Next]_vars
    PROVE  \/ UNCHANGED <<durable, poll, delivered, luck>>
           \/ (\E ps : Begin(ps)) /\ UNCHANGED <<durable, delivered, luck>>
           \/ \E n \in Namespace : Send(n)
           \/ Crash
           \/ \E s \in Slot : Continue(s) \/ SwarmConnectionFailed(s) \/ PollRejected(s) \/ ListenerThrows(s)
<1>1. CASE UNCHANGED vars
  BY <1>1 DEF vars
<1>2. CASE \/ SetMnemonic
           \/ \E p \in Pollers :
                 \/ AddPoller(p) \/ StartPolling(p) \/ StopPolling(p) \/ Tick(p) \/ PollNow(p)
                 \/ \E i \in {UserInterval[p], None} : SetInterval(p, i)
           \/ \E i \in Intervals : SetPollInterval(i)
  BY <1>2 DEF SetMnemonic, AddPoller, StartPolling, StopPolling, Tick, PollNow, SetInterval,
              SetPollInterval, Start, Restart
<1> QED
  BY <1>1, <1>2 DEF Next

\* Only the poll itself changes its slot once it has begun, and only messages are added.
LEMMA OthersKept ==
    ASSUME TypeOK, TypeOK', NEW s \in Slot,
           \/ Continue(s) \/ SwarmConnectionFailed(s) \/ PollRejected(s) \/ ListenerThrows(s)
    PROVE  /\ \A t \in Slot \ {s} : poll'[t] = poll[t]
           /\ stored' = stored
           /\ \A n \in Namespace : seen[n] \subseteq seen'[n]
<1>1. CASE MarkSeen(s)
  <2>1. poll[s].checking \in Namespace
    BY <1>1, PollFields DEF MarkSeen, TypeOK
  <2> QED
    BY <1>1, <2>1 DEF MarkSeen, TypeOK
<1>2. CASE ~MarkSeen(s)
  <2>1. /\ UNCHANGED <<stored, seen>>
        /\ poll' = [poll EXCEPT ![s] = poll'[s]]
    BY <1>2 DEF Continue, ReceiveSwarms, ReadHashes, Answer, Process, UpdateRead, UpdateWrite,
                Emit, Emitted, HasSeen, SwarmConnectionFailed, PollRejected, ListenerThrows,
                durable, TypeOK
  <2> QED
    BY <2>1 DEF TypeOK
<1> QED
  BY <1>1, <1>2

LEMMA BegunSlot ==
    ASSUME TypeOK, TypeOK', NEW ps, Begin(ps), NEW t \in Slot
    PROVE  \/ poll'[t] = poll[t]
           \/ /\ poll'[t].stage \in {"swarm", "hashes"}
              /\ poll'[t].checking = None /\ poll'[t].update = "none"
              /\ poll[t].stage = "idle"
BY DEF Begin, NewPoll, Idle, IsIdle

LEMMA ProgressInit == Init => Progress
<1> SUFFICES ASSUME Init PROVE Progress
  OBVIOUS
<1>1. \A t \in Slot : SlotOK(t)
  BY PollFacts DEF Init, SlotOK, Sent, Late, Idle
<1> QED
  BY <1>1 DEF Init, Progress, NoHash

LEMMA ProgressStep == TypeOK /\ TypeOK' /\ Progress /\ [Next]_vars => Progress'
<1> SUFFICES ASSUME TypeOK, TypeOK', Progress, [Next]_vars PROVE Progress'
  OBVIOUS
<1>1. CASE UNCHANGED <<durable, poll, delivered, luck>>
  <2>1. \A n \in Namespace : stored[n] \in Nat
    BY PollBounds DEF TypeOK
  <2> QED
    BY <1>1, <2>1, SlotFrame DEF Progress, durable
<1>2. ASSUME NEW ps, Begin(ps), UNCHANGED <<durable, delivered, luck>> PROVE Progress'
  <2>1. ASSUME NEW t \in Slot PROVE SlotOK(t)'
    <3>1. poll'[t] \in Poll
      BY DEF TypeOK
    <3>2. CASE poll'[t] = poll[t]
      BY <1>2, <3>2, SlotFrame DEF Progress, durable, TypeOK
    <3> QED
      BY <1>2, <3>1, <3>2, BegunSlot, SlotEarly
  <2> QED
    BY <1>2, <2>1 DEF Progress, durable
<1>3. ASSUME NEW n \in Namespace, Send(n) PROVE Progress'
  <2>1. \A m \in Namespace : stored[m] <= stored'[m] /\ stored[m] \in Nat /\ stored'[m] \in Nat
    BY <1>3, PollBounds DEF Send, TypeOK
  <2>2. UNCHANGED <<hashes, seen, poll>>
    BY <1>3 DEF Send
  <2>3. ASSUME NEW t \in Slot PROVE SlotOK(t)'
    BY <2>1, <2>2, SlotFrame DEF Progress
  <2> QED
    BY <2>1, <2>2, <2>3 DEF Progress, TypeOK, Hash
<1>4. CASE Crash
  <2>1. ASSUME NEW t \in Slot PROVE SlotOK(t)'
    <3>1. poll'[t] = Idle
      BY <1>4 DEF Crash
    <3> QED
      BY <3>1, SlotEarly, PollFacts DEF Idle
  <2> QED
    BY <1>4, <2>1 DEF Progress, Crash, durable
<1>5. ASSUME NEW s \in Slot,
             \/ Continue(s) \/ SwarmConnectionFailed(s) \/ PollRejected(s) \/ ListenerThrows(s)
      PROVE  Progress'
  <2>1. SlotOK(s)'
    BY <1>5, SlotStep DEF Continue, Emit, ListenerThrows
  <2>2. ASSUME NEW t \in Slot \ {s} PROVE SlotOK(t)'
    <3>1. \A n \in Namespace : stored[n] \in Nat
      BY PollBounds DEF TypeOK
    <3> QED
      BY <1>5, <3>1, OthersKept, SlotFrame DEF Progress
  <2>3. \A n \in Namespace : hashes'[n] <= stored'[n]
    <3>1. CASE UpdateWrite(s)
      <4>1. hashes' = NewHashes(poll[s]) /\ poll[s].update = "set" /\ stored' = stored
        BY <3>1 DEF UpdateWrite
      <4>2. SlotOK(s)
        BY DEF Progress
      <4> QED
        BY <4>1, <4>2 DEF SlotOK, NewHashes, Late
    <3>2. CASE ~UpdateWrite(s)
      <4>1. UNCHANGED <<hashes, stored>>
        BY <1>5, <3>2 DEF Continue, ReceiveSwarms, ReadHashes, Answer, Process, UpdateRead,
                MarkSeen, Emit, Emitted, HasSeen, SwarmConnectionFailed, PollRejected,
                ListenerThrows, durable
      <4> QED
        BY <4>1 DEF Progress
    <3> QED
      BY <3>1, <3>2
  <2> QED
    BY <2>1, <2>2, <2>3 DEF Progress
<1> QED
  BY <1>1, <1>2, <1>3, <1>4, <1>5, Shape

----------------------------------------------------------------------------
(* No message is lost sight of.                                            *)

LEMMA AppendRange ==
    ASSUME NEW q \in Seq(Nat), NEW x \in Nat
    PROVE  Range(Append(q, x)) = Range(q) \cup {x}
<1>1. DOMAIN Append(q, x) = (DOMAIN q) \cup {Len(q) + 1}
  OBVIOUS
<1>2. \A i \in DOMAIN q : Append(q, x)[i] = q[i]
  OBVIOUS
<1>3. Append(q, x)[Len(q) + 1] = x
  OBVIOUS
<1> QED
  BY <1>1, <1>2, <1>3 DEF Range

LEMMA ConcatRange ==
    ASSUME NEW p \in Seq(Nat), NEW q \in Seq(Nat)
    PROVE  Range(p \o q) = Range(p) \cup Range(q)
<1>1. ASSUME NEW i \in DOMAIN p PROVE i \in DOMAIN (p \o q) /\ (p \o q)[i] = p[i]
  OBVIOUS
<1>2. ASSUME NEW i \in DOMAIN q
      PROVE  Len(p) + i \in DOMAIN (p \o q) /\ (p \o q)[Len(p) + i] = q[i]
  OBVIOUS
<1>3. ASSUME NEW i \in DOMAIN (p \o q) PROVE (p \o q)[i] \in Range(p) \cup Range(q)
  <2>1. CASE i <= Len(p)
    BY <2>1 DEF Range
  <2>2. CASE i > Len(p)
    <3>1. i - Len(p) \in DOMAIN q /\ (p \o q)[i] = q[i - Len(p)]
      BY <2>2
    <3> QED
      BY <3>1 DEF Range
  <2> QED
    BY <2>1, <2>2
<1>4. Range(p \o q) \subseteq Range(p) \cup Range(q)
  BY <1>3 DEF Range
<1>5. Range(p) \subseteq Range(p \o q)
  BY <1>1 DEF Range
<1>6. ASSUME NEW x \in Range(q) PROVE x \in Range(p \o q)
  <2>1. PICK i \in DOMAIN q : x = q[i]
    BY DEF Range
  <2>2. Len(p) + i \in DOMAIN (p \o q) /\ (p \o q)[Len(p) + i] = x
    BY <1>2, <2>1
  <2> QED
    BY <2>2 DEF Range
<1> QED
  BY <1>4, <1>5, <1>6

LEMMA WholeSubSeq ==
    ASSUME NEW q \in Seq(Nat)
    PROVE  SubSeq(q, 1, Len(q)) = q
OBVIOUS

\* A message that a poll has marked is new to some poll, or delivered.
Known(n, i) == \/ IsDelivered(n, i)
               \/ \E s \in Slot : poll[s].stage = "working" /\ IsNew(s, n, i)
Safe(n, i)  == IsDelivered(n, i) \/ InHand(n, i)

\* What a poll leaves behind, as it knows those hashes already, is safe.
BehindSafe(s) ==
    \A n \in Namespace : \A i \in Nat \ {0} :
       \/ poll[s].stage \in Sent /\ i <= poll[s].since[n]
       \/ poll[s].update = "set" /\ i <= poll[s].old[n]
       => Safe(n, i)

Account == ~lossy =>
    /\ \A n \in Namespace : \A i \in Nat \ {0} : i <= hashes[n] => Safe(n, i)
    /\ \A n \in Namespace : \A i \in seen[n] : Known(n, i)
    /\ \A s \in Slot : BehindSafe(s)

LEMMA AccountSkipsNothing == Account /\ TypeOK => NothingSkipped
<1> SUFFICES ASSUME Account, TypeOK, ~lossy, NEW n \in Namespace, NEW i \in 1..stored[n],
                    i <= hashes[n] \/ i \in seen[n]
             PROVE  IsDelivered(n, i) \/ InHand(n, i)
  BY DEF NothingSkipped
<1>1. stored[n] \in Nat /\ i \in Nat \ {0}
  BY PollBounds DEF TypeOK
<1>2. Known(n, i) => Safe(n, i)
  BY DEF Known, Safe, InHand
<1> QED
  BY <1>1, <1>2 DEF Account, Safe

\* A working poll goes on, remembering what it has found new, or emits all of that.
LEMMA KnownKept ==
    ASSUME TypeOK, TypeOK', Progress, NEW s \in Slot,
           Continue(s) \/ SwarmConnectionFailed(s) \/ PollRejected(s),
           NEW n \in Namespace, NEW i \in Nat, Known(n, i)
    PROVE  Known(n, i)'
<1>1. delivered[n] \in Seq(Nat) /\ poll[s] \in Poll /\ poll[s].fresh[n] \in Seq(Nat)
  BY PollFields DEF TypeOK
<1>2. ASSUME IsDelivered(n, i) PROVE IsDelivered(n, i)'
  <2>1. CASE Emit(s)
    <3>1. All(s)[n] = Len(poll[s].fresh[n])
      BY DEF All
    <3>2. delivered'[n] = delivered[n] \o poll[s].fresh[n]
      BY <1>1, <2>1, <3>1, WholeSubSeq DEF Emit, Emitted
    <3> QED
      BY <1>1, <1>2, <3>2, ConcatRange DEF IsDelivered
  <2>2. CASE ~Emit(s)
    <3>1. UNCHANGED delivered
      BY <2>2 DEF Continue, ReceiveSwarms, ReadHashes, Answer, Process, UpdateRead, UpdateWrite,
                  MarkSeen, HasSeen, SwarmConnectionFailed, PollRejected
    <3> QED
      BY <1>2, <3>1 DEF IsDelivered
  <2> QED
    BY <2>1, <2>2
<1>3. ASSUME poll[s].stage = "working", IsNew(s, n, i)
      PROVE  IsDelivered(n, i)' \/ (poll'[s].stage = "working" /\ IsNew(s, n, i)')
  <2>1. CASE Emit(s)
    <3>1. All(s)[n] = Len(poll[s].fresh[n])
      BY DEF All
    <3>2. delivered'[n] = delivered[n] \o poll[s].fresh[n]
      BY <1>1, <2>1, <3>1, WholeSubSeq DEF Emit, Emitted
    <3> QED
      BY <1>1, <1>3, <3>2, ConcatRange DEF IsDelivered, IsNew
  <2>2. CASE MarkSeen(s)
    <3> DEFINE m == poll[s].checking
    <3>1. m \in Namespace /\ poll' = [poll EXCEPT ![s] = Kept(@, m)]
      BY <1>1, <2>2, PollFields DEF MarkSeen
    <3>2. Coming(poll[s], m) \in Nat
      BY <1>1, <3>1, PollFields DEF Coming, Hash
    <3>3. /\ poll'[s].stage = "working"
          /\ \/ poll'[s].fresh[n] = poll[s].fresh[n]
             \/ poll'[s].fresh[n] = Append(poll[s].fresh[n], Coming(poll[s], m))
      BY <1>1, <1>3, <3>1, PollFields, SMTT(30) DEF TypeOK, Kept
    <3> QED
      BY <1>1, <1>3, <3>2, <3>3, AppendRange DEF IsNew
  <2>3. CASE ~Emit(s) /\ ~MarkSeen(s)
    <3>1. poll'[s].stage = "working" /\ poll'[s].fresh = poll[s].fresh
      <4>1. UpdateRead(s) \/ UpdateWrite(s) \/ \E m \in Namespace : HasSeen(s, m)
        BY <1>3, <2>3 DEF Continue, ReceiveSwarms, ReadHashes, Answer, Process,
                          SwarmConnectionFailed, PollRejected
      <4> DEFINE r == poll[s]
      <4>0. r.stage = "working" /\ DOMAIN poll = Slot
            /\ DOMAIN r = {"stage", "node", "since", "upto", "done", "checking", "fresh", "update", "old"}
        BY <1>1, <1>3, PollFields DEF TypeOK
      <4>2. CASE UpdateRead(s)
        <5>1. poll'[s] = [r EXCEPT !.update = "set", !.old = hashes]
          BY <4>0, <4>2 DEF UpdateRead
        <5> HIDE DEF r
        <5> QED
          BY <4>0, <5>1 DEF r
      <4>4. CASE UpdateWrite(s)
        <5>1. poll'[s] = Finished([r EXCEPT !.update = "none"])
          BY <4>0, <4>4 DEF UpdateWrite
        <5>2. [r EXCEPT !.update = "none"].stage = r.stage /\ [r EXCEPT !.update = "none"].fresh = r.fresh
          BY <4>0
        <5> QED
          BY <4>0, <5>1, <5>2 DEF Finished
      <4>3. ASSUME NEW m \in Namespace, HasSeen(s, m)
            PROVE  poll'[s].stage = "working" /\ poll'[s].fresh = poll[s].fresh
        <5>1. poll'[s] = Passed(r, m) \/ poll'[s] = [r EXCEPT !.checking = m]
          BY <4>0, <4>3 DEF HasSeen
        <5> QED
          BY <4>0, <5>1 DEF Passed
      <4> QED
        BY <4>1, <4>2, <4>3, <4>4
    <3> QED
      BY <1>3, <3>1 DEF IsNew
  <2> QED
    BY <2>1, <2>2, <2>3
<1>4. \A t \in Slot \ {s} : poll'[t] = poll[t]
  BY OthersKept
<1> QED
  BY <1>2, <1>3, <1>4 DEF Known, IsNew

\* A poll at work passes over what is marked by then, until it has been through its answer.
LEMMA WorkingStep ==
    ASSUME TypeOK, NEW s \in Slot, poll[s].stage = "working",
           Continue(s) \/ SwarmConnectionFailed(s) \/ PollRejected(s), poll[s].done # poll[s].upto
    PROVE  /\ poll'[s].stage = "working" /\ poll'[s].upto = poll[s].upto
           /\ \/ poll'[s].done = poll[s].done
              \/ \E m \in Namespace : /\ Coming(poll[s], m) \in seen'[m]
                                      /\ poll'[s].done = [poll[s].done EXCEPT ![m] = Coming(poll[s], m)]
<1> DEFINE r == poll[s]
<1>1. r \in Poll /\ DOMAIN poll = Slot
      /\ DOMAIN r = {"stage", "node", "since", "upto", "done", "checking", "fresh", "update", "old"}
  BY PollFields DEF TypeOK
<1>2. \/ UpdateRead(s) \/ UpdateWrite(s) \/ MarkSeen(s) \/ \E m \in Namespace : HasSeen(s, m)
  BY DEF Continue, ReceiveSwarms, ReadHashes, Answer, Process, Emit, Emitted,
         SwarmConnectionFailed, PollRejected
<1>3. CASE UpdateRead(s)
  <2>1. poll'[s] = [r EXCEPT !.update = "set", !.old = hashes]
    BY <1>1, <1>3 DEF UpdateRead
  <2> HIDE DEF r
  <2> QED
    BY <1>1, <2>1 DEF r
<1>4. CASE UpdateWrite(s)
  <2>1. poll'[s] = Finished([r EXCEPT !.update = "none"])
    BY <1>1, <1>4 DEF UpdateWrite
  <2> HIDE DEF r
  <2>2. LET u == [r EXCEPT !.update = "none"]
        IN  u.stage = r.stage /\ u.upto = r.upto /\ u.done = r.done
    BY <1>1
  <2> QED
    BY <1>1, <2>1, <2>2 DEF Finished, r
<1>5. CASE MarkSeen(s)
  <2> DEFINE m == r.checking
  <2>1. m \in Namespace /\ poll'[s] = Kept(r, m)
    BY <1>1, <1>5, PollFields DEF MarkSeen
  <2>2. Coming(r, m) \in seen'[m]
    BY <1>5, <2>1 DEF MarkSeen, TypeOK
  <2> HIDE DEF m, r
  <2>3. /\ poll'[s].stage = r.stage /\ poll'[s].upto = r.upto
        /\ poll'[s].done = [r.done EXCEPT ![m] = Coming(r, m)]
    BY <1>1, <2>1 DEF Kept
  <2> QED
    BY <2>1, <2>2, <2>3 DEF r
<1>6. ASSUME NEW m \in Namespace, HasSeen(s, m)
      PROVE  /\ poll'[s].stage = "working" /\ poll'[s].upto = r.upto
             /\ \/ poll'[s].done = r.done
                \/ Coming(r, m) \in seen'[m] /\ poll'[s].done = [r.done EXCEPT ![m] = Coming(r, m)]
  <2>1. \/ poll'[s] = Passed(r, m) /\ Coming(r, m) \in seen'[m]
        \/ poll'[s] = [r EXCEPT !.checking = m]
    BY <1>1, <1>6 DEF HasSeen, durable
  <2>2. r.stage = "working"
    OBVIOUS
  <2> HIDE DEF r
  <2> QED
    BY <1>1, <2>1, <2>2 DEF Passed
<1> QED
  BY <1>2, <1>3, <1>4, <1>5, <1>6

LEMMA SeenKnown ==
    ASSUME TypeOK, TypeOK', Progress, NEW s \in Slot,
           Continue(s) \/ SwarmConnectionFailed(s) \/ PollRejected(s),
           \A n \in Namespace : \A i \in seen[n] : Known(n, i),
           NEW n \in Namespace, NEW i \in seen'[n]
    PROVE  Known(n, i)'
<1>1. i \in Nat /\ poll[s] \in Poll
  BY DEF TypeOK
<1>2. CASE i \in seen[n]
  BY <1>1, <1>2, KnownKept
<1>3. CASE i \notin seen[n]
  <2>1. MarkSeen(s)
    BY <1>3 DEF Continue, ReceiveSwarms, ReadHashes, Answer, Process, UpdateRead, UpdateWrite,
                HasSeen, Emit, Emitted, SwarmConnectionFailed, PollRejected, durable
  <2> DEFINE r == poll[s]
  <2>2. /\ r.checking = n /\ i = Coming(r, n) /\ poll'[s] = Kept(r, n)
    BY <1>3, <2>1 DEF MarkSeen, TypeOK
  <2>3. r.stage = "working"
    BY <2>2, PollFacts DEF Progress, SlotOK
  <2>4. DOMAIN r = {"stage", "node", "since", "upto", "done", "checking", "fresh", "update", "old"}
        /\ r.fresh \in [Namespace -> Seq(Nat)]
    BY <1>1, PollFields
  <2> HIDE DEF r
  <2>5. poll'[s].stage = "working" /\ poll'[s].fresh[n] = Append(r.fresh[n], i)
    BY <2>2, <2>3, <2>4 DEF Kept
  <2>6. i \in Range(Append(r.fresh[n], i))
    BY <1>1, <2>4, AppendRange
  <2> QED
    BY <2>5, <2>6 DEF Known, IsNew
<1> QED
  BY <1>2, <1>3

LEMMA SafeKept ==
    ASSUME TypeOK, TypeOK', Progress, NEW s \in Slot,
           Continue(s) \/ SwarmConnectionFailed(s) \/ PollRejected(s),
           \A n \in Namespace : \A i \in seen[n] : Known(n, i),
           NEW n \in Namespace, NEW i \in Nat, Safe(n, i)
    PROVE  Safe(n, i)'
<1>1. Known(n, i)' => Safe(n, i)'
  BY DEF Known, Safe, InHand
<1>2. CASE Known(n, i)
  BY <1>1, <1>2, KnownKept
<1>3. ASSUME NEW t \in Slot, poll[t].stage = "working", ToCheck(t, n, i) PROVE Safe(n, i)'
  <2>1. CASE t # s
    <3>1. poll'[t] = poll[t]
      BY <2>1, OthersKept
    <3> QED
      BY <1>3, <3>1 DEF Safe, InHand, ToCheck
  <2>2. CASE t = s
    <3>1. poll[s] \in Poll /\ poll[s].done[n] \in Nat /\ poll[s].upto[n] \in Nat
      BY PollFields DEF TypeOK, Hash
    <3>2. poll[s].done # poll[s].upto
      BY <1>3, <2>2, <3>1 DEF ToCheck
    <3>3. /\ poll'[s].stage = "working" /\ poll'[s].upto = poll[s].upto
          /\ \/ poll'[s].done = poll[s].done
             \/ \E m \in Namespace : /\ Coming(poll[s], m) \in seen'[m]
                                     /\ poll'[s].done = [poll[s].done EXCEPT ![m] = Coming(poll[s], m)]
      BY <1>3, <2>2, <3>2, WorkingStep
    <3>4. CASE poll'[s].done[n] = poll[s].done[n]
      BY <1>3, <2>2, <3>3, <3>4 DEF Safe, InHand, ToCheck
    <3>5. CASE /\ Coming(poll[s], n) \in seen'[n]
               /\ poll'[s].done[n] = Coming(poll[s], n)
      <4>1. i = Coming(poll[s], n) \/ ToCheck(s, n, i)'
        BY <1>3, <2>2, <3>1, <3>3, <3>5 DEF Coming, ToCheck
      <4>2. CASE i = Coming(poll[s], n)
        BY <1>1, <3>5, <4>2, SeenKnown
      <4> QED
        BY <3>3, <4>1, <4>2 DEF Safe, InHand
    <3>6. poll[s].done \in Hash
      BY <3>1, PollFields
    <3> QED
      BY <3>3, <3>4, <3>5, <3>6 DEF Hash
  <2> QED
    BY <2>1, <2>2
<1> QED
  BY <1>2, <1>3 DEF Safe, Known, InHand

\* What a poll leaves behind it asked with, or read as the last hashes.
LEMMA BehindStep ==
    ASSUME TypeOK, TypeOK', Progress, NEW s \in Slot,
           Continue(s) \/ SwarmConnectionFailed(s) \/ PollRejected(s)
    PROVE  /\ poll'[s].stage \in Sent =>
                 \/ poll'[s].since = hashes /\ NoneWorking
                 \/ poll[s].stage \in Sent /\ poll'[s].since = poll[s].since
           /\ poll'[s].update = "set" =>
                 \/ poll'[s].old = hashes
                 \/ poll[s].update = "set" /\ poll'[s].old = poll[s].old
<1> DEFINE r == poll[s]
           q == poll'[s]
<1>1. r \in Poll /\ DOMAIN poll = Slot
      /\ DOMAIN r = {"stage", "node", "since", "upto", "done", "checking", "fresh", "update", "old"}
  BY PollFields DEF TypeOK
<1>2. SlotOK(s)
  BY DEF Progress
<1>3. CASE ReceiveSwarms(s)
  <2>1. q.stage = "hashes" /\ q.update = r.update /\ q.old = r.old
    BY <1>1, <1>3 DEF ReceiveSwarms
  <2> QED
    BY <2>1 DEF Sent, Late
<1>4. CASE ReadHashes(s)
  <2>1. q = [r EXCEPT !.stage = "sent", !.since = hashes] /\ NoneWorking
    BY <1>1, <1>4 DEF ReadHashes
  <2> HIDE DEF r
  <2>2. q.since = hashes /\ q.update = r.update /\ q.old = r.old
    BY <1>1, <2>1
  <2> QED
    BY <2>1, <2>2 DEF r
<1>5. CASE Answer(s)
  <2>1. q = [r EXCEPT !.stage = "answered", !.upto = AnswerTo(s)] /\ r.stage = "sent"
    BY <1>1, <1>5 DEF Answer
  <2> HIDE DEF r
  <2>2. q.since = r.since /\ q.update = r.update /\ q.old = r.old
    BY <1>1, <2>1
  <2> QED
    BY <2>1, <2>2 DEF r, Sent
<1>6. CASE Process(s)
  <2>1. q = Received(r) /\ r.stage = "answered"
    BY <1>1, <1>6 DEF Process
  <2> HIDE DEF r
  <2>2. q = Idle \/ (q.since = r.since /\ q.update = "get")
    BY <1>1, <2>1 DEF Received
  <2>3. Idle.stage = "idle" /\ Idle.update = "none"
    BY DEF Idle
  <2> QED
    BY <2>1, <2>2, <2>3 DEF r, Sent, Late
<1>7. CASE UpdateRead(s)
  <2>1. q = [r EXCEPT !.update = "set", !.old = hashes]
    BY <1>1, <1>7 DEF UpdateRead
  <2> HIDE DEF r
  <2>2. q.stage = r.stage /\ q.since = r.since /\ q.old = hashes
    BY <1>1, <2>1
  <2> QED
    BY <2>2 DEF r
<1>8. CASE UpdateWrite(s)
  <2>1. q = Finished([r EXCEPT !.update = "none"])
    BY <1>1, <1>8 DEF UpdateWrite
  <2> HIDE DEF r
  <2>2. q = Idle \/ (q.stage = r.stage /\ q.since = r.since /\ q.update = "none")
    BY <1>1, <2>1 DEF Finished
  <2>3. Idle.stage = "idle" /\ Idle.update = "none"
    BY DEF Idle
  <2> QED
    BY <2>2, <2>3 DEF r, Sent, Late
<1>9. CASE MarkSeen(s)
  <2> DEFINE m == r.checking
  <2>1. q = Kept(r, m)
    BY <1>1, <1>9 DEF MarkSeen
  <2> HIDE DEF r
  <2>2. q.stage = r.stage /\ q.since = r.since /\ q.update = r.update /\ q.old = r.old
    BY <1>1, <2>1 DEF Kept
  <2> QED
    BY <2>2 DEF r
<1>10. CASE Emit(s)
  <2>1. q = Finished([r EXCEPT !.stage = "emitted"]) /\ r.stage = "working"
    BY <1>1, <1>10 DEF Emit, Emitted
  <2> HIDE DEF r
  <2>2. q = Idle \/ (q.since = r.since /\ q.update = r.update /\ q.old = r.old)
    BY <1>1, <2>1 DEF Finished
  <2>3. Idle.stage = "idle" /\ Idle.update = "none"
    BY DEF Idle
  <2> QED
    BY <2>1, <2>2, <2>3 DEF r, Sent, Late
<1>11. ASSUME NEW m \in Namespace, HasSeen(s, m)
       PROVE  q.stage = r.stage /\ q.since = r.since /\ q.update = r.update /\ q.old = r.old
  <2>1. q = Passed(r, m) \/ q = [r EXCEPT !.checking = m]
    BY <1>1, <1>11 DEF HasSeen
  <2> HIDE DEF r, q
  <2> QED
    BY <1>1, <2>1 DEF Passed
<1>12. CASE PollRejected(s)
  <2>1. q = Idle
    BY <1>1, <1>12 DEF PollRejected
  <2> QED
    BY <2>1 DEF Idle, Sent, Late
<1>13. CASE SwarmConnectionFailed(s)
  <2>1. /\ r.stage \in {"sent", "answered"}
        /\ \/ q = Idle
           \/ \E n \in Nodes : q = [r EXCEPT !.stage = "sent", !.node = n, !.upto = NoHash]
    BY <1>1, <1>13 DEF SwarmConnectionFailed, TypeOK
  <2> HIDE DEF r
  <2>2. q = Idle \/ (q.since = r.since /\ q.update = r.update /\ q.old = r.old)
    BY <1>1, <2>1
  <2>3. Idle.stage = "idle" /\ Idle.update = "none"
    BY DEF Idle
  <2> QED
    BY <2>1, <2>2, <2>3 DEF r, Sent, Late
<1> QED
  BY <1>3, <1>4, <1>5, <1>6, <1>7, <1>8, <1>9, <1>10, <1>11, <1>12, <1>13 DEF Continue

\* The hashes that a poll stores do not pass over anything either.
LEMMA WriteSafe ==
    ASSUME TypeOK, Progress, Account, ~lossy, NEW s \in Slot, UpdateWrite(s),
           NEW n \in Namespace, NEW i \in Nat \ {0}, i <= hashes'[n]
    PROVE  Safe(n, i)
<1> DEFINE r == poll[s]
<1>1. r \in Poll /\ SlotOK(s) /\ BehindSafe(s) /\ r.update = "set" /\ r.stage \in Late
  BY DEF TypeOK, Progress, Account, UpdateWrite, SlotOK
<1>2. /\ r.since[n] \in Nat /\ r.upto[n] \in Nat /\ r.done[n] \in Nat /\ r.old[n] \in Nat
  BY <1>1, PollFields DEF Hash
<1>3. hashes'[n] = IF n \in News(r) THEN r.upto[n] ELSE r.old[n]
  BY DEF UpdateWrite, NewHashes
<1>4. CASE i <= r.since[n] \/ i <= r.old[n]
  BY <1>1, <1>4 DEF BehindSafe, Sent
<1>5. CASE i > r.since[n] /\ i <= r.done[n]
  <2>1. i \in seen[n]
    BY <1>1, <1>5 DEF SlotOK
  <2> QED
    BY <2>1 DEF Account, Known, Safe, InHand
<1>6. CASE i > r.done[n] /\ i <= r.upto[n]
  <2>1. r.stage = "working"
    BY <1>1, <1>2, <1>6 DEF SlotOK, Late
  <2> QED
    BY <1>6, <2>1 DEF Safe, InHand, ToCheck
<1> QED
  BY <1>2, <1>3, <1>4, <1>5, <1>6

LEMMA AccountSlotStep ==
    ASSUME TypeOK, TypeOK', Progress, Account, ~lossy, NEW s \in Slot,
           Continue(s) \/ SwarmConnectionFailed(s) \/ PollRejected(s)
    PROVE  Account'
<1>1. /\ \A n \in Namespace : \A i \in Nat \ {0} : i <= hashes[n] => Safe(n, i)
      /\ \A n \in Namespace : \A i \in seen[n] : Known(n, i)
      /\ \A t \in Slot : BehindSafe(t)
  BY DEF Account
<1>2. ASSUME NEW n \in Namespace, NEW i \in Nat, Safe(n, i) PROVE Safe(n, i)'
  BY <1>1, <1>2, SafeKept
<1>3. ASSUME NEW n \in Namespace, NEW i \in Nat \ {0}, i <= hashes'[n] PROVE Safe(n, i)'
  <2>1. CASE UpdateWrite(s)
    BY <1>2, <1>3, <2>1, WriteSafe
  <2>2. CASE ~UpdateWrite(s)
    <3>1. UNCHANGED hashes
      BY <2>2 DEF Continue, ReceiveSwarms, ReadHashes, Answer, Process, UpdateRead, MarkSeen,
                  Emit, Emitted, HasSeen, SwarmConnectionFailed, PollRejected, durable
    <3> QED
      BY <1>1, <1>2, <1>3, <3>1
  <2> QED
    BY <2>1, <2>2
<1>4. \A n \in Namespace : \A i \in seen'[n] : Known(n, i)'
  BY <1>1, SeenKnown
<1>5. ASSUME NEW t \in Slot PROVE BehindSafe(t)'
  <2>1. CASE t = s
    BY <1>1, <1>2, <2>1, BehindStep DEF BehindSafe
  <2>2. CASE t # s
    <3>1. poll'[t] = poll[t]
      BY <2>2, OthersKept
    <3> QED
      BY <1>1, <1>2, <3>1 DEF BehindSafe
  <2> QED
    BY <2>1, <2>2
<1> QED
  BY <1>3, <1>4, <1>5 DEF Account

LEMMA AccountInit == Init => Account
<1> SUFFICES ASSUME Init PROVE Account
  OBVIOUS
<1>1. \A t \in Slot : BehindSafe(t)
  BY DEF Init, BehindSafe, Idle, Sent, Late
<1> QED
  BY <1>1 DEF Init, Account, NoHash

LEMMA AccountStep == TypeOK /\ TypeOK' /\ Progress /\ Account /\ [Next]_vars => Account'
<1> SUFFICES ASSUME TypeOK, TypeOK', Progress, Account, [Next]_vars, ~lossy' PROVE Account'
  BY DEF Account
<1>1. ASSUME NEW s \in Slot,
             \/ Continue(s) \/ SwarmConnectionFailed(s) \/ PollRejected(s) \/ ListenerThrows(s)
      PROVE  Account'
  <2>1. ~lossy /\ ~ListenerThrows(s)
    BY <1>1 DEF Continue, ReceiveSwarms, ReadHashes, Answer, Process, UpdateRead, UpdateWrite,
                MarkSeen, Emit, HasSeen, SwarmConnectionFailed, PollRejected, ListenerThrows,
                Suffers, luck, TypeOK
  <2> QED
    BY <1>1, <2>1, AccountSlotStep
<1>2. ASSUME UNCHANGED <<hashes, seen, delivered, lossy>>,
             \A t \in Slot : \/ poll'[t] = poll[t]
                             \/ /\ poll'[t].stage \in {"swarm", "hashes"}
                                /\ poll'[t].update = "none"
                                /\ poll[t].stage = "idle"
      PROVE  Account'
  <2>1. ASSUME NEW n \in Namespace, NEW i, Known(n, i) PROVE Known(n, i)'
    BY <1>2, <2>1 DEF Known, IsDelivered, IsNew
  <2>2. ASSUME NEW n \in Namespace, NEW i, Safe(n, i) PROVE Safe(n, i)'
    BY <1>2, <2>2 DEF Safe, InHand, IsDelivered, IsNew, ToCheck
  <2>3. ASSUME NEW t \in Slot PROVE BehindSafe(t)'
    BY <1>2, <2>2 DEF BehindSafe, Account, Sent, Late
  <2> QED
    BY <1>2, <2>1, <2>2, <2>3 DEF Account
<1>3. CASE UNCHANGED <<durable, poll, delivered, luck>>
  BY <1>2, <1>3 DEF durable, luck
<1>4. ASSUME NEW ps, Begin(ps), UNCHANGED <<durable, delivered, luck>> PROVE Account'
  BY <1>2, <1>4, BegunSlot DEF durable, luck
<1>5. ASSUME NEW n \in Namespace, Send(n) PROVE Account'
  BY <1>2, <1>5 DEF Send, luck
<1>6. ~Crash
  BY DEF Crash, Suffers
<1> QED
  BY <1>1, <1>3, <1>4, <1>5, <1>6, Shape

\* No message is lost sight of, whatever the number of pollers, namespaces, messages, polls
\* in flight and failures: polls may overwrite the last hashes as they like, since what they
\* still have in hand, or what was delivered, makes up for it (polling/index.ts:275-278,
\* instance/polling.ts:47-54, 180-195).
THEOREM NothingIsSkipped == Spec => []NothingSkipped
<1>1. Init => CadenceInv /\ TypeOK /\ Progress /\ Account
  BY CadenceInit, TypeInit, ProgressInit, AccountInit
<1>2. CadenceInv /\ TypeOK /\ Progress /\ Account /\ [Next]_vars
      => (CadenceInv /\ TypeOK /\ Progress /\ Account)'
  BY CadenceStep, TypeStep, ProgressStep, AccountStep
<1> QED
  BY <1>1, <1>2, AccountSkipsNothing, PTL DEF Spec

----------------------------------------------------------------------------
(* Over a synchronous storage, messages are emitted once and in order.     *)

Same(s) == LET r == poll[s]
               q == poll'[s]
           IN  /\ q.stage = r.stage /\ q.since = r.since /\ q.upto = r.upto
               /\ q.done = r.done /\ q.checking = r.checking /\ q.fresh = r.fresh

LEMMA ReadEffect ==
    ASSUME TypeOK, NEW s \in Slot, UpdateRead(s)
    PROVE  Same(s) /\ poll'[s].old = hashes /\ UNCHANGED <<hashes, seen, storage, delivered>>
<1> DEFINE r == poll[s]
<1>1. DOMAIN poll = Slot
      /\ DOMAIN r = {"stage", "node", "since", "upto", "done", "checking", "fresh", "update", "old"}
  BY PollFields DEF TypeOK
<1>2. poll'[s] = [r EXCEPT !.update = "set", !.old = hashes] /\ UNCHANGED <<hashes, seen, storage, delivered>>
  BY <1>1 DEF UpdateRead, durable
<1> HIDE DEF r
<1> QED
  BY <1>1, <1>2 DEF Same, r

LEMMA WriteEffect ==
    ASSUME TypeOK, Progress, NEW s \in Slot, UpdateWrite(s)
    PROVE  /\ poll[s].update = "set" /\ poll[s].stage \in Late
           /\ hashes' = NewHashes(poll[s]) /\ UNCHANGED <<seen, storage, delivered>>
           /\ \/ poll'[s] = Idle /\ poll[s].stage = "emitted"
              \/ Same(s) /\ poll'[s].update = "none"
<1> DEFINE r == poll[s]
<1>1. DOMAIN poll = Slot /\ SlotOK(s)
      /\ DOMAIN r = {"stage", "node", "since", "upto", "done", "checking", "fresh", "update", "old"}
  BY PollFields DEF TypeOK, Progress
<1>2. /\ r.update = "set" /\ r.stage \in Late
      /\ poll'[s] = Finished([r EXCEPT !.update = "none"])
      /\ hashes' = NewHashes(r) /\ UNCHANGED <<seen, storage, delivered>>
  BY <1>1 DEF UpdateWrite, SlotOK
<1> HIDE DEF r
<1>3. \/ poll'[s] = Idle /\ r.stage = "emitted"
      \/ poll'[s] = [r EXCEPT !.update = "none"]
  BY <1>1, <1>2 DEF Finished
<1> QED
  BY <1>1, <1>2, <1>3 DEF Same, r

LEMMA CheckEffect ==
    ASSUME TypeOK, NEW s \in Slot, NEW n \in Namespace, HasSeen(s, n)
    PROVE  LET r == poll[s]
               q == poll'[s]
           IN  /\ r.stage = "working" /\ r.checking = None /\ q.stage = "working"
               /\ q.since = r.since /\ q.upto = r.upto /\ q.fresh = r.fresh
               /\ q.update = r.update /\ q.old = r.old
               /\ \/ q.checking = None /\ q.done = [r.done EXCEPT ![n] = Coming(r, n)]
                  \/ q.checking = n /\ q.done = r.done /\ Coming(r, n) \notin seen[n]
               /\ UNCHANGED <<hashes, seen, storage, delivered>>
<1> DEFINE r == poll[s]
<1>1. DOMAIN poll = Slot
      /\ DOMAIN r = {"stage", "node", "since", "upto", "done", "checking", "fresh", "update", "old"}
  BY PollFields DEF TypeOK
<1>2. /\ r.stage = "working" /\ r.checking = None
      /\ \/ poll'[s] = Passed(r, n)
         \/ poll'[s] = [r EXCEPT !.checking = n] /\ Coming(r, n) \notin seen[n]
      /\ UNCHANGED <<hashes, seen, storage, delivered>>
  BY <1>1 DEF HasSeen, durable
<1> HIDE DEF r
<1> QED
  BY <1>1, <1>2 DEF Passed, r

LEMMA MarkEffect ==
    ASSUME TypeOK, Progress, NEW s \in Slot, MarkSeen(s)
    PROVE  LET r == poll[s]
               q == poll'[s]
               n == poll[s].checking
           IN  /\ n \in Namespace /\ r.stage = "working" /\ q.stage = "working" /\ q.checking = None
               /\ q.since = r.since /\ q.upto = r.upto /\ q.update = r.update /\ q.old = r.old
               /\ q.done = [r.done EXCEPT ![n] = Coming(r, n)]
               /\ q.fresh = [r.fresh EXCEPT ![n] = Append(r.fresh[n], Coming(r, n))]
               /\ seen' = [seen EXCEPT ![n] = @ \cup {Coming(r, n)}]
               /\ UNCHANGED <<hashes, storage, delivered>>
<1> DEFINE r == poll[s]
           n == poll[s].checking
<1>1. DOMAIN poll = Slot /\ SlotOK(s) /\ r \in Poll
      /\ DOMAIN r = {"stage", "node", "since", "upto", "done", "checking", "fresh", "update", "old"}
  BY PollFields DEF TypeOK, Progress
<1>2. /\ n \in Namespace /\ poll'[s] = Kept(r, n)
      /\ seen' = [seen EXCEPT ![n] = @ \cup {Coming(r, n)}]
      /\ UNCHANGED <<hashes, storage, delivered>>
  BY <1>1, PollFields DEF MarkSeen
<1>3. r.stage = "working"
  BY <1>1, <1>2, PollFacts DEF SlotOK
<1> HIDE DEF r, n
<1> QED
  BY <1>1, <1>2, <1>3 DEF Kept, r, n

LEMMA EmitEffect ==
    ASSUME TypeOK, NEW s \in Slot, NEW k, Emitted(s, k)
    PROVE  LET r == poll[s]
               q == poll'[s]
           IN  /\ r.stage = "working" /\ r.done = r.upto /\ r.checking = None
               /\ q = Idle \/ /\ q.stage = "emitted" /\ q.since = r.since /\ q.checking = None
                              /\ q.update = r.update /\ q.old = r.old
               /\ delivered' = [n \in Namespace |-> delivered[n] \o SubSeq(r.fresh[n], 1, k[n])]
               /\ UNCHANGED <<hashes, seen, storage>>
<1> DEFINE r == poll[s]
<1>1. DOMAIN poll = Slot
      /\ DOMAIN r = {"stage", "node", "since", "upto", "done", "checking", "fresh", "update", "old"}
  BY PollFields DEF TypeOK
<1>2. /\ r.stage = "working" /\ r.done = r.upto /\ r.checking = None
      /\ poll'[s] = Finished([r EXCEPT !.stage = "emitted"])
      /\ delivered' = [n \in Namespace |-> delivered[n] \o SubSeq(r.fresh[n], 1, k[n])]
      /\ UNCHANGED <<hashes, seen, storage>>
  BY <1>1 DEF Emitted, durable
<1> HIDE DEF r
<1>3. poll'[s] = Idle \/ poll'[s] = [r EXCEPT !.stage = "emitted"]
  BY <1>2 DEF Finished
<1> QED
  BY <1>1, <1>2, <1>3 DEF r

LEMMA ProcessEffect ==
    ASSUME TypeOK, Progress, NEW s \in Slot, Process(s)
    PROVE  LET r == poll[s]
               q == poll'[s]
           IN  /\ Quiet /\ r.stage = "answered" /\ UNCHANGED <<hashes, seen, storage, delivered>>
               /\ \/ q = Idle
                  \/ /\ q.stage = "working" /\ q.since = r.since /\ q.upto = r.upto
                     /\ q.fresh = r.fresh /\ q.checking = None /\ q.update = "get"
<1> DEFINE r == poll[s]
<1>1. DOMAIN poll = Slot /\ SlotOK(s)
      /\ DOMAIN r = {"stage", "node", "since", "upto", "done", "checking", "fresh", "update", "old"}
  BY PollFields DEF TypeOK, Progress
<1>2. /\ r.stage = "answered" /\ Quiet /\ UNCHANGED <<hashes, seen, storage, delivered>>
      /\ poll'[s] = Received(r)
  BY <1>1 DEF Process, durable
<1>3. r.checking = None
  BY <1>1, <1>2 DEF SlotOK
<1> HIDE DEF r
<1> QED
  BY <1>1, <1>2, <1>3 DEF Received, r

Early(s) == \/ ReceiveSwarms(s) \/ ReadHashes(s) \/ Answer(s)
            \/ SwarmConnectionFailed(s) \/ PollRejected(s)

LEMMA EarlyEffect ==
    ASSUME TypeOK, NEW s \in Slot, Early(s)
    PROVE  /\ poll[s].stage \notin Late /\ poll'[s].stage \notin Late
           /\ poll'[s].fresh = poll[s].fresh \/ poll'[s] = Idle
           /\ UNCHANGED <<hashes, seen, storage, delivered>>
<1> DEFINE r == poll[s]
<1>1. DOMAIN poll = Slot
      /\ DOMAIN r = {"stage", "node", "since", "upto", "done", "checking", "fresh", "update", "old"}
  BY PollFields DEF TypeOK
<1>2. r.stage \notin Late /\ UNCHANGED <<hashes, seen, storage, delivered>>
  BY <1>1 DEF Early, ReceiveSwarms, ReadHashes, Answer, SwarmConnectionFailed, PollRejected,
              durable, Late
<1>3. \/ poll'[s] = Idle
      \/ \E n : poll'[s] = [r EXCEPT !.stage = "hashes", !.node = n]
      \/ poll'[s] = [r EXCEPT !.stage = "sent", !.since = hashes]
      \/ poll'[s] = [r EXCEPT !.stage = "answered", !.upto = AnswerTo(s)]
      \/ \E n : poll'[s] = [r EXCEPT !.stage = "sent", !.node = n, !.upto = NoHash]
  BY <1>1 DEF Early, ReceiveSwarms, ReadHashes, Answer, SwarmConnectionFailed, PollRejected
<1> HIDE DEF r
<1>4. \/ poll'[s] = Idle
      \/ poll'[s].stage \in {"hashes", "sent", "answered"} /\ poll'[s].fresh = r.fresh
  <2>1. ASSUME NEW n PROVE LET q == [r EXCEPT !.stage = "hashes", !.node = n]
                           IN  q.stage = "hashes" /\ q.fresh = r.fresh
    BY <1>1
  <2>2. ASSUME NEW n PROVE LET q == [r EXCEPT !.stage = "sent", !.node = n, !.upto = NoHash]
                           IN  q.stage = "sent" /\ q.fresh = r.fresh
    BY <1>1
  <2>3. LET q == [r EXCEPT !.stage = "sent", !.since = hashes]
        IN  q.stage = "sent" /\ q.fresh = r.fresh
    BY <1>1
  <2>4. LET q == [r EXCEPT !.stage = "answered", !.upto = AnswerTo(s)]
        IN  q.stage = "answered" /\ q.fresh = r.fresh
    BY <1>1
  <2>5. CASE \E n : poll'[s] = [r EXCEPT !.stage = "hashes", !.node = n]
    BY <2>1, <2>5
  <2>6. CASE \E n : poll'[s] = [r EXCEPT !.stage = "sent", !.node = n, !.upto = NoHash]
    BY <2>2, <2>6
  <2> QED
    BY <1>3, <2>3, <2>4, <2>5, <2>6
<1>5. Idle.stage = "idle"
  BY DEF Idle
<1> QED
  BY <1>2, <1>4, <1>5 DEF Late, r

LEMMA StepKinds ==
    ASSUME NEW s \in Slot, \/ Continue(s) \/ SwarmConnectionFailed(s) \/ PollRejected(s)
                           \/ ListenerThrows(s)
    PROVE  \/ Early(s) \/ Process(s) \/ UpdateRead(s) \/ UpdateWrite(s) \/ MarkSeen(s)
           \/ \E n \in Namespace : HasSeen(s, n)
           \/ \E k : Emitted(s, k)
BY DEF Continue, Early, Emit, ListenerThrows

\* One poll at a time goes through its answer: nobody else stores hashes meanwhile, and what
\* it has looked up is still so when it marks it.
Alone == storage = "sync" =>
    /\ \A s, t \in Slot : poll[s].stage \in Late /\ poll[t].stage \in Late => s = t
    /\ \A s \in Slot : poll[s].update = "set" => poll[s].old = hashes
    /\ \A s \in Slot : \A n \in Namespace :
          poll[s].checking = n => Coming(poll[s], n) \notin seen[n]

LEMMA AloneSlotStep ==
    ASSUME TypeOK, TypeOK', Progress, Progress', Alone, NEW s \in Slot,
           \/ Continue(s) \/ SwarmConnectionFailed(s) \/ PollRejected(s) \/ ListenerThrows(s)
    PROVE  Alone'
<1> SUFFICES ASSUME storage' = "sync" PROVE Alone'
  BY DEF Alone
<1>1. storage = "sync" /\ \A t \in Slot \ {s} : poll'[t] = poll[t]
  BY OthersKept, RestType
<1>2. /\ \A t, u \in Slot : poll[t].stage \in Late /\ poll[u].stage \in Late => t = u
      /\ \A t \in Slot : poll[t].update = "set" => poll[t].old = hashes
      /\ \A t \in Slot : \A n \in Namespace :
            poll[t].checking = n => Coming(poll[t], n) \notin seen[n]
  BY <1>1 DEF Alone
<1>3. \A t \in Slot :
         /\ \A n \in Namespace : /\ poll[t].checking = n => poll[t].stage \in Late
                                 /\ poll'[t].checking = n => poll'[t].stage \in Late
         /\ poll[t].update = "set" => poll[t].stage \in Late
         /\ poll'[t].update = "set" => poll'[t].stage \in Late
  BY PollFacts DEF Progress, SlotOK, Late
<1>4. Quiet => \A t \in Slot : poll[t].stage \notin Late
  BY <1>1 DEF Quiet, Processing, Late
<1>5. ASSUME poll'[s].stage \in Late => poll[s].stage \in Late \/ Quiet,
             poll'[s].update = "set" => poll'[s].old = hashes',
             \A n \in Namespace : poll'[s].checking = n => Coming(poll'[s], n) \notin seen'[n],
             UNCHANGED <<hashes, seen>> \/ poll[s].stage \in Late
      PROVE  Alone'
  <2>1. \A t, u \in Slot : poll'[t].stage \in Late /\ poll'[u].stage \in Late => t = u
    BY <1>1, <1>2, <1>4, <1>5
  <2>2. ASSUME NEW t \in Slot
        PROVE  /\ poll'[t].update = "set" => poll'[t].old = hashes'
               /\ \A n \in Namespace : poll'[t].checking = n => Coming(poll'[t], n) \notin seen'[n]
    <3>1. CASE t = s
      BY <1>5, <3>1
    <3>2. CASE t # s /\ poll[t].stage \notin Late
      BY <1>1, <1>3, <3>2
    <3>3. CASE t # s /\ poll[t].stage \in Late
      BY <1>1, <1>2, <1>5, <3>3
    <3> QED
      BY <3>1, <3>2, <3>3
  <2> QED
    BY <2>1, <2>2 DEF Alone
<1>6. CASE Early(s)
  BY <1>3, <1>5, <1>6, EarlyEffect
<1>7. CASE Process(s)
  <2>1. /\ Quiet /\ UNCHANGED <<hashes, seen>>
        /\ poll'[s] = Idle \/ (poll'[s].checking = None /\ poll'[s].update = "get")
    BY <1>7, ProcessEffect
  <2>2. poll'[s].checking = None /\ poll'[s].update # "set"
    BY <2>1 DEF Idle
  <2> QED
    BY <1>5, <2>1, <2>2, PollFacts
<1>8. CASE UpdateRead(s)
  <2>1. Same(s) /\ poll'[s].old = hashes /\ UNCHANGED <<hashes, seen>>
    BY <1>8, ReadEffect
  <2> QED
    BY <1>2, <1>5, <2>1 DEF Same, Coming
<1>9. CASE UpdateWrite(s)
  <2>1. /\ poll[s].stage \in Late /\ seen' = seen
        /\ poll'[s] = Idle \/ (Same(s) /\ poll'[s].update = "none")
    BY <1>9, WriteEffect
  <2>2. CASE poll'[s] = Idle
    <3>1. poll'[s].checking = None /\ poll'[s].update # "set"
      BY <2>2 DEF Idle
    <3> QED
      BY <1>5, <2>1, <3>1, PollFacts
  <2> QED
    BY <1>2, <1>5, <2>1, <2>2 DEF Same, Coming
<1>10. CASE MarkSeen(s)
  <2>1. /\ poll[s].stage = "working" /\ poll'[s].checking = None
        /\ poll'[s].update = poll[s].update /\ poll'[s].old = poll[s].old /\ hashes' = hashes
    BY <1>10, MarkEffect
  <2> QED
    BY <1>2, <1>5, <2>1, PollFacts DEF Late
<1>11. ASSUME NEW n \in Namespace, HasSeen(s, n) PROVE Alone'
  <2> DEFINE r == poll[s]
             q == poll'[s]
  <2>1. /\ r.stage = "working" /\ q.update = r.update /\ q.old = r.old
        /\ \/ q.checking = None
           \/ q.checking = n /\ q.done = r.done /\ Coming(r, n) \notin seen[n]
        /\ UNCHANGED <<hashes, seen>>
    BY <1>11, CheckEffect
  <2>2. \A m \in Namespace : q.checking = m => Coming(q, m) \notin seen'[m]
    BY <2>1, PollFacts DEF Coming
  <2> QED
    BY <1>2, <1>5, <2>1, <2>2 DEF Late
<1>12. ASSUME NEW k, Emitted(s, k) PROVE Alone'
  <2>1. /\ poll[s].stage = "working" /\ UNCHANGED <<hashes, seen>>
        /\ \/ poll'[s] = Idle
           \/ /\ poll'[s].checking = None
              /\ poll'[s].update = poll[s].update /\ poll'[s].old = poll[s].old
    BY <1>12, EmitEffect
  <2>2. poll'[s].checking = None /\ (poll'[s].update = "set" => poll'[s].old = hashes)
    BY <1>2, <2>1 DEF Idle
  <2> QED
    BY <1>5, <2>1, <2>2, PollFacts DEF Late
<1> QED
  BY <1>6, <1>7, <1>8, <1>9, <1>10, <1>11, <1>12, StepKinds

\* Polls that begin, or are gone, are not in anybody's way.
EarlyOnly ==
    /\ \A t \in Slot : \/ poll'[t] = poll[t]
                       \/ /\ poll'[t].stage \in {"idle", "swarm", "hashes"}
                          /\ poll'[t].update = "none" /\ poll'[t].checking = None
                          /\ poll'[t].fresh = Nothing
    /\ \/ \A t \in Slot : poll'[t] = poll[t] \/ poll[t].stage = "idle"
       \/ \A t \in Slot : poll'[t].stage = "idle"

LEMMA OtherSteps ==
    ASSUME TypeOK, TypeOK', [Next]_vars
    PROVE  \/ EarlyOnly /\ UNCHANGED <<hashes, seen, storage, delivered>>
           \/ \E s \in Slot : Continue(s) \/ SwarmConnectionFailed(s) \/ PollRejected(s) \/ ListenerThrows(s)
<1>1. ASSUME NEW ps, Begin(ps) PROVE EarlyOnly
  BY <1>1 DEF Begin, IsIdle, NewPoll, Idle, EarlyOnly
<1>2. ASSUME Crash PROVE EarlyOnly
  BY <1>2 DEF Crash, Idle, EarlyOnly
<1>3. ASSUME NEW n \in Namespace, Send(n) PROVE EarlyOnly
  BY <1>3 DEF Send, EarlyOnly
<1>4. ASSUME UNCHANGED poll PROVE EarlyOnly
  BY <1>4 DEF EarlyOnly
<1>5. ASSUME Crash \/ \E n \in Namespace : Send(n)
      PROVE  UNCHANGED <<hashes, seen, storage, delivered>>
  BY <1>5 DEF Crash, Send, durable
<1> QED
  BY <1>1, <1>2, <1>3, <1>4, <1>5, Shape DEF durable

LEMMA AloneStep == TypeOK /\ TypeOK' /\ Progress /\ Progress' /\ Alone /\ [Next]_vars => Alone'
<1> SUFFICES ASSUME TypeOK, TypeOK', Progress, Progress', Alone, [Next]_vars PROVE Alone'
  OBVIOUS
<1>1. ASSUME EarlyOnly, UNCHANGED <<hashes, seen, storage, delivered>> PROVE Alone'
  <2>1. ASSUME NEW t \in Slot
        PROVE  \/ poll'[t] = poll[t]
               \/ /\ poll'[t].stage \notin Late
                  /\ poll'[t].update # "set" /\ poll'[t].checking \notin Namespace
    BY <1>1, PollFacts DEF EarlyOnly, Late
  <2> QED
    BY <1>1, <2>1 DEF Alone
<1> QED
  BY <1>1, AloneSlotStep, OtherSteps

\* A message that is never marked, as the process died with it in hand, is behind all polls.
Gone(n, i) == /\ i <= hashes[n]
              /\ \A t \in Slot : poll[t].stage \in Sent => i <= poll[t].since[n]

\* Nothing that is still unmarked is passed over and may yet come: such a message is gone, or
\* it is next for the poll that goes through its answer.
NoGap == storage = "sync" => \A n \in Namespace : \A i \in (Nat \ {0}) \ seen[n] :
    /\ (\E j \in seen[n] : i < j) => Gone(n, i)
    /\ \A t \in Slot : poll[t].stage \in Sent /\ i <= poll[t].since[n] => Gone(n, i)
    /\ i <= hashes[n] => Gone(n, i) \/ \E t \in Slot : poll[t].stage = "working" /\ ToCheck(t, n, i)

LEMMA GoneKept ==
    ASSUME TypeOK, Progress, Alone, storage = "sync", TypeOK', NEW s \in Slot,
           \/ Continue(s) \/ SwarmConnectionFailed(s) \/ PollRejected(s) \/ ListenerThrows(s),
           NEW n \in Namespace, NEW i \in Nat, Gone(n, i)
    PROVE  Gone(n, i)'
<1>1. i <= hashes'[n]
  <2>1. CASE UpdateWrite(s)
    <3>1. /\ poll[s].update = "set" /\ poll[s].stage \in Late /\ hashes' = NewHashes(poll[s])
      BY <2>1, WriteEffect
    <3>2. SlotOK(s) /\ poll[s].old = hashes /\ i <= poll[s].since[n]
      BY <3>1 DEF Progress, Alone, Gone, Sent
    <3>3. poll[s].since[n] \in Nat /\ poll[s].upto[n] \in Nat
      BY PollFields DEF TypeOK, Hash
    <3>4. poll[s].since[n] <= poll[s].upto[n]
      BY <3>1, <3>2 DEF SlotOK
    <3> QED
      BY <3>1, <3>2, <3>3, <3>4 DEF NewHashes, Gone
  <2>2. CASE ~UpdateWrite(s)
    <3>1. hashes' = hashes
      BY <2>2, StepKinds, EarlyEffect, ProcessEffect, ReadEffect, MarkEffect, CheckEffect, EmitEffect
    <3> QED
      BY <3>1 DEF Gone
  <2> QED
    BY <2>1, <2>2
<1>2. ASSUME NEW t \in Slot, poll'[t].stage \in Sent PROVE i <= poll'[t].since[n]
  <2>1. CASE t # s
    BY <1>2, <2>1, OthersKept DEF Gone
  <2>2. CASE t = s /\ ~ListenerThrows(s)
    BY <1>2, <2>2, BehindStep DEF Gone
  <2>3. CASE t = s /\ ListenerThrows(s)
    <3>1. PICK k : Emitted(s, k)
      BY <2>3 DEF ListenerThrows
    <3>2. /\ poll[s].stage = "working"
          /\ poll'[s] = Idle \/ poll'[s].since = poll[s].since
      BY <3>1, EmitEffect
    <3> QED
      BY <1>2, <2>3, <3>2 DEF Gone, Sent, Late, Idle
  <2> QED
    BY <2>1, <2>2, <2>3
<1> QED
  BY <1>1, <1>2 DEF Gone

\* The first two parts of NoGap, as far as the poll that moves is concerned.
LEMMA BehindGone ==
    ASSUME TypeOK, TypeOK', Progress, Alone, NoGap, storage = "sync", NEW s \in Slot,
           \/ Continue(s) \/ SwarmConnectionFailed(s) \/ PollRejected(s) \/ ListenerThrows(s),
           NEW n \in Namespace, NEW i \in Nat \ {0}, i \notin seen[n], i \notin seen'[n],
           \/ poll'[s].stage \in Sent /\ i <= poll'[s].since[n]
           \/ \E j \in seen'[n] : i < j
    PROVE  Gone(n, i)
<1>1. /\ (\E j \in seen[n] : i < j) => Gone(n, i)
      /\ \A t \in Slot : poll[t].stage \in Sent /\ i <= poll[t].since[n] => Gone(n, i)
      /\ i <= hashes[n] => Gone(n, i) \/ \E t \in Slot : poll[t].stage = "working" /\ ToCheck(t, n, i)
  BY DEF NoGap
<1>2. CASE poll'[s].stage \in Sent /\ i <= poll'[s].since[n]
  <2>1. CASE ListenerThrows(s)
    <3>1. PICK k : Emitted(s, k)
      BY <2>1 DEF ListenerThrows
    <3>2. /\ poll[s].stage = "working"
          /\ poll'[s] = Idle \/ poll'[s].since = poll[s].since
      BY <3>1, EmitEffect
    <3> QED
      BY <1>1, <1>2, <3>2 DEF Sent, Late, Idle
  <2>2. CASE ~ListenerThrows(s)
    <3>1. \/ poll'[s].since = hashes /\ NoneWorking
          \/ poll[s].stage \in Sent /\ poll'[s].since = poll[s].since
      BY <1>2, <2>2, BehindStep
    <3>2. NoneWorking => \A t \in Slot : poll[t].stage # "working"
      BY DEF NoneWorking
    <3> QED
      BY <1>1, <1>2, <3>1, <3>2
  <2> QED
    BY <2>1, <2>2
<1>3. ASSUME NEW j \in seen'[n], i < j PROVE Gone(n, i)
  <2>1. CASE j \in seen[n]
    BY <1>1, <1>3, <2>1
  <2>2. CASE j \notin seen[n]
    <3>1. MarkSeen(s)
      BY <2>2, StepKinds, EarlyEffect, ProcessEffect, ReadEffect, WriteEffect, CheckEffect, EmitEffect
    <3>2. /\ poll[s].stage = "working" /\ j = Coming(poll[s], n)
      <4> DEFINE m == poll[s].checking
                 c == Coming(poll[s], m)
      <4>1. /\ poll[s].stage = "working" /\ m \in Namespace
            /\ seen' = [seen EXCEPT ![m] = @ \cup {c}]
        BY <3>1, MarkEffect
      <4>2. seen \in [Namespace -> SUBSET Nat]
        BY DEF TypeOK
      <4> HIDE DEF m, c
      <4>3. m = n /\ j = c
        BY <2>2, <4>1, <4>2
      <4> QED
        BY <4>1, <4>3 DEF m, c
    <3>3. poll[s].done[n] \in Nat /\ poll[s].since[n] \in Nat /\ SlotOK(s)
      BY PollFields DEF TypeOK, Hash, Progress
    <3>4. i <= poll[s].done[n]
      BY <1>3, <3>2, <3>3 DEF Coming
    <3>5. i <= poll[s].since[n]
      BY <3>2, <3>3, <3>4 DEF SlotOK, Late
    <3> QED
      BY <1>1, <3>2, <3>5 DEF Sent, Late
  <2> QED
    BY <2>1, <2>2
<1> QED
  BY <1>2, <1>3

\* The third part.
LEMMA HashesGone ==
    ASSUME TypeOK, TypeOK', Progress, Alone, NoGap, storage = "sync", NEW s \in Slot,
           \/ Continue(s) \/ SwarmConnectionFailed(s) \/ PollRejected(s) \/ ListenerThrows(s),
           NEW n \in Namespace, NEW i \in Nat \ {0}, i \notin seen[n], i \notin seen'[n],
           i <= hashes'[n]
    PROVE  Gone(n, i) \/ \E t \in Slot : poll'[t].stage = "working" /\ ToCheck(t, n, i)'
<1>1. /\ \A t \in Slot : poll[t].stage \in Sent /\ i <= poll[t].since[n] => Gone(n, i)
      /\ i <= hashes[n] => Gone(n, i) \/ \E t \in Slot : poll[t].stage = "working" /\ ToCheck(t, n, i)
  BY DEF NoGap
<1>2. /\ poll[s].since[n] \in Nat /\ poll[s].done[n] \in Nat /\ poll[s].upto[n] \in Nat /\ SlotOK(s)
      /\ poll[s].done \in Hash
  <2>1. SlotOK(s)
    BY DEF Progress
  <2>2. poll[s].since \in Hash /\ poll[s].done \in Hash /\ poll[s].upto \in Hash
    BY PollFields DEF TypeOK
  <2> QED
    BY <2>1, <2>2 DEF Hash
<1>3. ASSUME poll[s].stage = "working", ToCheck(s, n, i)
      PROVE  poll'[s].stage = "working" /\ ToCheck(s, n, i)'
  <2>1. poll[s].done # poll[s].upto
    BY <1>2, <1>3 DEF ToCheck
  <2>2. ~ListenerThrows(s)
    BY <2>1 DEF ListenerThrows, Emitted
  <2>3. /\ poll'[s].stage = "working" /\ poll'[s].upto = poll[s].upto
        /\ \/ poll'[s].done = poll[s].done
           \/ \E m \in Namespace : /\ Coming(poll[s], m) \in seen'[m]
                                   /\ poll'[s].done = [poll[s].done EXCEPT ![m] = Coming(poll[s], m)]
    BY <1>3, <2>1, <2>2, WorkingStep
  <2>4. \/ poll'[s].done[n] = poll[s].done[n]
        \/ poll'[s].done[n] = Coming(poll[s], n) /\ i # Coming(poll[s], n)
    BY <1>2, <2>3 DEF Hash
  <2> QED
    BY <1>2, <1>3, <2>3, <2>4 DEF ToCheck, Coming
<1>4. ASSUME i <= hashes[n]
      PROVE  Gone(n, i) \/ \E t \in Slot : poll'[t].stage = "working" /\ ToCheck(t, n, i)'
  <2>1. ASSUME NEW t \in Slot, poll[t].stage = "working", ToCheck(t, n, i)
        PROVE  poll'[t].stage = "working" /\ ToCheck(t, n, i)'
    <3>1. t # s => poll'[t] = poll[t]
      BY OthersKept
    <3> QED
      BY <1>3, <2>1, <3>1 DEF ToCheck
  <2> QED
    BY <1>1, <1>4, <2>1
<1>5. CASE UpdateWrite(s)
  <2>1. /\ poll[s].update = "set" /\ poll[s].stage \in Late /\ hashes' = NewHashes(poll[s])
        /\ poll[s].old = hashes
    BY <1>5, WriteEffect DEF Alone
  <2>2. CASE n \notin News(poll[s])
    BY <1>4, <2>1, <2>2 DEF NewHashes
  <2>3. CASE n \in News(poll[s])
    <3>1. i <= poll[s].upto[n]
      BY <2>1, <2>3 DEF NewHashes
    <3>2. CASE i <= poll[s].since[n]
      BY <1>1, <2>1, <3>2 DEF Sent
    <3>3. CASE i > poll[s].since[n]
      <4>1. i > poll[s].done[n]
        BY <1>2, <2>1, <3>3 DEF SlotOK
      <4>2. poll[s].stage = "working"
        BY <1>2, <2>1, <3>1, <4>1 DEF SlotOK, Late
      <4> QED
        BY <1>3, <3>1, <4>1, <4>2 DEF ToCheck
    <3> QED
      BY <1>2, <3>2, <3>3
  <2> QED
    BY <2>2, <2>3
<1>6. CASE ~UpdateWrite(s)
  <2>1. hashes' = hashes
    BY <1>6, StepKinds, EarlyEffect, ProcessEffect, ReadEffect, MarkEffect, CheckEffect, EmitEffect
  <2> QED
    BY <1>4, <2>1
<1> QED
  BY <1>5, <1>6

LEMMA NoGapStep == TypeOK /\ TypeOK' /\ Progress /\ Alone /\ NoGap /\ [Next]_vars => NoGap'
<1> SUFFICES ASSUME TypeOK, TypeOK', Progress, Alone, NoGap, [Next]_vars, storage' = "sync",
                    NEW n \in Namespace, NEW i \in Nat \ {0}, i \notin seen'[n]
             PROVE  /\ (\E j \in seen'[n] : i < j) => Gone(n, i)'
                    /\ \A t \in Slot : poll'[t].stage \in Sent /\ i <= poll'[t].since[n] => Gone(n, i)'
                    /\ i <= hashes'[n] =>
                          \/ Gone(n, i)'
                          \/ \E t \in Slot : poll'[t].stage = "working" /\ ToCheck(t, n, i)'
  BY DEF NoGap
<1>1. ASSUME NEW s \in Slot,
             \/ Continue(s) \/ SwarmConnectionFailed(s) \/ PollRejected(s) \/ ListenerThrows(s)
      PROVE  /\ (\E j \in seen'[n] : i < j) => Gone(n, i)'
             /\ \A t \in Slot : poll'[t].stage \in Sent /\ i <= poll'[t].since[n] => Gone(n, i)'
             /\ i <= hashes'[n] =>
                   \/ Gone(n, i)'
                   \/ \E t \in Slot : poll'[t].stage = "working" /\ ToCheck(t, n, i)'
  <2>1. i \notin seen[n] /\ storage = "sync" /\ \A t \in Slot \ {s} : poll'[t] = poll[t]
    BY <1>1, OthersKept, RestType
  <2>2. Gone(n, i) => Gone(n, i)'
    BY <1>1, <2>1, GoneKept
  <2>3. \A t \in Slot \ {s} : poll[t].stage \in Sent /\ i <= poll[t].since[n] => Gone(n, i)
    BY <2>1 DEF NoGap
  <2>4. /\ (\E j \in seen'[n] : i < j) => Gone(n, i)
        /\ poll'[s].stage \in Sent /\ i <= poll'[s].since[n] => Gone(n, i)
    BY <1>1, <2>1, BehindGone
  <2>5. i <= hashes'[n] => Gone(n, i) \/ \E t \in Slot : poll'[t].stage = "working" /\ ToCheck(t, n, i)'
    BY <1>1, <2>1, HashesGone
  <2> QED
    BY <2>1, <2>2, <2>3, <2>4, <2>5
<1>2. ASSUME EarlyOnly, UNCHANGED <<hashes, seen, storage, delivered>>
      PROVE  /\ (\E j \in seen'[n] : i < j) => Gone(n, i)'
             /\ \A t \in Slot : poll'[t].stage \in Sent /\ i <= poll'[t].since[n] => Gone(n, i)'
             /\ i <= hashes'[n] =>
                   \/ Gone(n, i)'
                   \/ \E t \in Slot : poll'[t].stage = "working" /\ ToCheck(t, n, i)'
  <2>1. /\ (\E j \in seen[n] : i < j) => Gone(n, i)
        /\ \A t \in Slot : poll[t].stage \in Sent /\ i <= poll[t].since[n] => Gone(n, i)
        /\ i <= hashes[n] => Gone(n, i) \/ \E t \in Slot : poll[t].stage = "working" /\ ToCheck(t, n, i)
    BY <1>2 DEF NoGap
  <2>2. \A t \in Slot : poll'[t] = poll[t] \/ poll'[t].stage \notin Sent
    BY <1>2 DEF EarlyOnly, Sent, Late
  <2>3. Gone(n, i) => Gone(n, i)'
    BY <1>2, <2>2 DEF Gone
  <2>4. CASE \A t \in Slot : poll'[t] = poll[t] \/ poll[t].stage = "idle"
    BY <1>2, <2>1, <2>2, <2>3, <2>4 DEF ToCheck
  <2>5. CASE \A t \in Slot : poll'[t].stage = "idle"
    <3>1. i <= hashes[n] => Gone(n, i)'
      BY <1>2, <2>5 DEF Gone, Sent, Late
    <3> QED
      BY <1>2, <2>1, <2>2, <2>3, <3>1
  <2> QED
    BY <1>2, <2>4, <2>5 DEF EarlyOnly
<1> QED
  BY <1>1, <1>2, OtherSteps

Increasing(q) == \A i, j \in DOMAIN q : i < j => q[i] < q[j]

LEMMA AppendIncreasing ==
    ASSUME NEW q \in Seq(Nat), NEW c \in Nat, Increasing(q), \A x \in Range(q) : x < c
    PROVE  Increasing(Append(q, c))
<1>1. \A i \in DOMAIN q : q[i] < c
  BY DEF Range
<1> QED
  BY <1>1 DEF Increasing

LEMMA ConcatIncreasing ==
    ASSUME NEW p \in Seq(Nat), NEW q \in Seq(Nat), Increasing(p), Increasing(q),
           \A x \in Range(p), y \in Range(q) : x < y
    PROVE  Increasing(p \o q)
<1>1. \A i \in DOMAIN p, j \in DOMAIN q : p[i] < q[j]
  BY DEF Range
<1> QED
  BY <1>1, SMTT(30) DEF Increasing

LEMMA PrefixIncreasing ==
    ASSUME NEW q \in Seq(Nat), NEW k \in Nat, k <= Len(q), Increasing(q)
    PROVE  /\ SubSeq(q, 1, k) \in Seq(Nat) /\ Increasing(SubSeq(q, 1, k))
           /\ Range(SubSeq(q, 1, k)) \subseteq Range(q)
<1>1. SubSeq(q, 1, k) \in Seq(Nat) /\ Len(SubSeq(q, 1, k)) = k
  OBVIOUS
<1>2. \A i \in 1..k : SubSeq(q, 1, k)[i] = q[i] /\ i \in DOMAIN q
  OBVIOUS
<1>3. DOMAIN SubSeq(q, 1, k) = 1..k
  BY <1>1
<1> QED
  BY <1>1, <1>2, <1>3 DEF Increasing, Range

\* What was emitted, and then what the poll at work has found new, is in order and marked.
InOrder == storage = "sync" =>
    /\ \A t \in Slot : poll[t].stage \notin Late => poll[t].fresh = Nothing
    /\ \A n \in Namespace : Increasing(delivered[n]) /\ Range(delivered[n]) \subseteq seen[n]
    /\ \A t \in Slot : poll[t].stage = "working" => \A n \in Namespace :
          /\ Increasing(poll[t].fresh[n])
          /\ \A x \in Range(poll[t].fresh[n]) : x <= poll[t].done[n] /\ x \in seen[n]
          /\ \A x \in Range(delivered[n]), y \in Range(poll[t].fresh[n]) : x < y

LEMMA MarkInOrder ==
    ASSUME TypeOK, TypeOK', Progress, Alone, NoGap, InOrder, storage = "sync",
           NEW s \in Slot, MarkSeen(s), NEW n \in Namespace
    PROVE  /\ Increasing(poll'[s].fresh[n])
           /\ \A x \in Range(poll'[s].fresh[n]) : x <= poll'[s].done[n] /\ x \in seen'[n]
           /\ \A x \in Range(delivered[n]), y \in Range(poll'[s].fresh[n]) : x < y
<1> DEFINE r == poll[s]
           q == poll'[s]
           m == poll[s].checking
           c == Coming(r, n)
<1>1. /\ m \in Namespace /\ r.stage = "working"
      /\ q.done = [r.done EXCEPT ![m] = Coming(r, m)]
      /\ q.fresh = [r.fresh EXCEPT ![m] = Append(r.fresh[m], Coming(r, m))]
      /\ seen' = [seen EXCEPT ![m] = @ \cup {Coming(r, m)}]
  BY MarkEffect
<1>2. /\ r.done \in Hash /\ r.fresh \in [Namespace -> Seq(Nat)] /\ r.since \in Hash
      /\ seen \in [Namespace -> SUBSET Nat] /\ SlotOK(s)
      /\ r.fresh[n] \in Seq(Nat) /\ delivered[n] \in Seq(Nat)
  BY PollFields DEF TypeOK, Progress
<1>3. /\ Increasing(r.fresh[n]) /\ Range(delivered[n]) \subseteq seen[n]
      /\ \A x \in Range(r.fresh[n]) : x <= r.done[n] /\ x \in seen[n]
      /\ \A x \in Range(delivered[n]), y \in Range(r.fresh[n]) : x < y
  BY <1>1 DEF InOrder
<1>4. m = n => c \notin seen[n]
  BY <1>1 DEF Alone
<1>5. c \in Nat \ {0} /\ r.done[n] \in Nat /\ r.done[n] < c /\ c = r.done[n] + 1
  BY <1>2 DEF Coming, Hash
<1>6. r.since[n] \in Nat /\ r.since[n] <= r.done[n]
  BY <1>1, <1>2 DEF SlotOK, Late, Hash
<1> HIDE DEF r, q, m, c
<1>7. CASE m # n
  <2>1. q.fresh[n] = r.fresh[n] /\ q.done[n] = r.done[n] /\ seen'[n] = seen[n]
    BY <1>1, <1>2, <1>7 DEF Hash
  <2> QED
    BY <1>3, <2>1 DEF q
<1>8. CASE m = n
  <2>1. q.fresh[n] = Append(r.fresh[n], c) /\ q.done[n] = c /\ seen'[n] = seen[n] \cup {c}
    BY <1>1, <1>2, <1>8 DEF Hash, c
  <2>2. \A x \in Range(r.fresh[n]) : x < c
    <3>1. Range(r.fresh[n]) \subseteq Nat
      BY <1>2, <1>3
    <3> QED
      BY <1>3, <1>5, <3>1
  <2>3. ASSUME NEW x \in Range(delivered[n]) PROVE x < c
    <3>1. x \in Nat /\ x # c /\ x \in seen[n]
      BY <1>2, <1>3, <1>4, <1>8
    <3>2. ASSUME c < x PROVE FALSE
      <4>1. Gone(n, c)
        BY <1>4, <1>5, <1>8, <3>1, <3>2 DEF NoGap
      <4>2. c <= r.since[n]
        BY <1>1, <4>1 DEF Gone, Sent, Late, r
      <4> QED
        BY <1>5, <1>6, <4>2
    <3> QED
      BY <1>5, <3>1, <3>2
  <2>4. Range(Append(r.fresh[n], c)) = Range(r.fresh[n]) \cup {c}
    BY <1>2, <1>5, AppendRange
  <2>5. Increasing(Append(r.fresh[n], c))
    BY <1>2, <1>3, <1>5, <2>2, AppendIncreasing
  <2>6. \A x \in Range(r.fresh[n]) : x <= c
    BY <1>2, <1>3, <1>5, <2>2
  <2> QED
    BY <1>3, <1>5, <2>1, <2>3, <2>4, <2>5, <2>6 DEF q
<1> QED
  BY <1>7, <1>8

LEMMA EmitInOrder ==
    ASSUME TypeOK, InOrder, storage = "sync", NEW s \in Slot, NEW k \in [Namespace -> Nat],
           \A n \in Namespace : k[n] <= Len(poll[s].fresh[n]), Emitted(s, k),
           NEW n \in Namespace
    PROVE  Increasing(delivered'[n]) /\ Range(delivered'[n]) \subseteq seen[n]
<1> DEFINE f == poll[s].fresh[n]
           h == SubSeq(f, 1, k[n])
<1>1. /\ poll[s].stage = "working" /\ delivered'[n] = delivered[n] \o h
  BY EmitEffect, SMTT(30)
<1>2. f \in Seq(Nat) /\ delivered[n] \in Seq(Nat) /\ k[n] \in Nat /\ k[n] <= Len(f)
  BY PollFields DEF TypeOK
<1>3. /\ Increasing(f) /\ Increasing(delivered[n])
      /\ Range(delivered[n]) \subseteq seen[n] /\ Range(f) \subseteq seen[n]
      /\ \A x \in Range(delivered[n]), y \in Range(f) : x < y
  BY <1>1 DEF InOrder
<1>4. h \in Seq(Nat) /\ Increasing(h) /\ Range(h) \subseteq Range(f)
  BY <1>2, <1>3, PrefixIncreasing
<1> HIDE DEF f, h
<1>5. Increasing(delivered[n] \o h)
  BY <1>2, <1>3, <1>4, ConcatIncreasing
<1>6. Range(delivered[n] \o h) = Range(delivered[n]) \cup Range(h)
  BY <1>2, <1>4, ConcatRange
<1> QED
  BY <1>1, <1>3, <1>4, <1>5, <1>6

LEMMA InOrderSlotStep ==
    ASSUME TypeOK, TypeOK', Progress, Alone, NoGap, InOrder, NEW s \in Slot,
           \/ Continue(s) \/ SwarmConnectionFailed(s) \/ PollRejected(s) \/ ListenerThrows(s)
    PROVE  InOrder'
<1> SUFFICES ASSUME storage' = "sync" PROVE InOrder'
  BY DEF InOrder
<1> DEFINE r == poll[s]
           q == poll'[s]
<1>1. /\ storage = "sync" /\ \A t \in Slot \ {s} : poll'[t] = poll[t]
      /\ \A n \in Namespace : seen[n] \subseteq seen'[n]
  BY OthersKept, RestType
<1>2. /\ \A t \in Slot : poll[t].stage \notin Late => poll[t].fresh = Nothing
      /\ \A n \in Namespace : Increasing(delivered[n]) /\ Range(delivered[n]) \subseteq seen[n]
      /\ \A t \in Slot : poll[t].stage = "working" => \A n \in Namespace :
            /\ Increasing(poll[t].fresh[n])
            /\ \A x \in Range(poll[t].fresh[n]) : x <= poll[t].done[n] /\ x \in seen[n]
            /\ \A x \in Range(delivered[n]), y \in Range(poll[t].fresh[n]) : x < y
  BY <1>1 DEF InOrder
<1>3. Idle.fresh = Nothing /\ Idle.stage = "idle"
  BY DEF Idle
<1>4. ASSUME \A n \in Namespace : Increasing(delivered'[n]) /\ Range(delivered'[n]) \subseteq seen'[n],
             delivered' = delivered \/ poll[s].stage = "working",
             q.stage \notin Late => q.fresh = Nothing,
             q.stage = "working" => \A n \in Namespace :
                /\ Increasing(q.fresh[n])
                /\ \A x \in Range(q.fresh[n]) : x <= q.done[n] /\ x \in seen'[n]
                /\ \A x \in Range(delivered'[n]), y \in Range(q.fresh[n]) : x < y
      PROVE  InOrder'
  <2>1. ASSUME NEW t \in Slot, t # s, poll'[t].stage = "working", NEW n \in Namespace
        PROVE  /\ Increasing(poll'[t].fresh[n])
               /\ \A x \in Range(poll'[t].fresh[n]) : x <= poll'[t].done[n] /\ x \in seen'[n]
               /\ \A x \in Range(delivered'[n]), y \in Range(poll'[t].fresh[n]) : x < y
    <3>1. poll'[t] = poll[t] /\ poll[s].stage \notin Late
      BY <1>1, <2>1 DEF Alone, Late
    <3>2. delivered' = delivered
      BY <1>4, <3>1 DEF Late
    <3> QED
      BY <1>1, <1>2, <2>1, <3>1, <3>2
  <2>2. \A t \in Slot : poll'[t].stage \notin Late => poll'[t].fresh = Nothing
    BY <1>1, <1>2, <1>4
  <2> QED
    BY <1>4, <2>1, <2>2 DEF InOrder
<1>5. ASSUME delivered' = delivered,
             q.stage \notin Late => q.fresh = Nothing,
             q.stage = "working" => \/ q.fresh = Nothing
                                    \/ /\ r.stage = "working" /\ q.fresh = r.fresh
                                       /\ \A n \in Namespace : r.done[n] <= q.done[n]
      PROVE  InOrder'
  <2>1. ASSUME q.stage = "working", NEW n \in Namespace
        PROVE  /\ Increasing(q.fresh[n])
               /\ \A x \in Range(q.fresh[n]) : x <= q.done[n] /\ x \in seen'[n]
               /\ \A x \in Range(delivered'[n]), y \in Range(q.fresh[n]) : x < y
    <3>1. CASE q.fresh = Nothing
      BY <3>1 DEF Nothing, Range, Increasing
    <3>2. CASE q.fresh # Nothing
      <4>1. /\ r.stage = "working" /\ q.fresh = r.fresh /\ r.done[n] <= q.done[n]
        BY <1>5, <2>1, <3>2
      <4>2. r.done[n] \in Nat /\ q.done[n] \in Nat /\ \A x \in Range(r.fresh[n]) : x \in Nat
        BY <1>2, <4>1, PollFields DEF TypeOK, Hash
      <4>3. \A x \in Range(r.fresh[n]) : x <= q.done[n]
        BY <1>2, <4>1, <4>2
      <4> QED
        BY <1>1, <1>2, <1>5, <4>1, <4>3
    <3> QED
      BY <3>1, <3>2
  <2>2. \A n \in Namespace : Increasing(delivered'[n]) /\ Range(delivered'[n]) \subseteq seen'[n]
    BY <1>1, <1>2, <1>5
  <2> QED
    BY <1>4, <1>5, <2>1, <2>2
<1>6. CASE Early(s)
  BY <1>2, <1>3, <1>5, <1>6, EarlyEffect DEF Late
<1>7. CASE Process(s)
  BY <1>2, <1>3, <1>5, <1>7, ProcessEffect DEF Late
<1>8. \A n \in Namespace : r.done[n] \in Nat
  BY PollFields DEF TypeOK, Hash
<1>9. CASE UpdateRead(s)
  BY <1>2, <1>5, <1>8, <1>9, ReadEffect DEF Same
<1>10. CASE UpdateWrite(s)
  BY <1>2, <1>3, <1>5, <1>8, <1>10, WriteEffect DEF Same
<1>11. ASSUME NEW n \in Namespace, HasSeen(s, n) PROVE InOrder'
  <2>1. /\ r.stage = "working" /\ q.stage = "working" /\ q.fresh = r.fresh
        /\ q.done = r.done \/ q.done = [r.done EXCEPT ![n] = Coming(r, n)]
        /\ delivered' = delivered
    BY <1>11, CheckEffect
  <2>2. r.done \in Hash
    BY PollFields DEF TypeOK
  <2> HIDE DEF r, q
  <2>3. \A m \in Namespace : r.done[m] <= q.done[m]
    BY <2>1, <2>2 DEF Hash, Coming
  <2> QED
    BY <1>5, <2>1, <2>3 DEF r, q, Late
<1>12. CASE MarkSeen(s)
  <2>1. r.stage = "working" /\ q.stage = "working" /\ delivered' = delivered
    BY <1>12, MarkEffect
  <2>2. \A n \in Namespace :
           /\ Increasing(q.fresh[n])
           /\ \A x \in Range(q.fresh[n]) : x <= q.done[n] /\ x \in seen'[n]
           /\ \A x \in Range(delivered'[n]), y \in Range(q.fresh[n]) : x < y
    BY <1>1, <1>12, <2>1, MarkInOrder
  <2> QED
    BY <1>1, <1>2, <1>4, <2>1, <2>2 DEF Late
<1>13. ASSUME NEW k \in [Namespace -> Nat], \A n \in Namespace : k[n] <= Len(poll[s].fresh[n]),
              Emitted(s, k)
       PROVE  InOrder'
  <2>1. r.stage = "working" /\ seen' = seen /\ (q = Idle \/ q.stage = "emitted")
    BY <1>13, EmitEffect
  <2>2. \A n \in Namespace : Increasing(delivered'[n]) /\ Range(delivered'[n]) \subseteq seen'[n]
    BY <1>1, <1>13, <2>1, EmitInOrder
  <2> QED
    BY <1>3, <1>4, <2>1, <2>2 DEF Late
<1>14. CASE Emit(s)
  <2>1. poll[s].fresh \in [Namespace -> Seq(Nat)]
    BY PollFields DEF TypeOK
  <2>2. All(s) \in [Namespace -> Nat] /\ \A n \in Namespace : All(s)[n] = Len(poll[s].fresh[n])
    BY <2>1 DEF All
  <2> QED
    BY <1>13, <1>14, <2>2 DEF Emit
<1>15. CASE ListenerThrows(s)
  <2>1. PICK k \in [Namespace -> 0..MaxMessages] :
             (\A n \in Namespace : k[n] <= Len(poll[s].fresh[n])) /\ Emitted(s, k)
    BY <1>15 DEF ListenerThrows
  <2>2. k \in [Namespace -> Nat]
    BY PollBounds
  <2> QED
    BY <1>13, <2>1, <2>2
<1> QED
  BY <1>6, <1>7, <1>9, <1>10, <1>11, <1>12, <1>14, <1>15 DEF Continue, Early

LEMMA InOrderStep ==
    TypeOK /\ TypeOK' /\ Progress /\ Alone /\ NoGap /\ InOrder /\ [Next]_vars => InOrder'
<1> SUFFICES ASSUME TypeOK, TypeOK', Progress, Alone, NoGap, InOrder, [Next]_vars PROVE InOrder'
  OBVIOUS
<1>1. ASSUME EarlyOnly, UNCHANGED <<hashes, seen, storage, delivered>> PROVE InOrder'
  <2>1. \A t \in Slot : \/ poll'[t] = poll[t]
                        \/ poll'[t].stage \notin Late /\ poll'[t].fresh = Nothing
    BY <1>1 DEF EarlyOnly, Late
  <2> QED
    BY <1>1, <2>1 DEF InOrder, Late
<1> QED
  BY <1>1, InOrderSlotStep, OtherSteps

LEMMA OrderInit == Init => Alone /\ NoGap /\ InOrder
<1> SUFFICES ASSUME Init PROVE Alone /\ NoGap /\ InOrder
  OBVIOUS
<1>1. /\ \A t \in Slot : /\ poll[t].stage = "idle" /\ poll[t].update = "none"
                         /\ poll[t].checking = None /\ poll[t].fresh = Nothing
      /\ \A n \in Namespace : hashes[n] = 0 /\ seen[n] = {} /\ delivered[n] = <<>>
  BY DEF Init, Idle, NoHash, Nothing
<1>2. Alone
  BY <1>1, PollFacts DEF Alone, Late
<1>3. NoGap
  BY <1>1 DEF NoGap, Sent, Late
<1>4. InOrder
  BY <1>1 DEF InOrder, Late, Increasing, Range
<1> QED
  BY <1>2, <1>3, <1>4

\* Over a synchronous storage the messages of a namespace are emitted at most once each and in
\* the order of the swarm, for any number of pollers, overlapping polls, failures and crashes
\* (instance/polling.ts:47-54).
THEOREM EmittedInOrderOnce == Spec => []InOrderOnce
<1>1. Init => CadenceInv /\ TypeOK /\ Progress /\ Alone /\ NoGap /\ InOrder
  BY CadenceInit, TypeInit, ProgressInit, OrderInit
<1>2. CadenceInv /\ TypeOK /\ Progress /\ Alone /\ NoGap /\ InOrder /\ [Next]_vars
      => (CadenceInv /\ TypeOK /\ Progress /\ Alone /\ NoGap /\ InOrder)'
  BY CadenceStep, TypeStep, ProgressStep, AloneStep, NoGapStep, InOrderStep
<1>3. InOrder => InOrderOnce
  BY DEF InOrder, InOrderOnce, Increasing
<1> QED
  BY <1>1, <1>2, <1>3, PTL DEF Spec

=============================================================================
