-------------------------------- MODULE Poller --------------------------------
(***************************************************************************)
(* Receiving messages: the Pollers of one Session (polling/index.ts), what *)
(* addPoller hooks them up to (instance/polling.ts) and the choice of our  *)
(* own swarm node (instance/swarms.ts).                                    *)
(*                                                                         *)
(* A poll is asynchronous and is not awaited by the timer that starts it,  *)
(* so polls overlap: between its awaits any other poll, timer or operation *)
(* of the user runs.  What a poll keeps across its awaits (its node, the   *)
(* last hashes it read, the answer) is in its slot, poll[<<p, k>>].        *)
(*                                                                         *)
(* The storage outlives a crash.  If it answers synchronously, all that a  *)
(* poll does after its answer has come is one turn of the event loop (its  *)
(* awaits only yield to each other); if it returns promises, every access  *)
(* to it is a step of its own.                                             *)
(*                                                                         *)
(* A message is its namespace and its place there; a hash is a place.      *)
(* Every node of the swarm holds every message, and returns all it holds   *)
(* after the last hash it is asked with.  Messages that cannot be read are *)
(* left out.  The messages of a namespace are of one kind: kinds differ in *)
(* the event they are emitted as, and one kind is emitted after the other. *)
(* A poll handles its namespaces in some order, each in its own order.     *)
(***************************************************************************)
EXTENDS Naturals, Sequences, Functions

CONSTANTS
    Pollers,         \* the Poller objects of the application
    Namespace,       \* the namespaces of the swarm
    NamespacesOf,    \* the namespaces each poller polls
    UserInterval,    \* the interval each poller is made with, or None
    Intervals,       \* the intervals that setPollInterval is called with
    Nodes,           \* the node objects that fetching our swarm makes (ReceiveSwarms)
    Storages,        \* the storages considered: "sync", "async"
    MaxMessages,     \* bound: messages stored in each namespace
    MaxPolls,        \* bound: polls of one poller in flight
    MaxMishaps       \* bound: failures, crashes and throwing listeners together

None == "none"

ASSUME PollerAssumption == /\ NamespacesOf \in [Pollers -> SUBSET Namespace]
                           /\ UserInterval \in [Pollers -> Intervals \cup {None}]
                           /\ None \notin Intervals \cup Nodes \cup Namespace
ASSUME PollBounds       == /\ MaxMessages \in Nat
                           /\ MaxPolls \in Nat \ {0}
                           /\ MaxMishaps \in Nat

VARIABLES
    stored,      \* the swarm: how many messages each namespace holds
    hashes,      \* storage: StorageKeys.LastHashes, 0 where there is none
    seen,        \* storage: the messages with a "message_hash:" key, by namespace
    storage,     \* which storage this is
    poll,        \* the polls in flight
    delivered,   \* the messages emitted to the application, by namespace
    ourSwarms,   \* ourSwarms: the nodes not given up
    ourSwarm,    \* ourSwarm: the one in use, or None
    attached,    \* pollers: those added to the session
    authorized,  \* isAuthorized
    interval,    \* Poller.interval
    timer,       \* Poller.intervalId: the interval it fires at; Poller.polling is timer # None
    mishaps,     \* how much has gone wrong
    lossy        \* whether that was a crash or a listener that threw

durable == <<stored, hashes, seen, storage>>
nodes   == <<ourSwarms, ourSwarm>>
cadence == <<attached, authorized, interval, timer>>
luck    == <<mishaps, lossy>>
vars    == <<durable, poll, delivered, nodes, cadence, luck>>

----------------------------------------------------------------------------
Hash  == [Namespace -> Nat]
Slot  == Pollers \X (1..MaxPolls)
Stage == {"idle", "swarm", "hashes", "sent", "answered", "working", "emitted"}

\* A poll() from its call until its messages are emitted and its hashes stored.
\* upto: the last message of the answer; done: the last one that was checked; checking:
\* the namespace where storage.has() has just said no to the next one; fresh: newMessages;
\* update: how far updateLastHashes is, which read old.
Poll == [stage    : Stage,
         node     : Nodes \cup {None},
         since    : Hash,
         upto     : Hash,
         done     : Hash,
         checking : Namespace \cup {None},
         fresh    : [Namespace -> Seq(Nat)],
         update   : {"none", "get", "set"},
         old      : Hash]

NoHash  == [n \in Namespace |-> 0]
Nothing == [n \in Namespace |-> <<>>]

Idle == [stage |-> "idle", node |-> None, since |-> NoHash, upto |-> NoHash, done |-> NoHash,
         checking |-> None, fresh |-> Nothing, update |-> "none", old |-> NoHash]

Init ==
    /\ stored = NoHash
    /\ hashes = NoHash
    /\ seen = [n \in Namespace |-> {}]
    /\ storage \in Storages
    /\ poll = [s \in Slot |-> Idle]
    /\ delivered = Nothing
    /\ ourSwarms = {} /\ ourSwarm = None
    /\ attached = {}
    /\ authorized = FALSE
    /\ interval = UserInterval
    /\ timer = [p \in Pollers |-> None]
    /\ mishaps = 0
    /\ lossy = FALSE

\* No timer fires and nothing arrives during the turn that processes an answer; but its
\* listeners may call what the application may call, and the polls they begin so get as far
\* as their request.
Processing(s) == poll[s].stage \in {"working", "emitted"}
Quiet         == storage = "sync" => \A s \in Slot : ~Processing(s)
NoneWorking   == storage = "sync" => \A s \in Slot : poll[s].stage # "working"

Suffers(loss) == /\ mishaps < MaxMishaps
                 /\ mishaps' = mishaps + 1
                 /\ lossy' = (lossy \/ loss)

----------------------------------------------------------------------------
(* The cadence.  startPolling() polls at once, then at every tick.         *)

IsIdle(s) == poll[s].stage = "idle"
Room(p)   == \E k \in 1..MaxPolls : IsIdle(<<p, k>>)

\* Mutant: a poll without a node of our swarm does not look for one.
NewPollUnfetched == IF ourSwarm = None THEN Idle
                                       ELSE [Idle EXCEPT !.stage = "hashes", !.node = ourSwarm]

\* getOurSwarm(): the node in use, or the swarm is asked for.
NewPoll == IF ourSwarm = None THEN [Idle EXCEPT !.stage = "swarm"]
                              ELSE [Idle EXCEPT !.stage = "hashes", !.node = ourSwarm]

\* Each of the pollers ps begins a poll, in the first slot that is free.
Begin(ps) ==
    /\ \A p \in ps : Room(p)
    /\ poll' = [s \in Slot |->
                  IF /\ s[1] \in ps
                     /\ IsIdle(s)
                     /\ \A k \in 1..(s[2] - 1) : ~IsIdle(<<s[1], k>>)
                  THEN NewPoll ELSE poll[s]]

\* The pollers ps start polling at the intervals iv, those that have one and do not poll yet.
Start(ps, iv, tm) ==
    LET starting == {p \in ps : iv[p] # None /\ tm[p] = None}
    IN  /\ Begin(starting)
        /\ timer' = [p \in Pollers |-> IF p \in starting THEN iv[p] ELSE tm[p]]

AddPoller(p) ==
    /\ p \notin attached
    /\ attached' = attached \cup {p}
    /\ Start(IF authorized THEN {p} ELSE {}, interval, timer)
    /\ UNCHANGED <<durable, delivered, nodes, authorized, interval, luck>>

SetMnemonic ==
    /\ ~authorized
    /\ authorized' = TRUE
    /\ Start(attached, interval, timer)
    /\ UNCHANGED <<durable, delivered, nodes, attached, interval, luck>>

StartPolling(p) ==
    /\ p \in attached /\ authorized
    /\ Start({p}, interval, timer)
    /\ UNCHANGED <<durable, delivered, nodes, attached, authorized, interval, luck>>

StopPolling(p) ==
    /\ timer' = [timer EXCEPT ![p] = None]
    /\ UNCHANGED <<durable, poll, delivered, nodes, attached, authorized, interval, luck>>

\* Mutant: the timer that runs is kept.
RestartRunning(ps, i) ==
    LET iv == [p \in Pollers |-> IF p \in ps THEN i ELSE interval[p]]
    IN  /\ interval' = iv
        /\ Start(IF authorized THEN ps \cap attached ELSE {}, iv, timer)

\* setInterval(i) on each of the pollers ps: stop, set, and start again.
Restart(ps, i) ==
    LET iv == [p \in Pollers |-> IF p \in ps THEN i ELSE interval[p]]
        tm == [p \in Pollers |-> IF p \in ps THEN None ELSE timer[p]]
    IN  /\ interval' = iv
        /\ Start(IF authorized THEN ps \cap attached ELSE {}, iv, tm)

SetInterval(p, i) ==
    /\ Restart({p}, i)
    /\ UNCHANGED <<durable, delivered, nodes, attached, authorized, luck>>

\* What the call supervisor boosts and restores the cadence with.
SetPollInterval(i) ==
    /\ Restart(attached, i)
    /\ UNCHANGED <<durable, delivered, nodes, attached, authorized, luck>>

Tick(p) ==
    /\ Quiet
    /\ timer[p] # None
    /\ Begin({p})
    /\ UNCHANGED <<durable, delivered, nodes, cadence, luck>>

\* The application calls poll() itself.
PollNow(p) ==
    /\ p \in attached /\ authorized
    /\ Begin({p})
    /\ UNCHANGED <<durable, delivered, nodes, cadence, luck>>

----------------------------------------------------------------------------
(* A poll, from await to await.                                            *)

\* getSwarmsFor() returns the swarm, and one of its nodes is chosen.  Each answer makes node
\* objects of its own: none of them is an object that a poll holds from an earlier one.
ReceiveSwarms(s) ==
    /\ Quiet
    /\ poll[s].stage = "swarm"
    /\ \E swarms \in SUBSET (Nodes \ {poll[t].node : t \in Slot}) : \E n \in swarms :
          /\ ourSwarms' = swarms
          /\ ourSwarm' = n
          /\ poll' = [poll EXCEPT ![s] = [@ EXCEPT !.stage = "hashes", !.node = n]]
    /\ UNCHANGED <<durable, delivered, cadence, luck>>

\* getLastHashes(); the request is sent.
ReadHashes(s) ==
    /\ NoneWorking
    /\ poll[s].stage = "hashes"
    /\ poll' = [poll EXCEPT ![s] = [@ EXCEPT !.stage = "sent", !.since = hashes]]
    /\ UNCHANGED <<durable, delivered, nodes, cadence, luck>>

\* The node answers with all that is new in the namespaces of the poller.
AnswerTo(s) ==
    [n \in Namespace |-> IF n \in NamespacesOf[s[1]] THEN stored[n] ELSE poll[s].since[n]]

Answer(s) ==
    /\ poll[s].stage = "sent"
    /\ poll' = [poll EXCEPT ![s] = [@ EXCEPT !.stage = "answered", !.upto = AnswerTo(s)]]
    /\ UNCHANGED <<durable, delivered, nodes, cadence, luck>>

\* Mutant: the last node stays in use when it fails.
SwarmConnectionFailedKept(s) ==
    /\ Quiet
    /\ poll[s].stage \in {"sent", "answered"}
    /\ Suffers(FALSE)
    /\ ourSwarms' = ourSwarms \ {poll[s].node}
    /\ \/ \E n \in ourSwarms' :
             /\ ourSwarm' = n
             /\ poll' = [poll EXCEPT ![s] = [@ EXCEPT !.stage = "sent", !.node = n, !.upto = NoHash]]
       \/ /\ ourSwarms' = {}
          /\ poll' = [poll EXCEPT ![s] = Idle]
          /\ UNCHANGED ourSwarm
    /\ UNCHANGED <<durable, delivered, cadence>>

\* FetchFailed: onSwarmConnectionFailed() gives the node object up, also if the answer was on
\* its way; the poll goes on with another one, or ends if there is none left.  Of a list that
\* was fetched meanwhile nothing is taken: the same node may be there, as another object.
SwarmConnectionFailed(s) ==
    /\ Quiet
    /\ poll[s].stage \in {"sent", "answered"}
    /\ Suffers(FALSE)
    /\ ourSwarms' = ourSwarms \ {poll[s].node}
    /\ \/ \E n \in ourSwarms' :
             /\ ourSwarm' = n
             /\ poll' = [poll EXCEPT ![s] = [@ EXCEPT !.stage = "sent", !.node = n, !.upto = NoHash]]
       \/ /\ ourSwarms' = {}
          /\ ourSwarm' = None
          /\ poll' = [poll EXCEPT ![s] = Idle]
    /\ UNCHANGED <<durable, delivered, cadence>>

\* Any other failure, also of getSwarmsFor(), rejects the poll.
PollRejected(s) ==
    /\ Quiet
    /\ poll[s].stage \in {"swarm", "sent", "answered"}
    /\ Suffers(FALSE)
    /\ poll' = [poll EXCEPT ![s] = Idle]
    /\ UNCHANGED <<durable, delivered, nodes, cadence>>

News(r) == {n \in Namespace : r.upto[n] > r.since[n]}

\* Mutant: messages are taken from one place too far.
ReceivedAfterNext(r) ==
    IF News(r) = {} THEN Idle
    ELSE [r EXCEPT !.stage = "working", !.update = "get",
                   !.done = [n \in Namespace |-> IF n \in News(r) THEN r.since[n] + 1 ELSE r.since[n]]]

\* The answer is there: updateLastHashes() and onMessagesReceived() are called, not awaited.
Received(r) == IF News(r) = {} THEN Idle
               ELSE [r EXCEPT !.stage = "working", !.update = "get", !.done = r.since]

Process(s) ==
    /\ Quiet
    /\ poll[s].stage = "answered"
    /\ poll' = [poll EXCEPT ![s] = Received(@)]
    /\ UNCHANGED <<durable, delivered, nodes, cadence, luck>>

\* The slot of a poll that has nothing left to do is free.
Finished(r) == IF r.stage = "emitted" /\ r.update = "none" THEN Idle ELSE r

UpdateRead(s) ==
    /\ poll[s].update = "get"
    /\ poll' = [poll EXCEPT ![s] = [@ EXCEPT !.update = "set", !.old = hashes]]
    /\ UNCHANGED <<durable, delivered, nodes, cadence, luck>>

NewHashes(r) == [n \in Namespace |-> IF n \in News(r) THEN r.upto[n] ELSE r.old[n]]

UpdateWrite(s) ==
    /\ poll[s].update = "set"
    /\ hashes' = NewHashes(poll[s])
    /\ poll' = [poll EXCEPT ![s] = Finished([@ EXCEPT !.update = "none"])]
    /\ UNCHANGED <<stored, seen, storage, delivered, nodes, cadence, luck>>

\* The coming message of namespace n has been checked: it was seen, or it is new.
Coming(r, n)   == r.done[n] + 1
Passed(r, n) == [r EXCEPT !.done = [r.done EXCEPT ![n] = Coming(r, n)]]
Kept(r, n)   == [r EXCEPT !.done = [r.done EXCEPT ![n] = Coming(r, n)], !.checking = None,
                          !.fresh = [r.fresh EXCEPT ![n] = Append(r.fresh[n], Coming(r, n))]]

\* Mutant: the stored message hashes are not looked at.
HasSeenNever(s, n) ==
    /\ poll[s].stage = "working" /\ poll[s].checking = None
    /\ poll[s].done[n] < poll[s].upto[n]
    /\ poll' = [poll EXCEPT ![s] = [@ EXCEPT !.checking = n]]
    /\ UNCHANGED <<durable, delivered, nodes, cadence, luck>>

\* storage.has(): a message that was seen is passed over.
HasSeen(s, n) ==
    /\ poll[s].stage = "working" /\ poll[s].checking = None
    /\ poll[s].done[n] < poll[s].upto[n]
    /\ \/ /\ Coming(poll[s], n) \in seen[n]
          /\ poll' = [poll EXCEPT ![s] = Passed(@, n)]
       \/ /\ Coming(poll[s], n) \notin seen[n]
          /\ poll' = [poll EXCEPT ![s] = [@ EXCEPT !.checking = n]]
    /\ UNCHANGED <<durable, delivered, nodes, cadence, luck>>

\* storage.set(), newMessages.push().
MarkSeen(s) ==
    LET n == poll[s].checking
    IN  /\ n # None
        /\ seen' = [seen EXCEPT ![n] = @ \cup {Coming(poll[s], n)}]
        /\ poll' = [poll EXCEPT ![s] = Kept(@, n)]
        /\ UNCHANGED <<stored, hashes, storage, delivered, nodes, cadence, luck>>

\* The application gets the first k[n] of the new messages of each namespace n.
Emitted(s, k) ==
    /\ poll[s].stage = "working" /\ poll[s].checking = None
    /\ poll[s].done = poll[s].upto
    /\ delivered' = [n \in Namespace |-> delivered[n] \o SubSeq(poll[s].fresh[n], 1, k[n])]
    /\ poll' = [poll EXCEPT ![s] = Finished([@ EXCEPT !.stage = "emitted"])]
    /\ UNCHANGED <<durable, nodes, cadence>>

All(s) == [n \in Namespace |-> Len(poll[s].fresh[n])]

Emit(s) == Emitted(s, All(s)) /\ UNCHANGED luck

\* A listener throws: what comes after that is not emitted.
ListenerThrows(s) ==
    /\ Suffers(TRUE)
    /\ \E k \in [Namespace -> 0..MaxMessages] :
          /\ k # All(s)
          /\ \A n \in Namespace : k[n] <= Len(poll[s].fresh[n])
          /\ Emitted(s, k)

----------------------------------------------------------------------------
\* Somebody stores a message in our swarm.
Send(n) ==
    /\ stored[n] < MaxMessages
    /\ stored' = [stored EXCEPT ![n] = @ + 1]
    /\ UNCHANGED <<hashes, seen, storage, poll, delivered, nodes, cadence, luck>>

\* The process dies and starts afresh; what is in the storage stays.
Crash ==
    /\ Suffers(TRUE)
    /\ poll' = [s \in Slot |-> Idle]
    /\ ourSwarms' = {} /\ ourSwarm' = None
    /\ attached' = {}
    /\ authorized' = FALSE
    /\ interval' = UserInterval
    /\ timer' = [p \in Pollers |-> None]
    /\ UNCHANGED <<durable, delivered>>

Continue(s) ==
    \/ ReceiveSwarms(s) \/ ReadHashes(s) \/ Answer(s) \/ Process(s)
    \/ UpdateRead(s) \/ UpdateWrite(s) \/ MarkSeen(s) \/ Emit(s)
    \/ \E n \in Namespace : HasSeen(s, n)

Next ==
    \/ SetMnemonic
    \/ \E p \in Pollers :
          \/ AddPoller(p) \/ StartPolling(p) \/ StopPolling(p)
          \/ Tick(p) \/ PollNow(p)
          \/ \E i \in {UserInterval[p], None} : SetInterval(p, i)
    \/ \E i \in Intervals : SetPollInterval(i)
    \/ \E s \in Slot : Continue(s) \/ SwarmConnectionFailed(s) \/ PollRejected(s) \/ ListenerThrows(s)
    \/ \E n \in Namespace : Send(n)
    \/ Crash

Spec == Init /\ [][Next]_vars

\* Timers fire, and requests and storage accesses come to an end.
FairSpec == /\ Spec
            /\ \A p \in Pollers : WF_vars(Tick(p))
            /\ \A s \in Slot : WF_vars(Continue(s))
=============================================================================
