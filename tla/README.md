# session.js in TLA+

This directory models session.js, a TypeScript client for the Session messenger
(`src/src`), and its voice-call package (`src/calls/src`). The modules are
translated from the code; `PROJECT.json` names the lines every definition stands
for. There are four models: the call supervisors with their state machine, the
media half of a call, the receiving of messages, and the sending of messages over
the swarms; and a composition of the first and the third.

## Inventory

session.js runs in a single JavaScript thread. Concurrency is that of `async`
functions: a handler runs to its first `await`, and its continuation competes
with timers, media events and other handlers. There is no push channel: messages
are stored in the recipient's swarm and fetched by polling.

| Component | State | Operations | Interacts with |
|---|---|---|---|
| Call supervisor `calls/src/supervisor.ts` | `#contexts` (uuid to CallContext), `#approvedPeers`, `#pollBoosted`, `#disposed`, missed calls; per context: FSM state, pending offer, media session, early connection, timers, attempts | placeCall, accept, reject, ignore, hangup, dispose, markApproved, failCall; inbound PRE_OFFER, OFFER, ANSWER, END_CALL and self-sent copies; media events; three timers | FSM, signaling, media, Session (`"call"` event, `setPollInterval`) |
| Call FSM `calls/src/fsm/state-machine.ts` | current state | `send(event)` | supervisor |
| Call policies `calls/src/policy.ts` | none; the ICE batcher: queue, timer | isFresh, shouldDropSelfMessage; enqueue, flush, dispose | supervisor, signaling |
| Call signaling `calls/src/signaling.ts` | ICE sender: armed, disposed, queue | sendToPeer, sendToSelf; feed, arm, flush, dispose | Session.sendCallMessage |
| CallManager, Call `calls/src/call-manager.ts`, `call.ts` | handles, ICE senders and media sessions by uuid | public API, event fan-out | supervisor |
| Media session `calls/src/media/peer-connection.ts` | remote description set, candidate and data-channel buffers, last emitted state, closed | negotiate, addRemoteCandidate, sendDataChannelMessage, close | werift, audio bridge |
| Audio bridge `calls/src/media/audio-bridge.ts` | send queue, ready, closed, sequence number, residue | writeAudio, setSenderReady, drain, deliver, close | codec, werift |
| Poller `src/src/polling`, `src/src/instance/polling.ts` | interval, polling; stored last hashes and message hashes; own swarm | poll, start, stop, setInterval; delivery | storage, swarms, network |
| Swarm store `src/src/instance/store-message.ts`, `swarms.ts`, `snodes.ts` | `snodes`, `ourSwarms`, `ourSwarm` of the Session, and each operation's copy of a list | store with retries, select and rotate nodes | network |
| Network node `src/src/network` | none | HTTP requests, status classification, batch decoding | storage servers |
| Session `src/src/instance` | identity; name and avatar, in memory and in storage | the `send...`, `delete...`, `set...` operations, `setMnemonic` | swarm store, Poller, storage |
| Messages, crypto, profile, attachments, SOGS | none | build, encrypt, decrypt, map | Session |

What makes each correct, and what is hard about it:

- *Supervisor.* One call per device; a call that is over stays over; whatever
  ends a call frees the line, the timers, the media and the poll cadence; linked
  devices agree on what happened. Hard: continuations of a call that was ended
  meanwhile; `#contexts` looked up by uuid while closures hold the object;
  messages that arrive late, in any order, or never; sends that fail half way;
  media that connects before the answer or flaps.
- *Poller.* Every message is delivered once, also across overlapping polls and
  restarts. Hard: read-modify-write of the storage across awaits, delivery after
  the hashes are persisted.
- *Swarm store and sending.* A message is stored if some node of the swarm accepts
  it within the retries; what is sent to several accounts is sent in order; what
  is received is told to the application as what it is. Hard: concurrent filtering
  of a shared list whose nodes are compared as objects; an answer lost after the
  node did its work; a sequence of sends that stops in the middle; a profile that
  memory, storage and linked devices each have their own copy of.
- *ICE sender, media session, audio bridge.* Nothing gathered, received or
  written before the gate opens is lost, nothing leaves after it closes, and
  nothing leaves before the other end or the transport can use it. Hard: three
  buffers in a row for candidates, gates opened by events of which some never
  come, handles and sessions found by uuid.

The hazards are listed line by line in `PROJECT.json`, each with the properties
that cover it or the reason why none does yet.

## The modules

| Module | What it is |
|---|---|
| `CallFsm` | The transition table of the call state machine: rows of state, event, roles, next state. `Accepts` and `NextState` are what `CallContext.apply` uses. |
| `CallSupervisor` | The supervisors of a set of devices, their swarms, their media sessions and their timers. |
| `CallProperties`, `MCCall` | What is claimed of them, and the refinement mapping to `OneLine`; instances: devices, accounts, contacts, and the bound on what is in flight. |
| `OneLine` | Abstract specification: a telephone with one line that is free, in setup, open or closing. |
| `CallSupervisorProofs`, `CallPromisesProofs` | The theorems, with their proofs: types, the line, and what a step may do to a context; what is claimed, and the refinement of `OneLine`. |
| `MediaSession` | `WeriftMediaSession` and `AudioBridge`: actions of one session, and the operators they are built from. |
| `MediaSetup` | Munging of the local description and choice of TURN servers, as operators. |
| `CallMedia` | Both ends of one call below its state machine: `CallManager` with handles and `TrickleIceSender`s, and the way of candidates, composed with the sessions of `MediaSession`. |
| `MediaProperties`, `MCMedia` | What is claimed of them; an instance. |
| `MediaProofs`, `MediaPromisesProofs` | The theorems about them, with their proofs. |
| `Poller` | The pollers of one session over their storage and the nodes of their swarm. |
| `PollerProperties` | What is claimed of them; `MCCadence` is the instance. |
| `PollerProofs` | The theorems about them, with their proofs. |
| `CallCadence`, `MCCadence` | The pollers of `Poller` under the calls of `OneLine`: the boost of the poll cadence, and what is claimed of it; an instance. |
| `CadenceProofs` | The theorems about it, with their proofs. |
| `Swarms` | Requests of Sessions to storage nodes: cached lists, choice, retries, answers. |
| `Sending` | The operations of a Session as plans of requests of `Swarms`, the events that a poll emits, and the profile. |
| `SendingProperties`, `MCSending` | What is claimed of them; instances. |
| `SendingProofs` | The theorems about them, with their proofs. |
| `Filter` | External: `Array.prototype.filter`. |
| `SequenceLemmas` | Lemmas about filtering and joining sequences, with induction over their lengths. |

The supervisor and the media half meet in what a media session tells of its connection,
"connecting", "connected", "disconnected" or "failed" (`Told`): `CallSupervisor` takes
these from it, and like the code never sees a connected call go back to "connecting".
`CallMedia` has of the supervisor what creates and
closes a media session and passes candidates on. `Sending` and `Poller` meet in the
storage of message hashes (`seen`). `Poller` has the last hashes, several namespaces and
the timers; `Sending` has the kinds of messages, and polls that check, mark and emit them
at different times.

`CallCadence` composes the supervisor with the pollers, where `#boostPoll` and
`#restorePoll` call `setPollInterval`. Of the supervisor it takes what is proved of it:
calls are those of `OneLine`, which it implements on each device (`ImplementsOneLine`),
and the cadence is boosted exactly while there is one (`OneCallBoostedAlways`). Of the
pollers it takes all of `Poller`. The boost acts as it does there: each poller has its
interval set, its timer made anew, and begins a poll at once.

### State and code: the supervisor

`ctx[<<d, u, k>>]` is the k-th `CallContext` object that device `d` made for uuid
`u`, and `contexts[d][u]` is the one in the map `#contexts` (0: none). Code that
does `this.#contexts.get(uuid)` reads the latter; closures (timers, media
callbacks, continuations) hold the former. Keeping them apart is what lets the
model show a late continuation of a first context end or forget a second one.

| Variable | Code |
|---|---|
| `call` | who placed the call: a caller's `placeCall` arguments; peer and direction of every context follow from it |
| `net` | messages in the swarms that a device has not fetched; also hints on the data channel |
| `contexts`, `made`, `ctx` | `#contexts`, `CallContext` |
| `jobs` | promises in flight: what is sent or computed, whether it was stored, what follows |
| `boosted`, `disposed`, `approved`, `missed` | `#pollBoosted`, `#disposed`, `#approvedPeers`, `#recordMissed` |

Every action is one synchronous stretch of the code. User operations:
`PlaceCall`, `Accept`, `Reject`, `Ignore`, `Hangup`, `Dispose`, `MarkApproved`,
`ConsumerThrows`. Inbound: `HandleSelfMessage`; then the gates in the order of the
code, `DropStale`, `Discard` (disposed or not approved), `AnswerBusy`; then
`OnPreOffer`, `OnFirstOffer`, `OnOffer`, `OnAnswer`, `OnEndCall`, and
`OnHangupHint` for the data channel. After awaits: `Store`, `Resolve`,
`RejectPromise`. Media: `MediaConnected`, `MediaDisconnected`, `MediaFailed`.
Timers: `OnCallTimeout`, `OnRestartTick`, `OnReconnectWaitExpired`.

A send is two steps: the swarm stores it (from then on others may see it) and
the promise resolves. It may be rejected before or after having been stored,
which is what a lost HTTP response looks like.

### State and code: the poller

`poll[<<p, k>>]` is the k-th poll in flight of poller `p`, with the locals of
`poll()`: its node, the last hashes it read (`since`), the last messages of the answer
(`upto`), the last ones it has checked (`done`), the new ones (`fresh`), and how
far its `updateLastHashes` is (`update`, `old`). A message is its place in its
namespace, a hash is a place too.

| Variable | Code |
|---|---|
| `stored` | the swarm |
| `hashes`, `seen` | the storage, by namespace: `LastHashes` and the `message_hash:` keys |
| `storage` | whether the storage answers at once or with promises |
| `delivered` | what was emitted to the application, by namespace (for the properties) |
| `ourSwarms`, `ourSwarm`, `attached`, `authorized` | fields of `Session`; the nodes are objects, those of another answer are others, as the code filters by identity |
| `interval`, `timer` | `Poller.interval`; `Poller.intervalId` with the interval it was set to |
| `mishaps`, `lossy` | how often something failed, and whether that was a throwing listener or a crash |

A poll goes `swarm` (getOurSwarm), `hashes` (getLastHashes), `sent`, `answered`,
`working`, `emitted`. The actions are named for the functions: `ReceiveSwarms`,
`ReadHashes`, `Answer`, `SwarmConnectionFailed`, `PollRejected`, `Process`, then
two strands that do not wait for each other, `UpdateRead` and `UpdateWrite`, and
`HasSeen`, `MarkSeen`, `Emit`. Timer and user: `Tick`, `PollNow`, `AddPoller`,
`SetMnemonic`, `StartPolling`, `StopPolling`, `SetInterval`, `SetPollInterval`.
Answers may be processed in another order than they were given. With a
synchronous storage no timer fires and nothing arrives from `Process` to the end of
the poll (`Quiet`). But the poll emits in that turn, and its listeners may do what the
application may do: set intervals, start and stop polling, poll. The supervisor is such
a listener. A poll begun so comes up to its request and no further, but it reads the
stored hashes only once those of the turn are written (`NoneWorking`).

### State and code: the media half

A session is `<<end, k>>`, the media session of the k-th context of that end: the
callee may make a second context for the same call. The handle (`calls[e]`) and
the ICE sender (`sender[e]`) are the end's, as in the code they are found by uuid.

| Variable | Code |
|---|---|
| `media[s]` | `#remoteDescriptionSet`, `#closed`, `pendingRemoteCandidates`; what werift was given (`injected`) |
| `link[s]` | werift's ICE state, DTLS, the state of the whole connection it reported; `#lastEmittedState` (`told`); the data channel and a buffered hangup |
| `audio[s]` | the bridge: ready, drain scheduled, queue, counters, sequence number, residue; what was written and heard |
| `contexts`, `made`, `ctx` | the supervisor's map, and of a context its phase and the candidates that wait for a media session |
| `calls`, `sender` | `#calls`, `#trickle`: gate, parked candidates, the batcher's queue and timer |
| `awaits`, `sends` | negotiations and `sendToPeer` promises under way |
| `swarm`, `read` | what was stored for each end, and how much of it was fetched |
| `gathered`, `setup` | for the properties: candidates in the order of gathering, and what each session was set up with |

Users: `Call`, `Accept`, `Ignore`, `Leave` (hangup, reject), `CallFails` (a timeout or
a throwing callback), `Dispose`. Inbound: `OnPreOffer`, `OnOffer`, `OnAnswer`,
`OnIceCandidates`, `OnEndCall`, `OnHangupHint`. Continuations: `Described`,
`RemoteSet`, `MediaRejects`, `Store`, `Resolve`, `RejectSend`, `Gather`, `Flush`.
Session: `IceStateChanges`, `DtlsCompletes`, `ConnectionStateChanges`, `ChannelOpens`,
`WriteAudio`, `Drain`, `AttachRemoteTrack`, `ReceiveRtp`. A drain is a microtask and
comes before the next event of its session (`Calm`); writes in the same turn may
come before it.

### State and code: sending

An operation (`ops`) is an `async` function under way: its plan of stores, deletes
or a poll, the step it is at, and how far that step is (`at`): `locate`, `snodes`,
`swarms`, `ask`, `sent`, then the next step; `received` and `marking` for a poll that goes
through its answer; `upload` and `save` before the plan of a profile change is known.

| Variable | Code |
|---|---|
| `cache[d]` | `snodes`, `ourSwarms`, `ourSwarm` of a Session; nodes are pairs of a node and the fetch they came with, since the code compares objects |
| `box`, `gone`, `members` | external: what the swarms store, what was deleted there, which nodes they are of |
| `profile[d]`, `disk[d]`, `loading[d]` | `displayName` and `avatar`; the storage's copy; answers of storage that `setMnemonic` waits for |
| `seen[d]`, `events[d]` | the `message_hash:` keys; the events emitted, and by which poll |
| `got`, `fresh` of a poll | what `onMessagesReceived` has still to look at, and its `newMessages` |
| `unsent` | for the property: what was deleted, and who had retrieved it by then |
| `program`, `trouble` | bounds: what users call, and what goes wrong |

`Send` starts the operations that are stores only (message, reaction, read receipt,
typing, notifications, accept, call); `DeleteMessages`, `StartPoll`, `SetDisplayName`,
`SetAvatar` and `Restart` are the others. `Restart` is `setMnemonic` after a new start:
with a display name it starts a rename nobody awaits, without one it loads the stored
name; the avatar is loaded either way. `Request` has one action per await: `Locate`,
`GetSnodes`, `GetSwarms`, `Ask`, and the four answers `Answers`, `Misses` (421),
`LosesAnswer` (`FetchFailed`, whether or not the node did what was asked) and
`AnswersInvalid`. `onMessagesReceived` goes from await to await: `HasSeen` asks the storage
for a message, `MarkSeen` marks it, and when none is left `Emits` tells the application,
kind by kind, and applies one configuration message in between. No poll waits for it, so
that two may be between their awaits at once; a restart may come between any two; and a
listener may throw after any number of events, also of the two that tell of a new profile,
which ends the handler (`Tells`, `AppliesPartly`).

### What is assumed

- In `CallSupervisor`, the swarm delivers a stored message at most once to each
  device, in any order, or never. `Poller` shows the first for a synchronous
  storage (`InOrderOnce`).
- Timers have no durations: an armed timer may fire at any time. What holds here
  holds for every choice of the constants in `policy.ts`.
- A message may be stale whenever `"stale"` is among the faults: clocks are not
  modelled.
- ICE connects two open sessions of the two sides once the callee has accepted
  (`FarEnd`). That is an assumption about werift.
- A hint reaches only a media session that has been up.
- In `CallMedia`, the swarm delivers in the order of storing, which is what `Poller`
  shows of one namespace. werift reports ICE states in the orders of `IceFollows`;
  DTLS completes, and the data channel opens, only over a connected pair; it may
  never report the state `connected` of the whole connection (as the code's comments
  say of its answering side), and RTP written before DTLS is lost.
- In `CallMedia`, the application subscribes to the decoded audio, and a call's
  states and timers are those of `CallSupervisor`: the guards that need them are
  left open, so that more can happen there than in the program.
- In `Sending`, all nodes of a swarm share what is stored, a deletion works at once,
  and a node that has left a swarm answers 421, of the request or of a part of it.
  Storage answers with promises, here also in `setMnemonic` and the setters; a write that
  is not awaited takes effect when it is made.
- Nobody calls his own account or writes to it. `Undefined` is neither a node nor an
  avatar.
- Event listeners of calls may throw (`ConsumerThrows`); otherwise they call
  nothing while they run, operations come from the user. The listeners of messages
  are as in `Poller`.
- Every node of a swarm holds every message that was stored, and returns all it
  holds after the last hash. The storage survives a crash and does not fail.
- Every message can be decrypted. In `Poller` the messages of a namespace are of one
  kind: `onMessagesReceived` emits one kind after the other, so across kinds the
  order of the swarm is not kept (`Sending` has the kinds).
- Video toggles and the diagnostic events are left out.

## Runs

The faults a run admits, the operations users perform and its bounds are in its
`.cfg`.

| Run | Question |
|---|---|
| `CallSetup` | One call with every operation of its two ends and two contexts per device and uuid, or two calls, also placed at each other at the same time: does what was torn down stay so, where do leftovers come from, does the poll cadence follow the calls, are there never two calls in one device, and does the supervisor implement `OneLine`? |
| `CallFaults` | Flapping media, failing sends, a failing media engine, stale messages, `dispose()`: do state, media and timers stay in step, is every setup under the call timeout, is a disposed device's call on its way out whatever fails? |
| `CallLinked` | A callee with two linked devices, one of which has not approved the caller yet: do self-sent copies tell the truth, does every END_CALL have a cause, also where messages come stale; does a stranger's call neither ring nor get an answer, nor is anybody told of it? |
| `CallTimers` | Under fairness, with sends that succeed and media that flaps: do setup and reconnecting come to an end, do hanging up, declining and `dispose()` free the device, whatever comes during their awaits? |
| `CallMedia` | Both ends of a call: do candidates come after their description, all of them and in order, from one end's gathering to the other's ICE agent; is a disposed sender silent; is audio numbered, gated and chunked right across drains, closed gates, full queues and new tracks; does queued audio flow without werift's last event; what is a session set up with? |
| `CallCadence` | A poller made without an interval, under calls that begin and end at any time, also in the turn that brings their message, and an application that sets intervals itself; polls overlap over a synchronous storage, with a failing node, a throwing listener or a crash: is every message emitted, at most once and in order, do last hashes never run ahead, does the cadence follow the calls? |
| `Sending` | Two linked devices and a peer, two operations of a Session at a time, lost answers, nodes that leave, a restart: are plans stored in order, is a node that answered 421 not asked again in the same step, are events true, who tells a message twice and who loses it, what can cost a Session its avatar? |

The first four are in `MCCall`, the others in `MCMedia`, `MCCadence` and `MCSending`.

The runs `Bug*` are expected to fail: each checks one sentence of the
documentation, or of a comment, that the code does not live up to. They are the
five entries of `findings`:

| Run | What the code does |
|---|---|
| `BugEndedTwice` | A hangup whose await is overtaken by the peer's END_CALL or by its own self-sent copy ends the call a second time, and overwrites the reason. |
| `BugStuckDisconnected` | If the END_CALL cannot be sent, the call stays in `#contexts` for good and the device is busy until `dispose()`. |
| `BugRecoveredIceFailed` | Media that recovers before the first restart attempt is given up. |
| `BugUnshippedCandidates` | A call that was ignored, or ended, while its OFFER was on the way rings again. Its second context finds the handle of the first: it has a sender that nobody arms, or none, and no candidate gathered for it is sent, though it is accepted and answered (`signaling.ts:166`: "parked (NOT dropped) so early gather results still ship"). With one context for each end, `EarlyGatherShips` holds. |
| `BugUnsentReceived` | A deleted message is received by a recipient who polls afterwards: the deletion names the recipient's copy and goes to the sender's own swarm. |

Seen while translating, without a run of their own: after a call each poller is set to an
assumed default of three seconds, not to the interval it had, and one made without an
interval polls by itself from then on (`supervisor.ts:1361`; `calls/README.md:116` says
"Restored after."); a busy linked device of the caller takes the callee's ANSWER to its
sibling for a second call and answers END_CALL, which ends the sibling's call
(`supervisor.ts:592`); `accept()` from a `"state"`
listener, as in `docs-site/docs/voice/receiving-calls.md`, comes before the offer
is stored (`supervisor.ts:753`, `:764`) and throws; an ANSWER or END_CALL of an
earlier outgoing call that arrives during another one is recorded as a missed
call (`:592`); an inbound call has no timeout while it rings; a stale PRE_OFFER
of a stranger is recorded as missed before the approval gate (`:583`), of which
`docs-site/docs/voice/receiving-calls.md:55` says "no ring, no missed record"; a call
recorded as missed, ignored or stale, rings when its OFFER comes later (`:711`);
a poll marks a message as seen, and stores the last hashes, before it emits it, so that a
restart or a listener that throws in between loses the message for good, and with an
asynchronous storage two polls that overlap may both emit it (`instance/polling.ts:49`,
`EventsAreTrue`); a `mediaSaved` event has the time of sending, not the timestamp of the
message as `messages/index.ts:233` says (`message-encrypt.ts:211`); `reactionAdded` and
`reactionRemoved` are emitted to whoever receives the reaction, where
`docs-site/docs/events.md:271` and `:295` have them "triggered on the instance that used"
`addReaction` and `removeReaction`, on whose linked devices they are a `syncMessage`;
the first 421 to a Session that has never fetched its own swarm is a `TypeError`, which is
not tried again (`store-message.ts:56`); a configuration message sent by the own `setDisplayName`
before the avatar was loaded deletes the avatar when it is polled, and an avatar
that came by synchronisation loses its key at the next start
(`AvatarLossHasACause`); a 421 within a batch ends a store that a 421 of the whole
request would repeat (`node-network.ts:197`).

### Bounds

- Two devices, or three when accounts have linked devices. The code has no
  global state: a device interacts with the others through messages only, so two
  ends and one sibling are all the roles there are.
- `MaxCalls`: one, or two in `CallSetup`. A third uuid meets the same `#contexts`
  check as the second. Behaviours with two calls are plain ones (`TwoCallsPlain`):
  second contexts, users who leave and listeners that throw happen to a single call.
- `DisposeOrFlap`, `OneDisposes`: `dispose()` comes before the media first flaps, and
  in `CallFaults` one device disposes with less under way. Its interplay with a
  reconnecting call is not explored.
- `MaxIncarnations` = 2 contexts per device and uuid in the runs about
  resurrected calls: the code's confusion is between an object and its
  successor. The placing of a context beyond the bound is disabled, not lost.
- `MaxRestarts` (5 in `policy.ts`) is 1: the first attempt is the last one; 2 in
  `CallFaults`, where media flaps between two attempts.
- `MaxInFlight`, a state constraint, bounds messages and jobs under way at once
  (3 or 4). Behaviours that exceed it are not explored further. In runs with liveness
  properties the constraint is at or above what one call can have under way at
  once where the properties matter; still, a counterexample that needs more
  unread messages than that would be missed.
- `MaxEnds` tells 0, 1 and more ends apart.
- `CallCadence`: one poller, two polls in flight, one namespace with two messages, two
  nodes, one mishap of any kind. Two polls show every order of two answers, and two
  messages every order of messages. Namespaces meet only in `LastHashes`, which with a
  synchronous storage a poll updates in one turn, and pollers only in what overlapping
  polls of one poller meet in as well. Calls are one at a time, again and again; being
  opened and closed is nothing to a poller, and during a call the application meddles with
  the poller only while nothing has gone wrong and nothing was received (`ShortCalls`).
- `CallMedia`: `Loads` says how often each kind of thing happens to each end: up to
  three candidates of one end with a user who leaves or one failure; a connection
  that changes up to three times with audio, or with a hangup over its channel;
  four packets of incoming audio; every order of three TURN hosts; every
  description of at most three lines. Kinds are combined where their code meets.
  `MaxContexts` is 2, as above. Frames have 2 samples for 960 and the queue 2 places
  for 50: what counts is packets below, at and above a frame, and a queue that is
  empty, filling and full. `FirstSeq` is two below the wrap.
- `Sending`: `Loads` are programs of the users of three Sessions, chosen so that each
  operation meets another one, a fault, or what it is about. Three nodes, of which
  each swarm has two and one is shared: off the first, there is a second and then
  none. `MaxRetries` is 2 for 5: a retry that is not the last, and the last.

### Fairness

`FairSpec` assumes weak fairness of each context's continuations and of each of
its timers: promises settle and armed timers fire, which is what an event loop
does. It assumes nothing of users, of the media, or of the arrival of messages,
so the liveness properties hold even if the other side has gone. `FairWithCalls` assumes
it of each poll's steps and of each poller's timer, and nothing of calls. In
`CallMedia` it is assumed of what goes on by itself (`Work`): promises settle, the
batch timer and microtasks run, stored messages are fetched, and the data channel
opens over working DTLS. Only finitely many such steps can follow each other, and
none disables another one for good, so that weak fairness of their disjunction is
enough. Nothing is
assumed of users, of ICE, or of `connectionStateChange`; `AudioFlows` shows that the
audio gate does without that event. `Sending` has no liveness: retries are bounded,
and nothing promises that a message is ever stored.

## Proofs

Every safety property that a run checks is a theorem.

`CallSupervisorProofs` proves, for all constants that satisfy the assumptions of
`CallSupervisor` (any number of devices, calls and contexts, any set of faults):

- `TypeCorrect`: `Spec => []TypeOK`. One lemma per action. It also shows that the
  FSM is never sent to a state outside its table, that every message is addressed
  and every job is of a known kind.
- `OneCallBoostedAlways`: `Spec => []OneCallBoosted`, from `OneActiveCallAlways` and
  `PollBoostedAlways`.

The last rests on one inductive invariant, `LineInv`: types, at most one call
per device, boosted exactly while there is one. Neither half is inductive by
itself: that teardown may restore the cadence needs that no other call is left,
and `Forget` looks at the map. `MapStep` is the argument's centre: whatever an
action does, on each device the map is unchanged, loses one uuid, or gains one
uuid of a call that nobody else's entry stands against (`Idle` in `PlaceCall`,
not `Busy` in the inbound handlers). Everything else follows from that lemma,
without looking at the actions again.

`CallPromisesProofs` proves the other properties of `CallProperties`, from the same
assumptions. They rest on `CallInv`, which says of each object what the
handlers rely on without looking:

- of every context (`RecordInv`): which states and timers belong to which direction, that
  a live one on the callee's side has stored an offer, that one which was ended has no
  timers and no media; and of the one in the map (`HeldInv`): that it is connected only
  over media that last said so, and has the timer of its state. The difference between
  the two is the difference between the object and the uuid.
- of every continuation (`JobInv`): that its context is past ringing, and, if it ends the
  call, disconnected. A late continuation is harmless because of this, and not because
  anything checks.
- of every message (`MessageInv`): that it goes between the two accounts of its call, that
  an ANSWER is of an account that has answered, an END_CALL of one that has left or was
  busy. None of the three is inductive without the others.

`ContextStep` in `CallSupervisorProofs` is the centre: every action updates a single context
where it is (`Updates`), has one leave (`Leaves`), makes a new one (`Makes`), or leaves
all alone. Each part of `CallInv` has a lemma for its preservation that argues from these
cases; `Frame` carries what is said of other contexts over.

- `TornDownIsFinalAlways`, `ConnectedMeansMediaUpAlways`, `SetupIsTimedAlways`,
  `ReconnectIsTimedAlways`, `EndCallHasACauseAlways`: from `CallInv`.
- `AnsweredElsewhereAlways`: the self-sent copy of an ANSWER comes from a context that was
  accepted (`accepted` is a history variable that `Accept` alone sets), through the
  continuation that stores it and the message, and that stays true whatever becomes of it.
- `StrangersAreNotAnsweredAlways`: `ComesBy` and `ComesToMiss` name the only ways into the
  map and into the missed calls, and of an account's messages each has a sender who got
  there; all but the stale record lie behind the approval gate.
- `OrphansComeFromDoubleEndsAlways`, from `OrphansInv`: as long as no context of a call
  has been ended twice, one that is out of the map is `Settled`, without timers and media,
  and nothing is under way that could forget its successor's entry for it.
- `DisposedIsLeavingAlways`, from `DisposedInv`: the continuation that ends the call of a
  device that has disposed is one that goes on whether its send fails or not, and is
  followed by another such or by the end.
- `ImplementsOneLine`: `Spec => IsOneLine`, the refinement. `LineSteps` takes each
  device by itself: by `PhaseMoves`, what happens to the context in the map moves the
  line by one abstract action or not at all, and what happens to another is not seen.

`PollerProofs` proves the safety properties of `Poller` that the run `CallCadence` checks, for any number of
pollers, namespaces, nodes, messages, polls in flight and mishaps:

- `PollerTypeCorrect`: `Spec => []TypeOK`.
- `TimerFollowsAlways`: `Spec => []TimerFollowsInterval`, from types of the cadence
  alone. No run checks it by itself; `CadenceFollowsCalls` says it of pollers under calls.
- `NothingIsSkipped`: `Spec => []NothingSkipped`, for either kind of storage. That
  polls overwrite each other's last hashes, also backwards, is what makes it worth
  proving. Its invariant has two parts. `Progress`: a poll goes through its answer
  from the hashes it asked with to the last message, and what it has been through
  is marked. `Account`: whatever lies behind the stored hashes, behind the hashes
  any poll has asked with, or behind those that an `updateLastHashes` has read but
  not written yet is safe, that is delivered or in the hands of a poll; and what
  is marked is delivered or new to a poll at work. The hashes stored by a poll are
  then safe to store: up to those it asked with by `Account`, from there to where
  it has got by `Progress`, the rest as it has it in hand.
- `EmittedInOrderOnce`: `Spec => []InOrderOnce`. Crashes make it hard: a process
  that dies after the hashes are stored and before the messages are marked loses
  messages for good, and if one of them came later after all it would be out of
  order. `Alone`: with a synchronous storage one poll at a time goes through its
  answer, so that what it has looked up still holds when it marks it. `NoGap`: an
  unmarked message below a marked one, or below the hashes that are stored or were
  asked with, is `Gone`, behind the stored hashes and those of every poll, which
  never changes; or it is next for the poll at work. `InOrder`: what was emitted,
  and then what the poll at work has found new, is increasing and marked.

Each of these parts has a lemma of its own for the steps of a poll, from what every
action does to its slot (`ReadEffect` to `EarlyEffect`), and the steps that are not
of a poll are treated together (`OtherSteps`): polls begin, or all of them are gone.

`CadenceProofs` proves the safety properties of the run `CallCadence`, for any number of
pollers, calls, intervals and mishaps:

- `CallsSkipNothing`: `NothingSkipped` and `InOrderOnce` under calls. By `CallsPoll` a call
  does to the pollers what `SetPollInterval` does, or nothing, so that what is proved of
  `Poller` carries over.
- `CadenceFollowsCallsAlways`: `SpecWithCalls => []CadenceFollowsCalls`, by induction
  together with the types of the line and of the cadence. `AllAreSet` says what the boost
  and the restoring do, to pollers that poll and to those that do not; a poller that signs
  in or starts in the middle of a call takes up the interval it was given (`SetMnemonic`,
  `StartPolling`); `CadenceStays` is for the steps that leave the line alone.

`MediaProofs` proves, for any number of contexts, candidates, hosts, frames and loads,
any size of queue, frame and sequence-number space:

- `MediaTypeOK`: `Spec => []TypeOK`, from `Types`, which adds that candidates yet to be
  gathered are candidates and that an end without a handle has an unused sender.
- `MediaSecureBeforeRtp`: `Spec => []SecureBeforeRtp`. `GateInv` adds that a bridge is
  ready only once DTLS is done, through either gate.
- `MediaDescriptionFirst`: `Spec => []DescriptionFirst`. `OrderInv` adds that a sender
  that is armed or whose timer runs has its description in the swarm already, and
  that a send that is stored, or that carries candidates, has too: the gate is in one
  component, its key in another, and the sends in flight in between.
- `MediaSilentOnceEnded`: `Spec => SilentOnceEnded`. `SilentInv` adds that a sender
  that is no longer listed is disposed, with an idle timer.

`SessionMoves` and `SenderMoves` say once what each action does to the sessions and to
the senders; the last three theorems argue from them.

`MediaPromisesProofs` proves five more, from the same assumptions:

- `MediaFramesInOrder`: `Spec => []FramesInOrder`. `Ordered` is about the frames of the
  packets written and then of the queue, as one sequence: it rises, and stays within the
  frames that were ever offered (`Rising`); packets are numbered from `FirstSeq` on
  modulo `SeqModulus`, and the number to come goes with their length. That queued frames
  are dropped is `Counted`, which an open session keeps and a closed one loses, as
  `close()` empties the queue without a count.
- `MediaFramesOfOneTrack`: `Spec => []FramesOfOneTrack`. `Tracked` says of the residue
  what the frames inherit: all of it is of the track attached, in order, and behind what
  was received of that track. The lemmas cut a sequence of any length into frames.
- `MediaCandidatesKept`: `Spec => []CandidatesKept`. It joins a session, which has the
  candidates, to a sender, which belongs to the end and not to the context, and holds only
  because at most one session of an end is wired to a listed sender, that of its
  context in the map (`WireInv`). A sender without a wired session holds nothing (`Idle`),
  which is what makes the next wiring right: that is so because a context that can still be
  ignored has gathered nothing (`RingInv`) and every other end disposes the sender.
- `MediaNoCandidateDropped`: `Spec => []NoCandidateDropped`. `DropInv` adds up what a
  session was given, what it parks and what waits in its context (`Taken`) to what was
  received (`Given`); `SaneInv` says that nothing is parked before there is a session or
  behind the remote description, which makes the order right when one of the two comes in
  between. The first context starts with nothing missed by `UnreadInv`: whoever has no
  context has read neither a description nor, by `DescriptionFirst`, any candidates.

- `MediaSetUpRight`: `Spec => []SetUpRight`. It is about what pure functions compute, for
  descriptions of any length and any number of hosts, and `SetInv` only ties a session to
  its description and its shuffle. A shuffle is a recursive function over the hosts, whose
  existence `SwapsExist` proves; no swap makes a list repeat a host (`SwappedDiffer`), so that
  its first two differ. A munged description is a join of what
  each line becomes (`RewrittenCases`). `MungedElements` says what its lines are,
  `MungedHasFmtps` that each Opus payload has an fmtp among them, and `MungedOthers`
  follows the lines that are not munging's business prefix by prefix. `MungedAgain`, that
  munging twice is munging once, needs the order of lines: an fmtp is put right behind the
  first rtpmap of its payload. It assumes `SetupAssumption`: at least two hosts, all
  different, as in `policy.ts`, and descriptions that are sequences of lines.

They rest on `Placed`, what no context that has yet to be made can have (`Birth` is the
step that makes one), and on `ShapeOfStep`, which sorts the actions by what they do to
contexts, sessions and senders.

`SequenceLemmas` proves what the models' filters and joins compute, for sequences of
every length. The theorems of the library that do induction take an operator as a
parameter, which the provers do not instantiate; `Induction` states it for sets of
numbers instead, and is proved from the least element of such a set. `FilteredChooses`:
a filtered sequence has the elements chosen, and in their order, by an increasing map of
places; `FlattenElements`: what is joined is in the sequences joined, in turn, and
`FlattenInTurn`: what comes first in them comes first in what they are joined to.

`SendingProofs` proves every property of the run `Sending`, for any number of devices,
accounts, nodes, retries and operations, and whatever goes wrong:

- `TypeOKAlways`: `Spec => []TypeOK`. The code, and the model, keep in one object what is
  used at different awaits; `Typed` says what is there when it is used: the list of our
  swarm once it has been asked for (`CacheOK`), a node while one is asked, the plan from
  its second step on (`OpOK`). Since operations share the cache, their steps have to
  leave it good for each other (`CacheGrows`).
- `SentInOrderAlways`. `Evolves` says what a step makes of all operations and boxes: each
  keeps its plan and goes on by at most a step, and a box grows by what an operation is
  about to store, if it is not there yet. `Origin` (what is stored comes from an operation
  that has come so far) and `StoredBefore` (what an operation has behind it is stored) then meet in
  the uniqueness of hashes. A request that is repeated after a lost answer is why the
  first does not simply follow from the order of steps.
- `MisdirectedOnceAlways`, from `Avoided`: whoever answered 421 in a step is on neither
  list that the step can ask next. Other operations fetch our swarm anew, filter it and
  give its nodes up meanwhile, so the invariant goes by fetches: the list of our swarm is
  all of the latest one (`Latest`), an operation's own node is of that or of an earlier one
  (`Ours`), and a node that it may ask although it knows it to have answered 421 is an
  object of a later fetch (`Later`), which the code cannot tell to be the same. `Fewer` is
  what other operations may do to the list: take nodes away, or fetch.
- `AvatarLossHasACauseAlways`, from `AvatarsExplained`: the three copies of a profile, in
  memory, in storage and on its way from storage, are explained together. Each can be
  overwritten by another one, so none is inductive alone.
- `EventsAreTrueAlways`, from `EventsTold`. `Once`: no two messages of a swarm, or of the
  answer a poll has in hand, have the same hash. `TruePlans`: what is planned to be about a
  message is about one that was sent. `FreshSeen`: what a poll has in hand as new is marked.
  `Polls`: a poll that can still come to tell a message which another one took began before
  that one was done (`InTime`), as it looked the message up before it was marked. `Told`:
  what is marked was told, is in a poll's hands, or was lost by one that a restart or a
  listener ended; and each event is of the poll that took its message (`ToldBy`).
  `NextHears` says once what a step makes of polls and events: nothing, or one poll checks,
  marks or emits.

## Only model-checked

- Liveness, which is outside the prover.

## Not modelled

- Open groups (`instance/sogs.ts`) and downloads (`get-file.ts`, `attachments`): requests
  that change no state.
- Cryptography, protobuf, resampling and Opus: out of a model checker's reach, or
  libraries.
- HTTP, TLS and request signing of the network node; what is modelled is what an
  answer becomes.
- Errors and types, which have no behaviour; the in-memory storage, which is a map.
- Of modelled parts: video toggles, muting, diagnostics; quotes, previews and
  attachments of a message; the registration of event listeners; ICE restarts inside
  a media session (the supervisor's side of them is modelled).
- Tests, examples, scripts and documentation, which were read for what they promise.

## What could come next

1. The last hashes of two namespaces over an asynchronous storage in a run: the model has
   it (`storage`), and `NothingIsSkipped` is proved of it.
2. ICE restarts through the media session, where candidates of two generations meet.
3. Second contexts together with failing sends and media in a run of the supervisor, which
   the theorems cover.
