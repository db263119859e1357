-------------------------------- MODULE Sending --------------------------------
(***************************************************************************)
(* The operations of a Session and what its poller makes of what it finds: *)
(* the send-..., delete-message, reactions, display-name, set-avatar and   *)
(* other files of instance/, the mapping of messages in instance/polling   *)
(* and messages/index, and the profile that storage keeps over a restart.  *)
(*                                                                         *)
(* Time is counted in operations: an operation is known by when it was     *)
(* called, which is also the timestamp of its messages.  How polls overlap *)
(* and what they ask for is in Poller; here a poll gets all there is.      *)
(***************************************************************************)
EXTENDS Swarms, SequencesExt

CONSTANTS
    Loads   \* bound: what the user of each Session calls, in that order, and what may go wrong

VARIABLES
    program,   \* what is left of it
    clock,     \* how many operations were called
    profile,   \* displayName and avatar of each Session
    disk,      \* what its storage keeps of them
    loading,   \* what setMnemonic has asked its storage for
    seen,      \* message_hash: the messages it has had
    events,    \* the events it has emitted, and by which poll
    unsent     \* the messages deleted, and who had retrieved them by then

userVars == <<program, clock, profile, disk, loading, seen, events, unsent>>
vars == <<swarmVars, userVars>>

----------------------------------------------------------------------------
Both    == {"message", "reaction", "unreact"}
Notices == {"read", "typing", "screenshot", "mediaSaved", "accept", "call"}
About   == {"reaction", "unreact", "read", "mediaSaved"}
Kinds   == Both \cup Notices \cup {"delete", "rename", "avatar", "poll", "restart"}

\* An avatar: the operation that set it, and whether there is a key to it.
Avatar    == [of : Nat, key : BOOLEAN]
NoProfile == [name |-> 0, avatar |-> Undefined]
Usable(avatar) == avatar # Undefined /\ avatar.key

ASSUME AvatarAssumption == Undefined \notin Avatar

\* A message: its hash, by operation, copy and place; sync: it has a syncTarget; ts: its
\* timestamp; about: the timestamp it is about; profile: that of a configuration message.
Msg(o, from, kind, copy, i, about, prof) ==
    [hash |-> <<o, copy, i>>, from |-> from, kind |-> kind,
     sync |-> copy = "self" /\ kind \in Both, ts |-> o, about |-> about, profile |-> prof]
NoMsg == Msg(0, Undefined, "none", "none", 0, 0, NoProfile)

\* Nobody writes to himself.
ASSUME PeerAssumption == \A d \in Device : \E a \in Account : a # AccountOf[d]

Peer(d) == CHOOSE a \in Account : a # AccountOf[d]

StoreStep(a, m) == [do |-> "store", to |-> a, msg |-> m, hashes |-> {}]

\* wrap(): a timestamp within a data extraction notification is overwritten by the time.
Wrapped(kind, about, now) == IF kind \in {"screenshot", "mediaSaved"} THEN now ELSE about

ToPeer(d, o, kind, i, about) ==
    StoreStep(Peer(d), Msg(o, AccountOf[d], kind, "peer", i, Wrapped(kind, about, o), NoProfile))
ToSelf(d, o, kind, i, about) ==
    StoreStep(AccountOf[d], Msg(o, AccountOf[d], kind, "self", i, Wrapped(kind, about, o), NoProfile))

\* The peer's copy is stored before that of the linked devices is tried.
MessagePlan(d, o) == <<ToPeer(d, o, "message", 1, 0), ToSelf(d, o, "message", 1, 0)>>
ReactionPlan(d, o, kind, about) == <<ToPeer(d, o, kind, 1, about), ToSelf(d, o, kind, 1, about)>>

\* What goes to one account only; a sync copy of a call message is asked for apart.
CallPlan(d, o, sync) == IF sync THEN <<ToSelf(d, o, "call", 1, 0)>> ELSE <<ToPeer(d, o, "call", 1, 0)>>
ReadPlan(d, o, about)               == <<ToPeer(d, o, "read", 1, about)>>
TypingPlan(d, o)                    == <<ToPeer(d, o, "typing", 1, 0)>>
NotificationPlan(d, o, kind, about) == <<ToPeer(d, o, kind, 1, about)>>
AcceptPlan(d, o)                    == <<ToPeer(d, o, "accept", 1, 0)>>

Plans(d, o, kind, about) ==
    CASE kind = "message"                   -> {MessagePlan(d, o)}
      [] kind \in {"reaction", "unreact"}     -> {ReactionPlan(d, o, kind, about)}
      [] kind = "call"                      -> {CallPlan(d, o, sync) : sync \in BOOLEAN}
      [] kind = "read"                      -> {ReadPlan(d, o, about)}
      [] kind = "typing"                    -> {TypingPlan(d, o)}
      [] kind \in {"screenshot", "mediaSaved"} -> {NotificationPlan(d, o, kind, about)}
      [] kind = "accept"                    -> {AcceptPlan(d, o)}

\* deleteMessagesFromSwarm: the hashes are those of the peer's copies, the swarm is ours.
FromSwarm(d, abouts) ==
    [do |-> "delete", to |-> AccountOf[d], msg |-> NoMsg,
     hashes |-> {<<abouts[i], "peer", 1>> : i \in DOMAIN abouts}]

\* propagateUnsendMessages: a request for each to the peer, then for each to our devices.
Unsends(d, o, abouts) ==
    [i \in DOMAIN abouts |-> ToPeer(d, o, "unsend", i, abouts[i])]
      \o [i \in DOMAIN abouts |-> ToSelf(d, o, "unsend", i, abouts[i])]

DeletePlan(d, o, abouts) == <<FromSwarm(d, abouts)>> \o Unsends(d, o, abouts)

PollPlan(d) == <<[do |-> "poll", to |-> AccountOf[d], msg |-> NoMsg, hashes |-> {}]>>

ConfigPlan(d, o) ==
    <<StoreStep(AccountOf[d], Msg(o, AccountOf[d], "config", "self", 1, 0, profile[d]))>>

----------------------------------------------------------------------------
TypeOK ==
    /\ members \in [Account -> (SUBSET Node) \ {{}}]
    /\ \A a \in Account : \A i \in DOMAIN box[a] : box[a][i].ts \in 1..clock
    /\ gone \in [Account -> SUBSET (Nat \X {"peer", "self"} \X Nat)]
    /\ \A d \in Device :
         LET c == cache[d]
         IN  /\ c.snodes # Undefined => c.snodes \subseteq [node : Snode, fetch : 1..clock]
             /\ c.ourSwarms # Undefined => c.ourSwarms \subseteq [node : Node, fetch : 1..c.fetches]
             /\ c.ourSwarm # Undefined => c.ourSwarm.fetch \in 1..c.fetches
    /\ \A o \in ops :
         /\ o.dev \in Device /\ o.kind \in Kinds /\ o.id \in 1..clock /\ o.tries \in 0..MaxRetries
         /\ o.at \in {"upload", "save", "locate", "snodes", "swarms", "ask", "sent", "received",
                      "marking", "resolved", "rejected", "lost"}
         /\ o.step \in DOMAIN o.plan \/ o.plan = <<>>
         /\ o.at = "sent" <=> o.target # Undefined
    /\ \A o, p \in ops : o.id = p.id => o = p
    /\ \A d \in Device : /\ profile[d].name \in 0..clock
                         /\ profile[d].avatar # Undefined => profile[d].avatar \in Avatar
                         /\ disk[d].avatar # Undefined => disk[d].avatar \in Avatar

Init ==
    /\ members = Swarm
    /\ box = [a \in Account |-> <<>>] /\ gone = [a \in Account |-> {}]
    /\ cache = [d \in Device |-> NewCache]
    /\ ops = {}
    /\ \E load \in Loads : program = load.calls /\ trouble = load.trouble
    /\ clock = 0
    /\ profile = [d \in Device |-> NoProfile]
    /\ disk = [d \in Device |-> NoProfile]
    /\ loading = [d \in Device |-> NoProfile]
    /\ seen = [d \in Device |-> {}]
    /\ events = [d \in Device |-> <<>>]
    /\ unsent = {}

----------------------------------------------------------------------------
(* Operations are called.                                                  *)

Calls(d, kind) == /\ program[d] # <<>> /\ Head(program[d]) = kind
                  /\ program' = [program EXCEPT ![d] = Tail(program[d])]

Starts(d, kind, plan, at) ==
    /\ clock' = clock + 1
    /\ ops' = ops \cup {[NewOp(d, clock + 1, kind, plan) EXCEPT !.at = at]}

\* What a user knows: the timestamps that sendMessage returned, and those of the events.
Sent(d)  == {o.id : o \in {p \in ops : p.dev = d /\ p.kind = "message" /\ p.at = "resolved"}}
Heard(d) == {events[d][i].event.about :
               i \in {j \in DOMAIN events[d] : events[d][j].event.kind = "message"}}
Abouts(d, kind) == IF kind \in About THEN Heard(d) ELSE {0}

Send(d, kind) ==
    /\ Calls(d, kind)
    /\ \E about \in Abouts(d, kind) :
         \E plan \in Plans(d, clock + 1, kind, about) : Starts(d, kind, plan, "locate")
    /\ UNCHANGED <<members, box, gone, cache, trouble, profile, disk, loading, seen, events, unsent>>

DeleteMessages(d) ==
    /\ Calls(d, "delete")
    /\ \E abouts \in {<<x>> : x \in Sent(d)} \cup {<<x, y>> : x, y \in Sent(d)} :
         /\ IsInjective(abouts)
         /\ Starts(d, "delete", DeletePlan(d, clock + 1, abouts), "locate")
    /\ UNCHANGED <<members, box, gone, cache, trouble, profile, disk, loading, seen, events, unsent>>

StartPoll(d) ==
    /\ Calls(d, "poll")
    /\ Starts(d, "poll", PollPlan(d), "locate")
    /\ UNCHANGED <<members, box, gone, cache, trouble, profile, disk, loading, seen, events, unsent>>

\* setDisplayName, up to the await of storage.
SetDisplayName(d) ==
    /\ Calls(d, "rename")
    /\ Starts(d, "rename", <<>>, "save")
    /\ profile' = [profile EXCEPT ![d].name = clock + 1]
    /\ disk' = [disk EXCEPT ![d].name = clock + 1]
    /\ UNCHANGED <<members, box, gone, cache, trouble, loading, seen, events, unsent>>

\* setAvatar, up to the answer of the file server.
SetAvatar(d) ==
    /\ Calls(d, "avatar")
    /\ Starts(d, "avatar", <<>>, "upload")
    /\ UNCHANGED <<members, box, gone, cache, trouble, profile, disk, loading, seen, events, unsent>>

----------------------------------------------------------------------------
(* Continuations.                                                          *)

\* The configuration message has the name and the avatar there are after the await.
DisplayNameSaved(o) ==
    /\ o.kind = "rename" /\ o.at = "save"
    /\ Becomes(o, [o EXCEPT !.at = "locate", !.plan = ConfigPlan(o.dev, o.id)])
    /\ UNCHANGED <<members, box, gone, cache, trouble, userVars>>

Uploaded(o) ==
    /\ o.at = "upload"
    /\ \/ /\ Becomes(o, [o EXCEPT !.at = "save"])
          /\ disk' = [disk EXCEPT ![o.dev].avatar = [of |-> o.id, key |-> TRUE]]
          /\ UNCHANGED trouble
       \/ /\ Fails
          /\ Becomes(o, Rejected(o))
          /\ UNCHANGED disk
    /\ UNCHANGED <<members, box, gone, cache, program, clock, profile, loading, seen, events, unsent>>

\* Nobody is told of the avatar.
AvatarSaved(o) ==
    /\ o.kind = "avatar" /\ o.at = "save"
    /\ Becomes(o, Cleared(o, "resolved"))
    /\ profile' = [profile EXCEPT ![o.dev].avatar = [of |-> o.id, key |-> TRUE]]
    /\ UNCHANGED <<members, box, gone, cache, trouble, program, clock, disk, loading, seen, events,
                   unsent>>

\* A device has the message, if only in the answer that a poll is looking at.
Retrieved(d, h) == h \in seen[d] \/ \E o \in ops : o.dev = d /\ \E m \in Range(o.got) : m.hash = h

Requests(o) ==
    /\ Request(o)
    /\ unsent' = unsent \cup {[hash |-> h, by |-> {d \in Device : Retrieved(d, h)}] :
                                 h \in UNION {gone'[a] \ gone[a] : a \in Account}}
    /\ UNCHANGED <<program, clock, profile, disk, loading, seen, events>>

----------------------------------------------------------------------------
(* What a poll brings.                                                     *)

EventOf(m) == IF m.sync THEN "syncMessage" ELSE m.kind

\* What an event tells: its own timestamp, or the one it is about.
MessageEvent(m)  == [kind |-> EventOf(m), hash |-> m.hash, from |-> m.from, about |-> m.ts]
ReactionEvent(m) == [kind |-> m.kind, hash |-> m.hash, from |-> m.from, about |-> m.about]
NoticeEvent(m)   == [kind |-> m.kind, hash |-> m.hash, from |-> m.from, about |-> m.about]
CallEvent(m)     == [kind |-> "call", hash |-> m.hash, from |-> m.from, about |-> 0]

EventFor(m) == CASE EventOf(m) \in {"message", "syncMessage"} -> MessageEvent(m)
                 [] EventOf(m) \in {"reaction", "unreact"}    -> ReactionEvent(m)
                 [] EventOf(m) = "call"                       -> CallEvent(m)
                 [] OTHER                                     -> NoticeEvent(m)

\* The events of a batch, kind by kind; calls come after the configuration is applied.
EventOrder == <<"message", "syncMessage", "reaction", "unreact", "unsend", "read", "typing",
                "screenshot", "mediaSaved", "accept", "call">>

Emitted(batch) ==
    FlattenSeq([k \in DOMAIN EventOrder |->
        LET ms == Filtered(batch, {m \in Range(batch) : EventOf(m) = EventOrder[k]})
        IN  [i \in DOMAIN ms |-> EventFor(ms[i])]])

\* Of the configuration messages of a batch, the oldest is applied, and all of it: an avatar
\* that it does not have is deleted.
Configs(batch) == {batch[i] : i \in {j \in DOMAIN batch : batch[j].kind = "config"}}
Applied(batch) == LET m == CHOOSE x \in Configs(batch) : \A y \in Configs(batch) : x.ts <= y.ts
                  IN  IF Usable(m.profile.avatar) THEN m.profile
                      ELSE [m.profile EXCEPT !.avatar = Undefined]

\* As storage gives it back: the key was bytes, which JSON does not keep as such.
Synced(prof) == IF prof.avatar = Undefined THEN prof ELSE [prof EXCEPT !.avatar.key = FALSE]

\* onMessagesReceived(), which no poll waits for.  The storage may be asynchronous, so that
\* the polls of a Session that overlap may check a message in turn before either marks it.

\* Mutant: the messages that were seen are taken again.
HasSeenNever(o) ==
    /\ o.at = "received" /\ o.got # <<>>
    /\ Becomes(o, [o EXCEPT !.at = "marking"])
    /\ UNCHANGED <<members, box, gone, cache, trouble, userVars>>

\* storage.has(): a message that was seen is passed over.
HasSeen(o) ==
    /\ o.at = "received" /\ o.got # <<>>
    /\ Becomes(o, IF Head(o.got).hash \in seen[o.dev] THEN [o EXCEPT !.got = Tail(o.got)]
                                                      ELSE [o EXCEPT !.at = "marking"])
    /\ UNCHANGED <<members, box, gone, cache, trouble, userVars>>

\* storage.set(), newMessages.push().
MarkSeen(o) ==
    /\ o.at = "marking"
    /\ seen' = [seen EXCEPT ![o.dev] = seen[o.dev] \cup {Head(o.got).hash}]
    /\ Becomes(o, [o EXCEPT !.at = "received", !.got = Tail(o.got),
                            !.fresh = Append(o.fresh, Head(o.got))])
    /\ UNCHANGED <<members, box, gone, cache, trouble, program, clock, profile, disk, loading,
                   events, unsent>>

\* The application gets the first k of the events; the messages are not looked at again.
Tells(o, k) ==
    events' = [events EXCEPT ![o.dev] = events[o.dev] \o
                  [i \in 1..k |-> [event |-> Emitted(o.fresh)[i], by |-> o.id]]]
Done(o, at) == [Cleared(o, at) EXCEPT !.until = clock]

\* What comes before the configuration is applied.
Early(o) == Emitted(Filtered(o.fresh, {m \in Range(o.fresh) : EventOf(m) # "call"}))

Applies(o) ==
    IF Configs(o.fresh) = {} THEN UNCHANGED <<profile, disk>>
    ELSE /\ profile' = [profile EXCEPT ![o.dev] = Applied(o.fresh)]
         /\ disk' = [disk EXCEPT ![o.dev] = Synced(Applied(o.fresh))]

\* A listener throws that is told of a new name, or after that of a new avatar.
AppliesPartly(o) ==
    LET now == profile[o.dev]
        new == Applied(o.fresh)
    IN  /\ Configs(o.fresh) # {}
        /\ \/ new.name # now.name /\ UNCHANGED <<profile, disk>>
           \/ /\ Usable(new.avatar) /\ new.avatar # now.avatar
              /\ profile' = [profile EXCEPT ![o.dev].name = new.name]
              /\ disk' = [disk EXCEPT ![o.dev].name = new.name]

Emits(o) ==
    /\ o.at = "received" /\ o.got = <<>>
    /\ \/ /\ Tells(o, Len(Emitted(o.fresh)))
          /\ Applies(o)
          /\ Becomes(o, Done(o, "resolved"))
          /\ UNCHANGED trouble
       \/ /\ Fails          \* a listener throws: nothing is done after that
          /\ \E k \in 0..Len(Emitted(o.fresh)) :
                /\ Tells(o, k)
                /\ \/ k \in 1..Len(Early(o)) /\ UNCHANGED <<profile, disk>>
                   \/ k = Len(Early(o)) /\ AppliesPartly(o)
                   \/ k > Len(Early(o)) /\ Applies(o)
          /\ Becomes(o, Done(o, "rejected"))
    /\ UNCHANGED <<members, box, gone, cache, program, clock, loading, seen, unsent>>

----------------------------------------------------------------------------
(* The process ends and starts again, with its storage.                    *)

\* Mutant: the avatar is not asked for.
ReloadedName(d, named) == [disk[d] EXCEPT !.avatar = Undefined]

\* What setMnemonic asks storage for; a name that it is given is set, which is not awaited.
Reloaded(d, named) == IF named THEN [disk[d] EXCEPT !.name = 0] ELSE disk[d]

Restart(d) ==
    \E named \in BOOLEAN :
        LET began  == Cleared(NewOp(d, clock + 1, "restart", <<>>), "resolved")
            rename == [NewOp(d, clock + 2, "rename", <<>>) EXCEPT !.at = "save"]
        IN  /\ Calls(d, "restart")
            /\ clock' = IF named THEN clock + 2 ELSE clock + 1
            /\ ops' = {IF o.dev = d /\ ~Ended(o) THEN Done(o, "lost") ELSE o : o \in ops}
                         \cup IF named THEN {began, rename} ELSE {began}
            /\ cache' = [cache EXCEPT ![d] = NewCache]
            /\ profile' = [profile EXCEPT ![d] = [NoProfile EXCEPT !.name = IF named THEN clock + 2 ELSE 0]]
            /\ disk' = IF named THEN [disk EXCEPT ![d].name = clock + 2] ELSE disk
            /\ loading' = [loading EXCEPT ![d] = Reloaded(d, named)]
            /\ UNCHANGED <<members, box, gone, trouble, seen, events, unsent>>

\* The answers of storage, which take over what was set meanwhile.
LoadName(d) ==
    /\ loading[d].name # 0
    /\ profile' = [profile EXCEPT ![d].name = loading[d].name]
    /\ loading' = [loading EXCEPT ![d].name = 0]
    /\ UNCHANGED <<swarmVars, program, clock, disk, seen, events, unsent>>

LoadAvatar(d) ==
    /\ loading[d].avatar # Undefined
    /\ profile' = [profile EXCEPT ![d].avatar = loading[d].avatar]
    /\ loading' = [loading EXCEPT ![d].avatar = Undefined]
    /\ UNCHANGED <<swarmVars, program, clock, disk, seen, events, unsent>>

----------------------------------------------------------------------------
User(d) == \/ \E kind \in Both \cup Notices : Send(d, kind)
           \/ DeleteMessages(d) \/ StartPoll(d) \/ SetDisplayName(d) \/ SetAvatar(d) \/ Restart(d)

Continues(o) == \/ DisplayNameSaved(o) \/ Uploaded(o) \/ AvatarSaved(o) \/ Requests(o)
                \/ HasSeen(o) \/ MarkSeen(o) \/ Emits(o)

Next == \/ \E d \in Device : User(d) \/ LoadName(d) \/ LoadAvatar(d)
        \/ \E o \in ops : Continues(o)
        \/ \E a \in Account, n \in Node : Leaves(a, n) /\ UNCHANGED userVars

Spec == Init /\ [][Next]_vars
=============================================================================
