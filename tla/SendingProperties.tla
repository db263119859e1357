--------------------------- MODULE SendingProperties ---------------------------
(***************************************************************************)
(* What a Session promises of what it sends and receives, over Sending.    *)
(***************************************************************************)
EXTENDS Sending

Held(a, m)  == \E i \in DOMAIN box[a] : box[a][i] = m
Times(kind) == {o.id : o \in {p \in ops : p.kind = kind}}

\* The messages of an operation are stored in the order of its plan, each one before the
\* next is tried, and all of them once its promise resolves: a failure in the middle leaves
\* a message without its sync copies, and never a sync copy without its message.
SentInOrder ==
    \A o \in ops :
        LET Stored(i) == Held(o.plan[i].to, o.plan[i].msg)
        IN  \A i \in {j \in DOMAIN o.plan : o.plan[j].do = "store"} :
               /\ Stored(i) => i <= o.step
               /\ i < o.step \/ o.at = "resolved" => Stored(i)

\* No step asks a node again that has answered it 421, though nodes are told apart as
\* objects and other operations of the Session fetch and filter our swarm meanwhile: unless
\* it is an object of a later fetch of our swarm than the one that answered.
MisdirectedOnce ==
    \A o \in ops : o.at = "sent" =>
        \A r \in o.misdirected : r.node = o.target.node => o.target.fetch > r.fetch

\* Neither of the polls was called when the other was done.
Overlap(o, p) == /\ Ended(o) => p.id <= o.until
                 /\ Ended(p) => o.id <= p.until

\* Sync copies are of the own account and messages are not; what a deletion, a receipt or a
\* reaction is about is a timestamp that sendMessage gave, so that it can be found.
EventIsTrue(d, e) ==
    /\ e.kind = "syncMessage" => e.from = AccountOf[d]
    /\ e.kind = "message" => e.from # AccountOf[d]
    /\ e.kind \in {"message", "unsend", "read", "reaction", "unreact"} => e.about \in Times("message")

\* Whatever a Session tells its application is true.  A message is told twice only by two
\* polls that overlap, and never across a restart.  One that was marked as seen has its
\* event, unless a poll has it yet in hand, or lost it to a restart or to a listener that
\* threw: then it is never told.
EventsAreTrue ==
    \A d \in Device :
        LET E == events[d]
        IN  /\ \A i \in DOMAIN E : EventIsTrue(d, E[i].event)
            /\ \A i, j \in DOMAIN E :
                  i # j /\ E[i].event.hash = E[j].event.hash =>
                      \E o, p \in ops : /\ o # p /\ o.id = E[i].by /\ p.id = E[j].by
                                        /\ Overlap(o, p)
            /\ \A m \in Range(box[AccountOf[d]]) :
                  m.hash \in seen[d] /\ m.kind # "config" =>
                      \/ \E i \in DOMAIN E : E[i].event.hash = m.hash
                      \/ \E o \in ops : o.dev = d /\ o.at # "resolved" /\ m \in Range(o.fresh)

\* A Session that has set its avatar, and has loaded it after a restart, lost it only to a
\* configuration without one, which may be its own; and lost the key only to one that
\* brought the avatar, and a restart after it.
AvatarLossHasACause ==
    \A d \in Device :
        LET mine(kind) == {o \in ops : o.dev = d /\ o.kind = kind /\ o.at = "resolved"}
            configs == {m \in Range(box[AccountOf[d]]) : m.kind = "config" /\ m.hash \in seen[d]}
            avatar == profile[d].avatar
        IN  mine("avatar") # {} /\ loading[d].avatar = Undefined =>
              /\ avatar = Undefined => \E m \in configs : ~Usable(m.profile.avatar)
              /\ avatar # Undefined /\ ~avatar.key =>
                    mine("restart") # {} /\ \E m \in configs : Usable(m.profile.avatar)

----------------------------------------------------------------------------
\* delete-message.ts:52 "This method sends request to our swarm to delete specified messages
\* so that they are permanently erased and won't be received by recipient if they haven't
\* retrieved them yet".
UnsentIsNotReceived ==
    \A u \in unsent : {d \in Device : u.hash \in seen[d]} \subseteq u.by
=============================================================================
