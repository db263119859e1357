--------------------------- MODULE PollerProperties ---------------------------
(***************************************************************************)
(* What the Pollers promise.                                               *)
(***************************************************************************)
EXTENDS Poller

\* Types of the variables (the fields of Poller and Session, and the stored keys).
TypeOK ==
    /\ stored \in [Namespace -> 0..MaxMessages]
    /\ hashes \in Hash
    /\ seen \in [Namespace -> SUBSET Nat]
    /\ storage \in Storages
    /\ poll \in [Slot -> Poll]
    /\ delivered \in [Namespace -> Seq(Nat)]
    /\ ourSwarms \subseteq Nodes
    /\ ourSwarm \in ourSwarms \cup {None} /\ (ourSwarm = None <=> ourSwarms = {})
    /\ attached \subseteq Pollers
    /\ authorized \in BOOLEAN
    /\ interval \in [Pollers -> Intervals \cup {None}]
    /\ timer \in [Pollers -> Intervals \cup {None}]
    /\ mishaps \in 0..MaxMishaps
    /\ lossy \in BOOLEAN

IsDelivered(n, i) == i \in Range(delivered[n])

\* A message is in hand if some poll that has not emitted its messages yet has still to
\* check it, or has found it new.
ToCheck(s, n, i) == poll[s].done[n] < i /\ i <= poll[s].upto[n]
IsNew(s, n, i)   == i \in Range(poll[s].fresh[n])
InHand(n, i)     == \E s \in Slot : poll[s].stage = "working" /\ (ToCheck(s, n, i) \/ IsNew(s, n, i))

\* The stored last hashes, and the stored message hashes, never run ahead of delivery by
\* more than what a poll still has in hand, however polls overlap and overwrite each
\* other's hashes (polling/index.ts:275-278, instance/polling.ts:47-54, 180-195).
NothingSkipped ==
    ~lossy => \A n \in Namespace : \A i \in 1..stored[n] :
                 i <= hashes[n] \/ i \in seen[n] => IsDelivered(n, i) \/ InHand(n, i)

\* With a synchronous storage the messages of a namespace are emitted at most once each
\* and in the order of the swarm, whichever of the overlapping polls brings them, and
\* also across a restart (instance/polling.ts:47-54).
InOrderOnce ==
    storage = "sync" =>
        \A n \in Namespace : \A i, j \in DOMAIN delivered[n] :
            i < j => delivered[n][i] < delivered[n][j]

\* A poller that polls does so at the interval that was set last, so that a call's boost
\* takes effect at once and ends when it is undone (polling/index.ts:80-116).
TimerFollowsInterval ==
    \A p \in Pollers : timer[p] # None =>
        /\ timer[p] = interval[p]
        /\ p \in attached /\ authorized

\* A stored message is delivered, even if nodes fail and last hashes are overwritten,
\* unless it is lost or nobody polls its namespace (polling/index.ts:136-281).
EventuallyDelivered ==
    \A n \in Namespace : \A i \in 1..MaxMessages :
        stored[n] >= i ~> \/ IsDelivered(n, i)
                          \/ lossy
                          \/ \A p \in Pollers : n \in NamespacesOf[p] => timer[p] = None
=============================================================================
