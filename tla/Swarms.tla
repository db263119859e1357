-------------------------------- MODULE Swarms --------------------------------
(***************************************************************************)
(* How the operations of a Session find the node they talk to: snodes.ts,  *)
(* swarms.ts, the retries of store-message.ts and delete-message.ts, the   *)
(* node a poll uses, and what network/node-network.ts makes of an answer.  *)
(*                                                                         *)
(* External: storage nodes.  The nodes of an account's swarm share what is *)
(* stored for it; a node that left a swarm says so with status 421, of the *)
(* whole request or of the part of it that asked.                          *)
(*                                                                         *)
(* An operation runs a plan of steps, one after the other; each step is a  *)
(* store for an account, or a delete or a poll of the own one.             *)
(***************************************************************************)
EXTENDS Filter, Functions, FiniteSets

CONSTANTS
    Device,       \* Session instances
    Account,      \* their Session IDs
    AccountOf,    \* whose device it is
    Snode,        \* the nodes that know the swarms
    Node,         \* the nodes that store
    Swarm,        \* those of each account, to begin with
    MaxRetries,   \* retries: 5
    Undefined     \* what is not there

ASSUME SwarmsAssumption == /\ AccountOf \in [Device -> Account]
                           /\ Snode # {}
                           /\ Swarm \in [Account -> (SUBSET Node) \ {{}}]
                           /\ MaxRetries \in Nat

VARIABLES
    members,   \* external: the swarm of each account
    box,       \* external: what was stored for each account, in order
    gone,      \* external: the hashes deleted for each account
    cache,     \* snodes, ourSwarms and ourSwarm of each Session
    ops,       \* the operations that were called
    trouble    \* bound: how many requests may yet fail, and how many nodes may leave

swarmVars == <<members, box, gone, cache, ops, trouble>>

\* A node object of a response: the same node of two responses is two objects, which does
\* not matter where a response has a single reader: its fetch is 0.
Ref == [node : Node, fetch : Nat]

ASSUME RefAssumption == Undefined \notin Ref

NewCache == [snodes |-> Undefined, ourSwarms |-> Undefined, ourSwarm |-> Undefined, fetches |-> 0]

\* target: the node asked; nodes: the snodes of getSwarmsFor; got: what a poll has still to
\* look at of its answer; fresh: its newMessages.  History: misdirected, who answered 421 in
\* this step; until, when a poll was done with its messages.
NewOp(d, id, kind, plan) ==
    [dev |-> d, id |-> id, kind |-> kind, plan |-> plan, step |-> 1, at |-> "locate",
     nodes |-> {}, list |-> {}, target |-> Undefined, tries |-> MaxRetries,
     misdirected |-> {}, got |-> <<>>, fresh |-> <<>>, until |-> 0]

Step(o)  == o.plan[o.step]
Own(o)   == Step(o).to = AccountOf[o.dev]
Ended(o) == o.at \in {"resolved", "rejected", "lost"}

Cleared(o, at) == [o EXCEPT !.at = at, !.nodes = {}, !.list = {}, !.target = Undefined,
                            !.tries = MaxRetries, !.misdirected = {}, !.got = <<>>]
Rejected(o)    == Cleared(o, "rejected")
Advanced(o)    == IF o.step = Len(o.plan) THEN Cleared(o, "resolved")
                  ELSE [Cleared(o, "locate") EXCEPT !.step = o.step + 1]

Becomes(o, p) == ops' = (ops \ {o}) \cup {p}
Caches(o, c)  == cache' = [cache EXCEPT ![o.dev] = c]

\* Mutant: the tries are not counted.
AgainAlways(o, at) == [o EXCEPT !.at = at, !.target = Undefined, !.tries = o.tries - 1]

\* p-retry: once more, unless that was the last try.
Again(o, at) == IF o.tries = 0 THEN Rejected(o)
                ELSE [o EXCEPT !.at = at, !.target = Undefined, !.tries = o.tries - 1]

\* Mutant: the node is not taken off the list.
WithoutNothing(list, target) == list

Without(list, target) == list \ {target}

Fails == trouble.fails > 0 /\ trouble' = [trouble EXCEPT !.fails = trouble.fails - 1]

----------------------------------------------------------------------------
(* getOurSwarm and getSwarmsFor.                                           *)

Locate(o) ==
    /\ o.at = "locate"
    /\ LET c == cache[o.dev]
       IN  Becomes(o, IF Own(o) /\ c.ourSwarm # Undefined
                      THEN [o EXCEPT !.at = "ask", !.list = {c.ourSwarm}]
                      ELSE IF c.snodes # Undefined
                      THEN [o EXCEPT !.at = "swarms", !.nodes = c.snodes]
                      ELSE [o EXCEPT !.at = "snodes"])
    /\ UNCHANGED <<members, box, gone, cache, trouble>>

\* The snodes as objects: an operation fetches them once at most.
Snodes(o) == {[node |-> n, fetch |-> o.id] : n \in Snode}

\* getSnodes, when none are cached (snodes.ts): from the seed nodes, until one answers.
GetSnodes(o) ==
    /\ o.at = "snodes"
    /\ \/ /\ Becomes(o, [o EXCEPT !.at = "swarms", !.nodes = Snodes(o)])
          /\ Caches(o, [cache[o.dev] EXCEPT !.snodes = Snodes(o)])
          /\ UNCHANGED trouble
       \/ /\ Fails
          /\ Becomes(o, Rejected(o))
          /\ UNCHANGED cache
    /\ UNCHANGED <<members, box, gone>>

\* getSwarmsFor: only 421 is tried again, with the snodes of the first try.
GetSwarms(o) ==
    LET c == cache[o.dev]
        Refs(fetch) == {[node |-> n, fetch |-> fetch] : n \in members[Step(o).to]}
    IN  /\ o.at = "swarms"
        /\ \/ /\ o.nodes # {}
              /\ IF Own(o)
                 THEN \E r \in Refs(c.fetches + 1) :
                        /\ Caches(o, [c EXCEPT !.ourSwarms = Refs(c.fetches + 1),
                                               !.ourSwarm = r, !.fetches = c.fetches + 1])
                        /\ Becomes(o, [Cleared(o, "ask") EXCEPT !.list = {r}])
                 ELSE /\ Becomes(o, [Cleared(o, "ask") EXCEPT !.list = Refs(0)])
                      /\ UNCHANGED cache
              /\ UNCHANGED trouble
           \/ /\ Fails
              /\ \E r \in o.nodes : Caches(o, [c EXCEPT !.snodes = Without(c.snodes, r)])
              /\ Becomes(o, Again(o, "swarms"))
           \/ /\ Fails \/ (o.nodes = {} /\ UNCHANGED trouble)
              /\ Becomes(o, Rejected(o))
              /\ UNCHANGED cache
        /\ UNCHANGED <<members, box, gone>>

----------------------------------------------------------------------------
(* Requests to a node of the swarm.                                        *)

\* A node of the list; when the own one is off it, another one of our swarm.
Ask(o) ==
    LET c    == cache[o.dev]
        ours == Own(o) /\ o.list = {}
        from == IF ours THEN c.ourSwarms ELSE o.list
    IN  /\ o.at = "ask"
        /\ \/ \E r \in from : /\ Becomes(o, [o EXCEPT !.at = "sent", !.target = r])
                              /\ Caches(o, IF ours THEN [c EXCEPT !.ourSwarm = r] ELSE c)
           \/ /\ from = {}
              /\ Becomes(o, Rejected(o))
              /\ Caches(o, IF ours THEN [c EXCEPT !.ourSwarm = Undefined] ELSE c)
        /\ UNCHANGED <<members, box, gone, trouble>>

IsMember(o) == o.target.node \in members[Step(o).to]

\* What the node does; storing what is already there changes nothing.
Stores(o) ==
    LET a == Step(o).to
        m == Step(o).msg
    IN  box' = IF \E i \in DOMAIN box[a] : box[a][i] = m THEN box
               ELSE [box EXCEPT ![a] = Append(box[a], m)]

Deletes(o) ==
    LET a == Step(o).to
    IN  gone' = [gone EXCEPT ![a] = gone[a] \cup Step(o).hashes]

Kept(a) == Filtered(box[a], {m \in Range(box[a]) : m.hash \notin gone[a]})

Does(o) == CASE Step(o).do = "store"  -> Stores(o) /\ UNCHANGED gone
             [] Step(o).do = "delete" -> Deletes(o) /\ UNCHANGED box
             [] Step(o).do = "poll"   -> UNCHANGED <<box, gone>>

Answers(o) ==
    /\ o.at = "sent" /\ IsMember(o)
    /\ Does(o)
    /\ Becomes(o, IF Step(o).do # "poll" THEN Advanced(o)
                  ELSE [Cleared(o, "received") EXCEPT !.got = Kept(Step(o).to)])
    /\ UNCHANGED <<members, cache, trouble>>

\* Mutant: 421 is taken for an answer.
MisdirectedIgnored(o, c) == Advanced(o)

\* Status 421 of a store or a delete: off both lists, and once more; without a list of our
\* own swarm that is a TypeError, which is not tried again.
Misdirected(o, c) ==
    IF c.ourSwarms = Undefined THEN Rejected(o)
    ELSE Again([o EXCEPT !.list = Without(o.list, o.target),
                         !.misdirected = o.misdirected \cup {o.target}], "ask")

\* The node has left the swarm: status 421, which a poll does not expect, or a 421 of the
\* part, which is an invalid response to all.
Misses(o) ==
    /\ o.at = "sent" /\ ~IsMember(o)
    /\ LET c == cache[o.dev]
       IN  \/ /\ Step(o).do # "poll"
              /\ Becomes(o, Misdirected(o, c))
              /\ Caches(o, IF c.ourSwarms = Undefined THEN c
                           ELSE [c EXCEPT !.ourSwarms = Without(c.ourSwarms, o.target)])
           \/ Becomes(o, Rejected(o)) /\ UNCHANGED cache
    /\ UNCHANGED <<members, box, gone, trouble>>

\* FetchFailed: whatever was asked for may have been done.  A store tries again; a poll
\* gives the node up for another one of our swarm; a delete does neither.
LosesAnswer(o) ==
    /\ o.at = "sent" /\ IsMember(o)
    /\ Fails
    /\ Does(o) \/ UNCHANGED <<box, gone>>
    /\ CASE Step(o).do = "store"  -> Becomes(o, Again(o, "ask")) /\ UNCHANGED cache
         [] Step(o).do = "delete" -> Becomes(o, Rejected(o)) /\ UNCHANGED cache
         [] Step(o).do = "poll"   ->
              LET c    == cache[o.dev]
                  left == Without(c.ourSwarms, o.target)
              IN  \/ \E r \in left :
                       /\ Becomes(o, [Cleared(o, "ask") EXCEPT !.list = {r}])
                       /\ Caches(o, [c EXCEPT !.ourSwarms = left, !.ourSwarm = r])
                  \/ /\ left = {}
                     /\ Becomes(o, Rejected(o))
                     /\ Caches(o, [c EXCEPT !.ourSwarms = {}, !.ourSwarm = Undefined])
    /\ UNCHANGED members

\* Any other answer ends the step.
AnswersInvalid(o) ==
    /\ o.at = "sent" /\ IsMember(o)
    /\ Fails
    /\ Becomes(o, Rejected(o))
    /\ UNCHANGED <<members, box, gone, cache>>

Request(o) == \/ Locate(o) \/ GetSnodes(o) \/ GetSwarms(o) \/ Ask(o)
              \/ Answers(o) \/ Misses(o) \/ LosesAnswer(o) \/ AnswersInvalid(o)

\* External: the network moves a node to another swarm.
Leaves(a, n) ==
    /\ trouble.moves > 0
    /\ n \in members[a] /\ members[a] # {n}
    /\ trouble' = [trouble EXCEPT !.moves = trouble.moves - 1]
    /\ members' = [members EXCEPT ![a] = members[a] \ {n}]
    /\ UNCHANGED <<box, gone, cache, ops>>
=============================================================================
