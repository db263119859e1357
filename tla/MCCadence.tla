------------------------------ MODULE MCCadence ------------------------------
(***************************************************************************)
(* Instances of CallCadence.                                               *)
(***************************************************************************)
EXTENDS CallCadence, TLC

CONSTANTS p, data

\* One poller of one namespace, which polls only when it is told to.
OneNamespacesOf == p :> {data}
NoUserInterval  == p :> None

\* Bound: a call is over before it is opened or closed, which is nothing to a poller; and
\* the application meddles with the poller during a call only while nothing has gone wrong
\* and nothing was received.
ShortCalls == /\ line[Here].phase \in {"free", "setup"}
              /\ InCall /\ own # {} => mishaps = 0 /\ hashes = NoHash
=============================================================================
