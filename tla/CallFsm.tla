------------------------------- MODULE CallFsm -------------------------------
(***************************************************************************)
(* The call state machine of @session.js/calls: the transition table       *)
(* CALL_FSM_TRANSITIONS of calls/src/fsm/state-machine.ts as one row per   *)
(* event.  The two events that the source lists in two rows each           *)
(* (receive-answer and timeout, the second row marked "supplementary")     *)
(* have the same target in both, so their "from" sets are united here.     *)
(* Effects are interpreted by CallSupervisor, which is where the code      *)
(* interprets them too.                                                    *)
(***************************************************************************)

CallState == { "idle", "local-pre-offer", "local-ring", "remote-pre-offer",
               "remote-ring", "connecting", "connected", "pending-reconnect",
               "reconnecting", "disconnected" }

Direction == { "inbound", "outbound" }

Ringing == { "remote-pre-offer", "remote-ring" }
Calling == { "local-pre-offer", "local-ring" }
Talking == { "connecting", "connected", "pending-reconnect", "reconnecting" }
Live    == Calling \cup Ringing \cup Talking

Row(from, to, guard) == [from |-> from, to |-> to, guard |-> guard]

\* One row per event; a guard names the direction the row is reserved for.
Transition(event) ==
  CASE event = "send-pre-offer"       -> Row({"idle"}, "local-pre-offer", Direction)
    [] event = "receive-pre-offer"    -> Row({"idle"}, "remote-pre-offer", Direction)
    [] event = "receive-offer"        -> Row({"remote-pre-offer", "reconnecting"}, "remote-ring", Direction)
    [] event = "user-accept"          -> Row({"remote-ring"}, "connecting", Direction)
    [] event = "receive-answer"       -> Row(Calling \cup {"reconnecting"}, "connecting", Direction)
    [] event = "ice-connected"        -> Row({"connecting", "reconnecting"}, "connected", Direction)
    [] event = "ice-disconnected"     -> Row({"connected"}, "pending-reconnect", Direction)
    [] event = "network-reconnect"    -> Row({"pending-reconnect"}, "reconnecting", {"inbound"})
    [] event = "restart-attempt"      -> Row({"pending-reconnect"}, "reconnecting", {"outbound"})
    [] event = "receive-offer-restart" -> Row({"reconnecting"}, "connecting", {"inbound"})
    [] event = "user-decline"         -> Row(Ringing, "disconnected", Direction)
    [] event = "user-hangup"          -> Row(Calling \cup Talking, "disconnected", Direction)
    [] event = "receive-end-call"     -> Row(Live \cup {"disconnected"}, "disconnected", Direction)
    [] event = "user-ignore"          -> Row(Ringing, "idle", Direction)
    [] event = "timeout"              -> Row(Calling \cup {"remote-ring", "connecting", "reconnecting"},
                                             "disconnected", Direction)
    [] event = "self-answer"          -> Row(Ringing, "disconnected", Direction)
    [] event = "self-end-call"        -> Row(Live \cup {"disconnected"}, "disconnected", Direction)

\* Mutant: without the second row for timeout.
AcceptsFirstRows(state, event, direction) ==
  /\ state \in Transition(event).from \ (IF event = "timeout" THEN {"local-pre-offer"} ELSE {})
  /\ direction \in Transition(event).guard

\* transition() throws InvalidCallTransitionError exactly when this is FALSE.
Accepts(state, event, direction) ==
  /\ state \in Transition(event).from
  /\ direction \in Transition(event).guard

NextState(event) == Transition(event).to
=============================================================================
