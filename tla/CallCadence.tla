------------------------------ MODULE CallCadence ------------------------------
(***************************************************************************)
(* The two halves of receiving a call: the Pollers of a Session, and the   *)
(* call supervisor that speeds them up while there is a call.              *)
(*                                                                         *)
(* Calls are what OneLine says of them, which CallSupervisor implements:   *)
(* there is one at a time, and #pollBoosted goes with it.  Here the boost  *)
(* does what it does in Poller: it sets the interval of every poller, and  *)
(* each one polls at once.  A call may come and go in the middle of a      *)
(* poll's answer, as the handlers of its messages are listeners.           *)
(***************************************************************************)
EXTENDS PollerProperties

CONSTANTS
    Here,       \* the device
    Uuid,       \* its calls
    Boosted,    \* boostedPollIntervalMs
    Assumed     \* ASSUMED_DEFAULT_POLL_INTERVAL_MS

ASSUME CadenceAssumption == Boosted \in Intervals /\ Assumed \in Intervals

VARIABLES
    line,          \* the line of this device, as in OneLine
    pollBoosted,   \* #pollBoosted
    own            \* history: the pollers the application has set since the last call began

calls     == <<line, pollBoosted>>
everyVars == <<vars, calls, own>>

Line == INSTANCE OneLine WITH Device <- {Here}

InCall == Line!IsHeld(Here)

InitWithCalls ==
    /\ Init
    /\ Line!Init
    /\ pollBoosted = FALSE
    /\ own = {}

----------------------------------------------------------------------------
(* The supervisor.                                                         *)

\* Mutant: the boost is not undone.
RestorePollNever == pollBoosted' = FALSE /\ UNCHANGED vars

BoostPoll == IF pollBoosted THEN UNCHANGED <<vars, pollBoosted>>
             ELSE pollBoosted' = TRUE /\ SetPollInterval(Boosted)

RestorePoll == IF pollBoosted THEN pollBoosted' = FALSE /\ SetPollInterval(Assumed)
               ELSE UNCHANGED <<vars, pollBoosted>>

BeginCall == /\ \E u \in Uuid : Line!Seize(Here, u)
             /\ BoostPoll
             /\ own' = {}

GoOn == /\ Line!Open(Here) \/ Line!Close(Here)
        /\ UNCHANGED <<vars, pollBoosted, own>>

EndCall == /\ Line!Release(Here)
           /\ RestorePoll
           /\ UNCHANGED own

----------------------------------------------------------------------------
(* The application and the pollers.                                        *)

Takes(ps) == own' = own \cup ps /\ UNCHANGED calls

SetsOne(p) == /\ \/ AddPoller(p) \/ StopPolling(p)
                 \/ \E i \in {UserInterval[p], None} : SetInterval(p, i)
              /\ Takes({p})

SetsAll == /\ \E i \in Intervals : SetPollInterval(i)
           /\ Takes(attached)

Goes(p)  == (Tick(p) \/ StartPolling(p) \/ PollNow(p)) /\ UNCHANGED <<calls, own>>
Polls(s) == /\ Continue(s) \/ SwarmConnectionFailed(s) \/ PollRejected(s) \/ ListenerThrows(s)
            /\ UNCHANGED <<calls, own>>
Occurs   == (SetMnemonic \/ \E n \in Namespace : Send(n)) /\ UNCHANGED <<calls, own>>

\* The calls are lost with everything else that is not stored.
StartAfresh == /\ Crash
               /\ line' = [d \in {Here} |-> Line!Free]
               /\ pollBoosted' = FALSE
               /\ own' = {}

NextWithCalls == \/ BeginCall \/ GoOn \/ EndCall
                 \/ \E p \in Pollers : SetsOne(p) \/ Goes(p)
                 \/ \E s \in Slot : Polls(s)
                 \/ SetsAll \/ Occurs \/ StartAfresh

SpecWithCalls == InitWithCalls /\ [][NextWithCalls]_everyVars

\* As in Poller: timers fire, and requests and storage accesses come to an end.
FairWithCalls ==
    /\ SpecWithCalls
    /\ \A p \in Pollers : WF_everyVars(Tick(p) /\ UNCHANGED <<calls, own>>)
    /\ \A s \in Slot : WF_everyVars(Continue(s) /\ UNCHANGED <<calls, own>>)

----------------------------------------------------------------------------
\* The pollers that a call has found, and that the application has left alone since.
Given == attached \ own

\* During a call each poller polls at its interval, also one made without an interval of its
\* own, and after it at the assumed default; whenever calls begin and end, in the middle of
\* other polls or of a call's own message, before or after the user is known
\* (supervisor.ts:1351-1363, instance/polling.ts:30-37, polling/index.ts:110-116).
CadenceFollowsCalls ==
    LET due == IF InCall THEN Boosted ELSE Assumed
    IN  /\ pollBoosted <=> InCall
        /\ \A p \in Given : interval[p] = due /\ timer[p] = IF authorized THEN due ELSE None
=============================================================================
