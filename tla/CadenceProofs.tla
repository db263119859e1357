----------------------------- MODULE CadenceProofs -----------------------------
(***************************************************************************)
(* Theorems about the Pollers under a call supervisor, for every number of *)
(* pollers, calls, intervals and mishaps.                                  *)
(***************************************************************************)
EXTENDS CallCadence, PollerProofs

----------------------------------------------------------------------------
(* Calls do to pollers what setPollInterval() does, or nothing.            *)

LEMMA CallsPoll ==
    /\ BoostPoll => SetPollInterval(Boosted) \/ UNCHANGED vars
    /\ RestorePoll => SetPollInterval(Assumed) \/ UNCHANGED vars
BY DEF BoostPoll, RestorePoll

LEMMA StepsOfPoller == [NextWithCalls]_everyVars => [Next]_vars
<1> SUFFICES ASSUME [NextWithCalls]_everyVars PROVE [Next]_vars
  OBVIOUS
<1>1. ASSUME NEW i \in Intervals, SetPollInterval(i) PROVE Next
  BY <1>1 DEF Next
<1>2. CASE BeginCall \/ EndCall
  BY <1>1, <1>2, CallsPoll, CadenceAssumption DEF BeginCall, EndCall
<1>3. CASE GoOn
  BY <1>3 DEF GoOn
<1>4. ASSUME NEW p \in Pollers, SetsOne(p) \/ Goes(p) PROVE Next
  BY <1>4 DEF SetsOne, Goes, Next
<1>5. ASSUME NEW s \in Slot, Polls(s) PROVE Next
  BY <1>5 DEF Polls, Next
<1>6. CASE SetsAll
  BY <1>1, <1>6 DEF SetsAll
<1>7. CASE Occurs \/ StartAfresh
  BY <1>7 DEF Occurs, StartAfresh, Next
<1>8. CASE UNCHANGED everyVars
  BY <1>8 DEF everyVars
<1> QED
  BY <1>2, <1>3, <1>4, <1>5, <1>6, <1>7, <1>8 DEF NextWithCalls

\* So what is proved of Poller holds with calls too.
LEMMA CallsKeepPolling == SpecWithCalls => Spec
<1>1. InitWithCalls => Init
  BY DEF InitWithCalls
<1> QED
  BY <1>1, StepsOfPoller, PTL DEF SpecWithCalls, Spec

\* Nothing is skipped and nothing emitted twice or out of order for a call's sake either,
\* though each boost makes another poll overlap with the one that brought the call.
THEOREM CallsSkipNothing == SpecWithCalls => []NothingSkipped /\ []InOrderOnce
BY CallsKeepPolling, NothingIsSkipped, EmittedInOrderOnce, PTL

----------------------------------------------------------------------------
(* The cadence goes with the calls.                                        *)

Due == IF InCall THEN Boosted ELSE Assumed

LineType == DOMAIN line = {Here}

LEMMA DueTyped == Due \in Intervals /\ Due # None
BY CadenceAssumption, PollerAssumption DEF Due

\* setPollInterval() on all pollers, whether they poll or not.
LEMMA AllAreSet ==
    ASSUME CadenceInv, NEW i \in Intervals, SetPollInterval(i), NEW p \in attached
    PROVE  interval'[p] = i /\ timer'[p] = IF authorized THEN i ELSE None
<1> DEFINE iv == [q \in Pollers |-> IF q \in attached THEN i ELSE interval[q]]
           tm == [q \in Pollers |-> IF q \in attached THEN None ELSE timer[q]]
           go == {q \in IF authorized THEN attached \cap attached ELSE {} : iv[q] # None /\ tm[q] = None}
<1>1. /\ interval' = iv
      /\ timer' = [q \in Pollers |-> IF q \in go THEN iv[q] ELSE tm[q]]
  BY DEF SetPollInterval, Restart, Start
<1>2. p \in Pollers /\ i # None
  BY PollerAssumption DEF CadenceInv, CadenceType
<1>3. iv[p] = i /\ tm[p] = None
  BY <1>2
<1> HIDE DEF iv, tm
<1>4. p \in go <=> authorized
  BY <1>2, <1>3
<1> HIDE DEF go
<1> QED
  BY <1>1, <1>2, <1>3, <1>4

\* What has to be shown of a step that leaves the line alone.
LEMMA CadenceStays ==
    ASSUME CadenceFollowsCalls, UNCHANGED calls,
           \A p \in Given' : /\ p \in Given /\ interval'[p] = interval[p]
                             /\ timer'[p] = IF authorized' THEN interval[p] ELSE None
    PROVE  CadenceFollowsCalls'
<1>1. Due' = Due /\ InCall' = InCall /\ pollBoosted' = pollBoosted
  BY DEF calls, Due, InCall, Line!IsHeld
<1> QED
  BY <1>1 DEF CadenceFollowsCalls, Due

LEMMA FollowsInit == InitWithCalls => LineType /\ CadenceFollowsCalls
BY DEF InitWithCalls, Init, Line!Init, Line!Free, LineType, CadenceFollowsCalls, InCall, Line!IsHeld, Given

LEMMA FollowsStep ==
    ASSUME CadenceInv, LineType, CadenceFollowsCalls, [NextWithCalls]_everyVars
    PROVE  LineType' /\ CadenceFollowsCalls'
<1>1. /\ pollBoosted <=> InCall
      /\ \A p \in Given : interval[p] = Due /\ timer[p] = IF authorized THEN Due ELSE None
  BY DEF CadenceFollowsCalls, Due
<1>2. attached \subseteq Pollers /\ timer \in [Pollers -> Intervals \cup {None}]
      /\ interval \in [Pollers -> Intervals \cup {None}] /\ authorized \in BOOLEAN
  BY DEF CadenceInv, CadenceType
<1>3. \A p \in Given : p \in Pollers /\ p \in attached /\ p \notin own
  BY <1>2 DEF Given
<1>4. CASE BeginCall
  <2>1. PICK u \in Uuid : Line!Seize(Here, u)
    BY <1>4 DEF BeginCall
  <2>2. line[Here] = Line!Free /\ line' = [line EXCEPT ![Here] = Line!Hold(u, "setup")]
    BY <2>1 DEF Line!Seize, Line!Turn
  <2>3. ~InCall /\ InCall' /\ LineType'
    BY <2>2 DEF InCall, Line!IsHeld, Line!Free, Line!Hold, LineType
  <2>4. pollBoosted' = TRUE /\ SetPollInterval(Boosted) /\ own' = {}
    BY <1>1, <1>4, <2>3 DEF BeginCall, BoostPoll
  <2>5. attached' = attached /\ authorized' = authorized
    BY <2>4 DEF SetPollInterval
  <2> QED
    BY <2>3, <2>4, <2>5, AllAreSet, CadenceAssumption DEF CadenceFollowsCalls, Given
<1>5. CASE EndCall
  <2>1. line[Here].phase # "free" /\ line' = [line EXCEPT ![Here] = Line!Free]
    BY <1>5 DEF EndCall, Line!Release, Line!IsHeld, Line!Turn
  <2>2. InCall /\ ~InCall' /\ LineType'
    BY <2>1 DEF InCall, Line!IsHeld, Line!Free, LineType
  <2>3. pollBoosted' = FALSE /\ SetPollInterval(Assumed) /\ own' = own
    BY <1>1, <1>5, <2>2 DEF EndCall, RestorePoll
  <2>4. attached' = attached /\ authorized' = authorized
    BY <2>3 DEF SetPollInterval
  <2> QED
    BY <2>2, <2>3, <2>4, AllAreSet, CadenceAssumption DEF CadenceFollowsCalls, Given
<1>6. CASE GoOn
  <2>1. /\ line[Here].phase # "free"
        /\ \/ line' = [line EXCEPT ![Here] = Line!Hold(line[Here].call, "open")]
           \/ line' = [line EXCEPT ![Here] = Line!Hold(line[Here].call, "closing")]
    BY <1>6 DEF GoOn, Line!Open, Line!Close, Line!Turn
  <2>2. InCall /\ InCall' /\ LineType'
    BY <2>1 DEF InCall, Line!IsHeld, Line!Hold, LineType
  <2>3. UNCHANGED <<interval, timer, attached, authorized, own, pollBoosted>>
    BY <1>6 DEF GoOn, vars, cadence
  <2> QED
    BY <1>1, <2>2, <2>3 DEF CadenceFollowsCalls, Given, Due
<1>7. CASE StartAfresh
  <2>1. ~InCall' /\ LineType' /\ attached' = {} /\ pollBoosted' = FALSE
    BY <1>7 DEF StartAfresh, Crash, InCall, Line!IsHeld, Line!Free, LineType
  <2> QED
    BY <2>1 DEF CadenceFollowsCalls, Given
<1>8. ASSUME UNCHANGED <<calls, cadence, own>> PROVE LineType' /\ CadenceFollowsCalls'
  BY <1>1, <1>8, CadenceStays DEF calls, cadence, LineType, Given
<1>9. ASSUME NEW p \in Pollers, SetsOne(p) PROVE LineType' /\ CadenceFollowsCalls'
  <2>1. UNCHANGED calls /\ own' = own \cup {p}
    BY <1>9 DEF SetsOne, Takes
  <2>2. /\ authorized' = authorized /\ attached' \subseteq attached \cup {p}
        /\ \A q \in Pollers \ {p} : interval'[q] = interval[q] /\ timer'[q] = timer[q]
    <3>1. CASE AddPoller(p)
      BY <1>2, <3>1 DEF AddPoller, Start
    <3>2. CASE StopPolling(p)
      BY <1>2, <3>2 DEF StopPolling
    <3>3. ASSUME NEW i, SetInterval(p, i) PROVE <2>2
      BY <1>2, <3>3 DEF SetInterval, Restart, Start
    <3> QED
      BY <1>9, <3>1, <3>2, <3>3 DEF SetsOne
  <2>3. \A q \in Given' : q \in Given /\ q # p
    BY <2>1, <2>2 DEF Given
  <2> QED
    BY <1>1, <1>3, <2>1, <2>2, <2>3, CadenceStays DEF calls, LineType
<1>10. CASE SetsAll
  <2>1. UNCHANGED calls /\ own' = own \cup attached /\ attached' = attached
    BY <1>10 DEF SetsAll, Takes, SetPollInterval
  <2>2. Given' = {}
    BY <2>1 DEF Given
  <2> QED
    BY <2>1, <2>2, CadenceStays DEF calls, LineType
<1>11. CASE SetMnemonic /\ UNCHANGED <<calls, own>>
  <2>1. /\ interval' = interval /\ attached' = attached /\ authorized' = TRUE /\ own' = own /\ ~authorized
        /\ Start(attached, interval, timer)
    BY <1>11 DEF SetMnemonic
  <2>2. ASSUME NEW p \in Given PROVE timer'[p] = Due
    BY <1>1, <1>2, <1>3, <2>1, <2>2, DueTyped DEF Start
  <2> QED
    BY <1>1, <1>11, <2>1, <2>2, CadenceStays DEF calls, LineType, Given
<1>12. ASSUME NEW p \in Pollers, StartPolling(p), UNCHANGED <<calls, own>>
       PROVE  LineType' /\ CadenceFollowsCalls'
  <2>1. /\ interval' = interval /\ attached' = attached /\ authorized' = authorized /\ own' = own
        /\ authorized /\ Start({p}, interval, timer)
    BY <1>12 DEF StartPolling
  <2>2. ASSUME NEW q \in Given PROVE timer'[q] = Due
    BY <1>1, <1>2, <1>3, <2>1, <2>2, DueTyped DEF Start
  <2> QED
    BY <1>1, <1>12, <2>1, <2>2, CadenceStays DEF calls, LineType, Given
<1>13. ASSUME NEW p \in Pollers, Goes(p) PROVE LineType' /\ CadenceFollowsCalls'
  BY <1>8, <1>12, <1>13 DEF Goes, Tick, PollNow
<1>14. ASSUME NEW s \in Slot, Polls(s) PROVE LineType' /\ CadenceFollowsCalls'
  BY <1>8, <1>14 DEF Polls, Continue, ReceiveSwarms, ReadHashes, Answer, Process, UpdateRead,
                     UpdateWrite, HasSeen, MarkSeen, Emit, Emitted, SwarmConnectionFailed,
                     PollRejected, ListenerThrows
<1>15. CASE Occurs
  BY <1>8, <1>11, <1>15 DEF Occurs, Send
<1>16. CASE UNCHANGED everyVars
  BY <1>8, <1>16 DEF everyVars, vars
<1> QED
  BY <1>4, <1>5, <1>6, <1>7, <1>9, <1>10, <1>13, <1>14, <1>15, <1>16 DEF NextWithCalls

\* Pollers that the application leaves alone poll at the boosted interval exactly while there
\* is a call, and at the assumed default after it, for any number of pollers and calls
\* (supervisor.ts:1351-1363, polling/index.ts:110-116).
THEOREM CadenceFollowsCallsAlways == SpecWithCalls => []CadenceFollowsCalls
<1>1. InitWithCalls => CadenceInv /\ LineType /\ CadenceFollowsCalls
  BY CadenceInit, FollowsInit DEF InitWithCalls
<1>2. CadenceInv /\ LineType /\ CadenceFollowsCalls /\ [NextWithCalls]_everyVars
      => (CadenceInv /\ LineType /\ CadenceFollowsCalls)'
  BY CadenceStep, FollowsStep, StepsOfPoller
<1> QED
  BY <1>1, <1>2, PTL DEF SpecWithCalls
=============================================================================
