-------------------------- MODULE MediaPromisesProofs --------------------------
(***************************************************************************)
(* Theorems about the media half of a call: outgoing and incoming audio,   *)
(* and what becomes of candidates on both sides.                           *)
(***************************************************************************)
EXTENDS MediaProofs, SequenceLemmas

----------------------------------------------------------------------------
(* What the steps do to the contexts of an end.                            *)

Talks(x) == x.msg.type \in {"OFFER", "ANSWER"}

\* A context that was made, as an end and a number.
Born(s) == s[2] <= made[s[1]]

\* An END_CALL or a PRE_OFFER may be sent, and what is awaited may be given up.
QuietWork ==
    /\ awaits' \subseteq awaits
    /\ \A x \in sends' : x \in sends \/ (~Talks(x) /\ x.ctx \in Session /\ x.ctx[2] <= made'[x.ctx[1]])
    /\ gathered' = gathered

\* No context changes, but for one that may be leaving.
Rests ==
    /\ UNCHANGED <<media, contexts, made, calls>>
    /\ \A s \in Session : \/ ctx'[s] = ctx[s]
                          \/ Born(s) /\ ctx'[s] = [ctx[s] EXCEPT !.phase = "leaving"]
    /\ \A e \in End : \/ sender'[e] = sender[e]
                      \/ sender'[e] = Disposed(sender[e])
                      \/ \E cs : sender'[e] = [sender[e] EXCEPT !.lost = cs]
    /\ QuietWork

\* The context s is over.
Closes(s) ==
    /\ media' = [media EXCEPT ![s] = Closed(media[s])]
    /\ contexts' = [contexts EXCEPT ![s[1]] = 0]
    /\ ctx' = [ctx EXCEPT ![s].phase = "over"]
    /\ UNCHANGED <<made, calls>>
    /\ QuietWork
EndsCall(s) == Closes(s) /\ sender' = [sender EXCEPT ![s[1]] = Disposed(sender[s[1]])]

\* A new context, with a media session or without.
Makes(e, phase) ==
    LET s == <<e, made[e] + 1>>
    IN  /\ contexts[e] = 0
        /\ NewContext(e, phase, SenderFor(e))
        /\ media' = media \/ media' = [media EXCEPT ![s] = NewSession(SenderFor(e), <<>>)]
        /\ gathered' = gathered
        /\ \A x \in sends' : x \in sends \/ (~Talks(x) /\ x.ctx = s)
        /\ IF phase = "ringing" THEN awaits' = awaits ELSE awaits' = awaits \cup {<<s, "describe">>}

\* The media session of a context that is ringing already.
Fits(s) ==
    /\ Has(s[1]) /\ s = Current(s[1])
    /\ ctx[s].phase = "ringing" /\ ~media[s].made
    /\ media' = [media EXCEPT ![s] = NewSession(sender[s[1]], ctx[s].waiting)]
    /\ UNCHANGED <<contexts, made, ctx, calls, sender, gathered, awaits, sends>>

\* Negotiation goes on: something is awaited, or a description was set and is sent.
Awaits(s) ==
    /\ Has(s[1]) /\ s = Current(s[1]) /\ ctx'[s].phase = "setup"
    /\ \A t \in Session : ctx'[t].waiting = ctx[t].waiting /\ (t # s => ctx'[t] = ctx[t])
    /\ awaits' = awaits \cup {<<s, "remote">>}
    /\ UNCHANGED <<media, contexts, made, calls, sender, gathered, sends>>
Sets(s) ==
    /\ <<s, "remote">> \in awaits
    /\ awaits' \subseteq awaits \cup {<<s, "describe">>}
    /\ media' = [media EXCEPT ![s] = RemoteDescribed(media[s])]
    /\ UNCHANGED <<contexts, made, ctx, calls, sender, gathered, sends>>
Describes(s) ==
    /\ <<s, "describe">> \in awaits
    /\ awaits' \subseteq awaits
    /\ media' = [media EXCEPT ![s].described = TRUE]
    /\ \A x \in sends' : x \in sends \/ x.ctx = s
    /\ UNCHANGED <<contexts, made, ctx, calls, sender, gathered>>

\* Candidates come, are gathered, or are sent.
Adds(s) ==
    /\ Has(s[1]) /\ s = Current(s[1])
    /\ Arrives(s[1], "ICE_CANDIDATES")
    /\ IF media[s].made
       THEN /\ media' = [media EXCEPT ![s] = AddRemoteCandidates(media[s], Next_(s[1]).cands)]
            /\ UNCHANGED ctx
       ELSE /\ ctx' = [ctx EXCEPT ![s].waiting = ctx[s].waiting \o Next_(s[1]).cands]
            /\ UNCHANGED media
    /\ UNCHANGED <<contexts, made, calls, sender, gathered, awaits, sends>>
Stores ==
    /\ \A x \in sends' : \E y \in sends : x.ctx = y.ctx /\ x.msg = y.msg
    /\ UNCHANGED <<media, contexts, made, ctx, calls, sender, gathered, awaits>>
ArmsSender ==
    /\ \E x \in sends : /\ Arms(x)
                        /\ sender' = [sender EXCEPT ![x.ctx[1]] = Armed(sender[x.ctx[1]])]
    /\ sends' \subseteq sends
    /\ UNCHANGED <<media, contexts, made, ctx, calls, gathered, awaits>>

Shape ==
    \/ Rests
    \/ \E s \in Session : Born(s) /\ EndsCall(s)
    \/ Ignore
    \/ Makes("caller", "setup") /\ made["caller"] = 0
    \/ Makes("callee", "ringing")
    \/ \E s \in Session : Fits(s) \/ Awaits(s) \/ Sets(s) \/ Describes(s) \/ Adds(s) \/ Gather(s)
    \/ Stores \/ ArmsSender
    \/ \E e \in End : Flush(e)

\* What an end has not made is as new; what goes on is of contexts that were made.
Placed ==
    /\ \A e \in End : contexts[e] <= made[e] /\ calls[e] = IF made[e] = 0 THEN 0 ELSE 1
    /\ \A s \in Session : ~Born(s) => /\ media[s] = NewMedia /\ gathered[s] = <<>>
                                      /\ ctx[s] = [phase |-> "none", waiting |-> <<>>]
    /\ \A x \in sends : Born(x.ctx)
    /\ \A w \in awaits : Born(w[1])

LEMMA CurrentBorn ==
    ASSUME Types, Placed, NEW e \in End, Has(e)
    PROVE  Current(e) \in Session /\ Current(e)[1] = e /\ Born(Current(e))
<1>1. Current(e) \in Session /\ Current(e)[1] = e /\ Current(e)[2] = contexts[e]
  BY CurrentType DEF Current
<1> QED
  BY <1>1 DEF Placed, Born

\* Nothing happens to a context, but that it may be left.
LEMMA QuietRests ==
    ASSUME Types, UNCHANGED <<media, contexts, made, calls, gathered, ctx, awaits>>,
           \A e \in End : \/ sender'[e] = sender[e]
                          \/ sender'[e] = Disposed(sender[e])
                          \/ \E cs : sender'[e] = [sender[e] EXCEPT !.lost = cs],
           sends' \subseteq sends
    PROVE  Rests
BY DEF Rests, QuietWork

LEMMA LeavingRests ==
    ASSUME Types, Placed, NEW e \in End, Has(e), NEW hinting, Leaving(Current(e), hinting),
           UNCHANGED <<media, contexts, made, calls, gathered, awaits>>,
           \A f \in End : sender'[f] = sender[f] \/ sender'[f] = Disposed(sender[f])
    PROVE  Rests
<1> DEFINE x == Starts(Current(e), "END_CALL", TRUE)
<1>1. ~Talks(x) /\ x.ctx = Current(e)
  BY DEF Starts, Talks
<1>2. sends' = sends \cup {x} /\ ctx' = [ctx EXCEPT ![Current(e)].phase = "leaving"]
  BY DEF Leaving
<1>3. Current(e) \in Session /\ Born(Current(e))
  BY CurrentBorn
<1> HIDE DEF x
<1>4. \A s \in Session : \/ ctx'[s] = ctx[s]
                         \/ Born(s) /\ ctx'[s] = [ctx[s] EXCEPT !.phase = "leaving"]
  BY <1>2, <1>3 DEF Types, ContextTypes
<1>5. QuietWork
  BY <1>1, <1>2, <1>3 DEF QuietWork, Born
<1> QED
  BY <1>4, <1>5 DEF Rests

LEMMA EndCallEnds ==
    ASSUME Types, NEW s \in Session, Born(s), EndCall(s), UNCHANGED <<made, calls>>, QuietWork
    PROVE  EndsCall(s)
BY DEF EndCall, EndsCall, Closes

LEMMA QuietLess ==
    ASSUME awaits' \subseteq awaits, sends' \subseteq sends, gathered' = gathered
    PROVE  QuietWork
BY DEF QuietWork

\* failCall() ends the context it is given if the end has a call.
LEMMA FailCallShape ==
    ASSUME Types, NEW s \in Session, Born(s), FailCall(s), UNCHANGED <<made, calls, gathered>>,
           awaits' \subseteq awaits, sends' \subseteq sends
    PROVE  Shape
<1>1. QuietWork
  BY QuietLess
<1>2. CASE Has(s[1])
  BY <1>1, <1>2, EndCallEnds DEF FailCall, Shape
<1>3. CASE ~Has(s[1])
  BY <1>1, <1>3 DEF FailCall, Rests, Shape
<1> QED
  BY <1>2, <1>3

LEMMA ShapeOfUsers ==
    ASSUME Types, Placed, Call \/ Accept \/ Ignore \/ \E e \in End : User(e)
    PROVE  Shape
<1>1. CASE Call
  <2> DEFINE s == <<"caller", 1>>
             x == Starts(s, "PRE_OFFER", FALSE)
  <2>1. "caller" \in End /\ made["caller"] \in Nat /\ contexts["caller"] \in Nat
    BY DEF End, Types, ContextTypes
  <2>2. made["caller"] = 0 /\ contexts["caller"] = 0
    BY <1>1, <2>1 DEF Call, Placed
  <2>3. ~Talks(x) /\ x.ctx = s
    BY DEF Starts, Talks
  <2>4. /\ NewContext("caller", "setup", SenderFor("caller"))
        /\ media' = [media EXCEPT ![s] = NewSession(SenderFor("caller"), <<>>)]
        /\ gathered' = gathered /\ sends' = sends \cup {x}
        /\ awaits' = awaits \cup {<<s, "describe">>}
    BY <1>1 DEF Call
  <2>5. s = <<"caller", made["caller"] + 1>>
    BY <2>2
  <2> HIDE DEF s, x
  <2>6. Makes("caller", "setup")
    BY <2>2, <2>3, <2>4, <2>5 DEF Makes
  <2> QED
    BY <2>2, <2>6 DEF Shape
<1>2. CASE Accept
  <2> DEFINE s == Current("callee")
  <2>1. "callee" \in End /\ Has("callee")
    BY <1>2 DEF Accept, End
  <2>2. s \in Session /\ s[1] = "callee"
    BY <2>1, CurrentBorn
  <2>3. /\ ctx' = [ctx EXCEPT ![s].phase = "setup"] /\ awaits' = awaits \cup {<<s, "remote">>}
        /\ UNCHANGED <<media, contexts, made, calls, sender, gathered, sends>>
    BY <1>2 DEF Accept, sessionVars
  <2>4. s = Current(s[1])
    BY <2>2
  <2> HIDE DEF s
  <2>5. ctx'[s].phase = "setup" /\ \A t \in Session : ctx'[t].waiting = ctx[t].waiting /\ (t # s => ctx'[t] = ctx[t])
    BY <2>2, <2>3 DEF Types, ContextTypes
  <2> QED
    BY <2>1, <2>2, <2>3, <2>4, <2>5 DEF Awaits, Shape
<1>3. CASE Ignore
  BY <1>3 DEF Shape
<1>4. ASSUME NEW e \in End, Leave(e) PROVE Shape
  <2>1. Rests
    BY <1>4, LeavingRests DEF Leave
  <2> QED
    BY <2>1 DEF Shape
<1>5. ASSUME NEW e \in End, CallFails(e) PROVE Shape
  <2> DEFINE s == Current(e)
             x == Starts(s, "END_CALL", FALSE)
  <2>1. s \in Session /\ s[1] = e /\ Born(s)
    BY <1>5, CurrentBorn DEF CallFails
  <2>2. ~Talks(x) /\ x.ctx = s
    BY DEF Starts, Talks
  <2>3. /\ EndCall(s) /\ (sends' = sends \cup {x} \/ sends' = sends)
        /\ UNCHANGED <<made, calls, awaits, gathered>>
    BY <1>5 DEF CallFails
  <2> HIDE DEF s, x
  <2>4. QuietWork
    BY <2>1, <2>2, <2>3 DEF QuietWork, Born
  <2> QED
    BY <2>1, <2>3, <2>4, EndCallEnds DEF Shape
<1>6. ASSUME NEW e \in End, Dispose(e) PROVE Shape
  <2> DEFINE s == Current(e)
  <2>1. /\ sender' = [sender EXCEPT ![e] = Disposed(sender[e])]
        /\ UNCHANGED <<made, calls, awaits, gathered>>
    BY <1>6 DEF Dispose
  <2>2. \A f \in End : sender'[f] = sender[f] \/ sender'[f] = Disposed(sender[f])
    BY <2>1 DEF Types, SenderType
  <2>3. CASE Has(e) /\ ctx[s].phase # "leaving"
    <3>1. Leaving(s, TRUE) /\ UNCHANGED <<media, contexts>>
      BY <1>6, <2>3 DEF Dispose
    <3> QED
      BY <2>1, <2>2, <2>3, <3>1, LeavingRests DEF Shape
  <2>4. CASE Has(e) /\ ctx[s].phase = "leaving"
    <3>1. s \in Session /\ s[1] = e /\ Born(s)
      BY <2>4, CurrentBorn
    <3>2. /\ contexts' = [contexts EXCEPT ![e] = 0] /\ ctx' = [ctx EXCEPT ![s].phase = "over"]
          /\ media' = [media EXCEPT ![s] = Closed(media[s])] /\ sends' = sends
      BY <1>6, <2>4 DEF Dispose
    <3>3. QuietWork
      BY <2>1, <3>2, QuietLess
    <3> QED
      BY <2>1, <3>1, <3>2, <3>3 DEF EndsCall, Closes, Shape
  <2>5. CASE ~Has(e)
    <3>1. UNCHANGED <<media, contexts, ctx, sends>>
      BY <1>6, <2>5 DEF Dispose
    <3> QED
      BY <2>1, <2>2, <3>1, QuietRests DEF Shape
  <2> QED
    BY <2>3, <2>4, <2>5
<1> QED
  BY <1>1, <1>2, <1>3, <1>4, <1>5, <1>6 DEF User

LEMMA ShapeOfMessages ==
    ASSUME Types, Placed, OnPreOffer \/ OnOffer \/ OnAnswer \/ \E e \in End : Receive(e)
    PROVE  Shape
<1>0. "callee" \in End /\ "caller" \in End
  BY DEF End
<1>1. CASE OnPreOffer
  <2>1. /\ UNCHANGED <<media, awaits, sends, gathered>>
        /\ IF Has("callee") THEN UNCHANGED <<contexts, made, ctx, calls, sender>>
           ELSE NewContext("callee", "ringing", SenderFor("callee"))
    BY <1>1 DEF OnPreOffer, sessionVars
  <2>2. CASE Has("callee")
    BY <2>1, <2>2, QuietRests DEF Shape
  <2>3. CASE ~Has("callee")
    BY <2>1, <2>3 DEF Makes, Has, Shape
  <2> QED
    BY <2>2, <2>3
<1>2. CASE OnOffer
  <2>1. CASE Has("callee")
    <3> DEFINE s == Current("callee")
    <3>1. s \in Session /\ s[1] = "callee"
      BY <1>0, <2>1, CurrentBorn
    <3>2. /\ UNCHANGED <<contexts, made, ctx, calls, sender, awaits, sends, gathered>>
          /\ \/ /\ ctx[s].phase = "ringing" /\ ~media[s].made
                /\ media' = [media EXCEPT ![s] = NewSession(sender["callee"], ctx[s].waiting)]
             \/ media' = media
      BY <1>2, <2>1 DEF OnOffer
    <3>3. s = Current(s[1]) /\ Has(s[1])
      BY <2>1, <3>1
    <3> HIDE DEF s
    <3>4. CASE media' = media
      BY <3>2, <3>4, QuietRests DEF Shape
    <3>5. CASE media' # media
      BY <3>1, <3>2, <3>3, <3>5 DEF Fits, Shape
    <3> QED
      BY <3>4, <3>5
  <2>2. CASE ~Has("callee")
    <3>1. /\ NewContext("callee", "ringing", SenderFor("callee"))
          /\ media' = [media EXCEPT ![<<"callee", made["callee"] + 1>>] =
                                       NewSession(SenderFor("callee"), <<>>)]
          /\ UNCHANGED <<awaits, sends, gathered>>
      BY <1>2, <2>2 DEF OnOffer
    <3> QED
      BY <2>2, <3>1 DEF Makes, Has, Shape
  <2> QED
    BY <2>1, <2>2
<1>3. CASE OnAnswer
  <2> DEFINE s == Current("caller")
  <2>1. UNCHANGED <<media, contexts, made, ctx, calls, sender, gathered, sends>>
    BY <1>3 DEF OnAnswer, sessionVars
  <2>2. CASE Has("caller") /\ ctx[s].phase = "setup"
    <3>1. s \in Session /\ s[1] = "caller"
      BY <1>0, <2>2, CurrentBorn
    <3>2. awaits' = awaits \cup {<<s, "remote">>}
      BY <1>3, <2>2 DEF OnAnswer
    <3>3. s = Current(s[1]) /\ Has(s[1])
      BY <2>2, <3>1
    <3> HIDE DEF s
    <3>4. Awaits(s)
      BY <2>1, <2>2, <3>1, <3>2, <3>3 DEF Awaits
    <3> QED
      BY <3>1, <3>4 DEF Shape
  <2>3. CASE ~(Has("caller") /\ ctx[s].phase = "setup")
    <3>1. awaits' = awaits
      BY <1>3, <2>3 DEF OnAnswer
    <3> QED
      BY <2>1, <3>1, QuietRests DEF Shape
  <2> QED
    BY <2>2, <2>3
<1>4. ASSUME NEW e \in End, OnIceCandidates(e) PROVE Shape
  <2>1. UNCHANGED <<contexts, made, calls, sender, awaits, sends, gathered>>
    BY <1>4 DEF OnIceCandidates
  <2>2. CASE Has(e)
    <3> DEFINE s == Current(e)
    <3>1. s \in Session /\ s[1] = e
      BY <2>2, CurrentBorn
    <3>2. Arrives(e, "ICE_CANDIDATES")
      BY <1>4 DEF OnIceCandidates
    <3>3. IF media[s].made
          THEN /\ media' = [media EXCEPT ![s] = AddRemoteCandidates(media[s], Next_(e).cands)]
               /\ UNCHANGED ctx
          ELSE /\ ctx' = [ctx EXCEPT ![s].waiting = ctx[s].waiting \o Next_(e).cands]
               /\ UNCHANGED media
      BY <1>4, <2>2 DEF OnIceCandidates
    <3>4. s = Current(s[1]) /\ Has(s[1])
      BY <2>2, <3>1
    <3> HIDE DEF s
    <3> QED
      BY <2>1, <3>1, <3>2, <3>3, <3>4 DEF Adds, Shape
  <2>3. CASE ~Has(e)
    <3>1. UNCHANGED <<media, ctx>>
      BY <1>4, <2>3 DEF OnIceCandidates
    <3> QED
      BY <2>1, <3>1, QuietRests DEF Shape
  <2> QED
    BY <2>2, <2>3
<1>5. ASSUME NEW e \in End, OnEndCall(e) PROVE Shape
  <2>1. UNCHANGED <<made, calls, awaits, sends, gathered>>
    BY <1>5 DEF OnEndCall
  <2>2. CASE Has(e) /\ ctx[Current(e)].phase # "leaving"
    <3>1. EndCall(Current(e)) /\ QuietWork
      BY <1>5, <2>1, <2>2, QuietLess DEF OnEndCall
    <3> QED
      BY <2>1, <2>2, <3>1, CurrentBorn, EndCallEnds DEF Shape
  <2>3. CASE ~(Has(e) /\ ctx[Current(e)].phase # "leaving")
    <3>1. UNCHANGED <<media, contexts, ctx, sender>>
      BY <1>5, <2>3 DEF OnEndCall
    <3> QED
      BY <2>1, <3>1, QuietRests DEF Shape
  <2> QED
    BY <2>2, <2>3
<1> QED
  BY <1>1, <1>2, <1>3, <1>4, <1>5 DEF Receive

LEMMA ShapeOfSessions ==
    ASSUME Types, Placed, NEW s \in Session,
           \/ Described(s) \/ RemoteSet(s) \/ Gather(s) \/ OnHangupHint(s) \/ Media(s)
           \/ \E what \in {"describe", "remote"} : MediaRejects(s, what)
    PROVE  Shape
<1>1. CASE Described(s)
  <2> DEFINE x == Starts(s, IF s[1] = "caller" THEN "OFFER" ELSE "ANSWER", FALSE)
  <2>1. x.ctx = s
    BY DEF Starts
  <2>2. /\ <<s, "describe">> \in awaits /\ awaits' \subseteq awaits
        /\ media' = [media EXCEPT ![s].described = TRUE] /\ sends' = sends \cup {x}
        /\ UNCHANGED <<contexts, made, ctx, calls, sender, gathered>>
    BY <1>1 DEF Described
  <2> HIDE DEF x
  <2> QED
    BY <2>1, <2>2 DEF Describes, Shape
<1>2. CASE RemoteSet(s)
  BY <1>2 DEF RemoteSet, Sets, Shape
<1>3. CASE Gather(s)
  BY <1>3 DEF Shape
<1>4. CASE OnHangupHint(s)
  <2>1. Born(s)
    BY <1>4 DEF OnHangupHint, Open, Placed, NewMedia
  <2>2. EndCall(s) /\ UNCHANGED <<made, calls, awaits, sends, gathered>>
    BY <1>4 DEF OnHangupHint
  <2> QED
    BY <2>1, <2>2, EndCallEnds, QuietLess DEF Shape
<1>5. CASE Media(s)
  <2>1. UNCHANGED <<callVars, sender, gathered>>
    BY <1>5 DEF Media, WithLoad, Free
  <2>2. media' = media
    BY <1>5 DEF Media, WithLoad, Free, Connects, IceStateChanges, WriteAudio, AttachRemoteTrack,
                ReceiveRtp, DtlsCompletes, ConnectionStateChanges, ChannelOpens, Drain
  <2> QED
    BY <2>1, <2>2, QuietRests DEF callVars, Shape
<1>6. ASSUME NEW what \in {"describe", "remote"}, MediaRejects(s, what) PROVE Shape
  <2>1. <<s, what>> \in awaits /\ FailCall(s)
        /\ UNCHANGED <<made, calls, sends, gathered>> /\ awaits' \subseteq awaits
    BY <1>6 DEF MediaRejects
  <2>2. <<s, what>>[1] = s
    OBVIOUS
  <2>3. Born(s)
    BY <2>1, <2>2 DEF Placed
  <2> QED
    BY <2>1, <2>3, FailCallShape
<1> QED
  BY <1>1, <1>2, <1>3, <1>4, <1>5, <1>6

LEMMA ShapeOfSends ==
    ASSUME Types, Placed, NEW x \in sends, Store(x) \/ Resolve(x) \/ RejectSend(x)
    PROVE  Shape
<1>0. x.ctx \in Session /\ Born(x.ctx) /\ x.ctx[1] \in End /\ x \in Send
  BY SessionIsPair DEF Types, PostTypes, Send, Placed
<1>1. CASE Store(x)
  <2>1. sends' = (sends \ {x}) \cup {[x EXCEPT !.stored = TRUE]}
    BY <1>1 DEF Store
  <2>2. [x EXCEPT !.stored = TRUE].ctx = x.ctx /\ [x EXCEPT !.stored = TRUE].msg = x.msg
    BY <1>0 DEF Send
  <2> QED
    BY <1>1, <2>1, <2>2 DEF Store, Stores, Shape, sessionVars
<1>2. CASE Resolve(x)
  <2>1. UNCHANGED <<made, calls, awaits, gathered>> /\ sends' \subseteq sends
    BY <1>2 DEF Resolve
  <2>2. CASE x.ends
    <3>1. EndCall(x.ctx)
      BY <1>2, <2>2 DEF Resolve
    <3> QED
      BY <1>0, <2>1, <3>1, EndCallEnds, QuietLess DEF Shape
  <2>3. CASE ~x.ends
    <3>1. /\ UNCHANGED <<contexts, ctx, media>>
          /\ sender' = IF Arms(x) THEN [sender EXCEPT ![x.ctx[1]] = Armed(sender[x.ctx[1]])]
                       ELSE sender
      BY <1>2, <2>3 DEF Resolve
    <3>2. CASE Arms(x)
      BY <2>1, <3>1, <3>2 DEF ArmsSender, Shape
    <3>3. CASE ~Arms(x)
      BY <2>1, <3>1, <3>3, QuietRests DEF Shape
    <3> QED
      BY <3>2, <3>3
  <2> QED
    BY <2>2, <2>3
<1>3. CASE RejectSend(x)
  <2>1. UNCHANGED <<made, calls, awaits, gathered>> /\ sends' \subseteq sends
    BY <1>3 DEF RejectSend
  <2>2. CASE x.msg.type = "ICE_CANDIDATES"
    <3> DEFINE e == x.ctx[1]
    <3>1. /\ sender' = [sender EXCEPT ![e].lost = sender[e].lost \cup Range(x.msg.cands)]
          /\ UNCHANGED <<contexts, ctx, media>>
      BY <1>3, <2>2 DEF RejectSend
    <3>2. sender'[e] = [sender[e] EXCEPT !.lost = sender[e].lost \cup Range(x.msg.cands)]
          /\ \A f \in End \ {e} : sender'[f] = sender[f]
      BY <1>0, <3>1 DEF Types, SenderType
    <3>3. \A f \in End : sender'[f] = sender[f] \/ \E cs : sender'[f] = [sender[f] EXCEPT !.lost = cs]
      BY <3>2
    <3> QED
      BY <2>1, <3>1, <3>3, QuietRests DEF Shape
  <2>3. CASE x.msg.type = "END_CALL"
    <3>1. EndCall(x.ctx) \/ UNCHANGED <<sender, contexts, ctx, media>>
      BY <1>3, <2>3 DEF RejectSend
    <3>2. CASE EndCall(x.ctx)
      BY <1>0, <2>1, <3>2, EndCallEnds, QuietLess DEF Shape
    <3>3. CASE UNCHANGED <<sender, contexts, ctx, media>>
      BY <2>1, <3>3, QuietRests DEF Shape
    <3> QED
      BY <3>1, <3>2, <3>3
  <2>4. CASE x.msg.type \notin {"ICE_CANDIDATES", "END_CALL"}
    <3>1. FailCall(x.ctx)
      BY <1>3, <2>4 DEF RejectSend
    <3> QED
      BY <1>0, <2>1, <3>1, FailCallShape
  <2> QED
    BY <2>2, <2>3, <2>4
<1> QED
  BY <1>1, <1>2, <1>3

LEMMA ShapeOfStep ==
    ASSUME Types, Placed, [Next]_vars
    PROVE  Shape
<1>1. CASE UNCHANGED vars
  BY <1>1, QuietRests DEF vars, sessionVars, callVars, Shape
<1>2. CASE Next
  <2>1. CASE Call \/ Accept \/ Ignore \/ \E e \in End : User(e)
    BY <2>1, ShapeOfUsers
  <2>2. CASE OnPreOffer \/ OnOffer \/ OnAnswer \/ \E e \in End : Receive(e)
    BY <2>2, ShapeOfMessages
  <2>3. CASE \E e \in End : Flush(e)
    BY <2>3 DEF Shape
  <2>4. ASSUME NEW s \in Session,
               \/ Described(s) \/ RemoteSet(s) \/ Gather(s) \/ OnHangupHint(s) \/ Media(s)
               \/ \E what \in {"describe", "remote"} : MediaRejects(s, what)
        PROVE  Shape
    BY <2>4, ShapeOfSessions
  <2>5. ASSUME NEW x \in sends, Store(x) \/ Resolve(x) \/ RejectSend(x) PROVE Shape
    BY <2>5, ShapeOfSends
  <2> QED
    BY <1>2, <2>1, <2>2, <2>3, <2>4, <2>5 DEF Next
<1> QED
  BY <1>1, <1>2

----------------------------------------------------------------------------
(* Contexts are made one after the other.                                  *)

LEMMA PlacedInit == Init => Placed
<1> SUFFICES ASSUME Init PROVE Placed
  OBVIOUS
<1>1. \A e \in End : contexts[e] = 0 /\ made[e] = 0 /\ calls[e] = 0
  BY DEF Init
<1>2. \A s \in Session : media[s] = NewMedia /\ gathered[s] = <<>>
                          /\ ctx[s] = [phase |-> "none", waiting |-> <<>>]
  BY DEF Init, SessionsInit
<1>3. sends = {} /\ awaits = {}
  BY DEF Init
<1> QED
  BY <1>1, <1>2, <1>3 DEF Placed

\* What is new: a context, with its sender and, at times, its media session.
Birth(e, phase, s) ==
    /\ s = <<e, made[e] + 1>> /\ s[1] = e /\ s[2] = made[e] + 1 /\ ~Born(s)
    /\ made[e] \in Nat /\ made'[e] = made[e] + 1 /\ contexts'[e] = made[e] + 1
    /\ contexts[e] = 0 /\ calls'[e] = 1
    /\ sender'[e] = SenderFor(e)
    /\ \A f \in End \ {e} : /\ made'[f] = made[f] /\ contexts'[f] = contexts[f]
                            /\ calls'[f] = calls[f] /\ sender'[f] = sender[f]
    /\ ctx'[s] = [phase |-> phase, waiting |-> <<>>]
    /\ media'[s] \in {NewMedia, NewSession(SenderFor(e), <<>>)}
    /\ \A t \in Session \ {s} : ctx'[t] = ctx[t] /\ media'[t] = media[t]

LEMMA MakesBirth ==
    ASSUME Types, Placed, NEW e \in End, NEW phase, Makes(e, phase)
    PROVE  \E s \in Session : Birth(e, phase, s)
<1> DEFINE s == <<e, made[e] + 1>>
<1>1. /\ made[e] < MaxContexts /\ made' = [made EXCEPT ![e] = made[e] + 1]
      /\ contexts' = [contexts EXCEPT ![e] = made[e] + 1]
      /\ ctx' = [ctx EXCEPT ![s] = [phase |-> phase, waiting |-> <<>>]]
      /\ calls' = [calls EXCEPT ![e] = IF calls[e] = 0 THEN made[e] + 1 ELSE calls[e]]
      /\ sender' = [sender EXCEPT ![e] = SenderFor(e)]
      /\ contexts[e] = 0
      /\ media' = media \/ media' = [media EXCEPT ![s] = NewSession(SenderFor(e), <<>>)]
  BY DEF Makes, NewContext
<1>2. made[e] \in 0..MaxContexts /\ MaxContexts \in Nat
  BY CallMediaAssumption DEF Types, ContextTypes
<1>3. made[e] \in Nat /\ made[e] + 1 \in 1..MaxContexts
  BY <1>1, <1>2
<1>4. s \in Session /\ s[1] = e /\ s[2] = made[e] + 1
  BY <1>3, NumberedSession
<1>5. ~Born(s)
  BY <1>3, <1>4 DEF Born
<1>6. media[s] = NewMedia
  BY <1>4, <1>5 DEF Placed
<1>7. calls[e] = IF made[e] = 0 THEN 0 ELSE 1
  BY DEF Placed
<1> HIDE DEF s
<1>8. /\ made'[e] = made[e] + 1 /\ contexts'[e] = made[e] + 1 /\ sender'[e] = SenderFor(e)
      /\ calls'[e] = 1
      /\ \A f \in End \ {e} : /\ made'[f] = made[f] /\ contexts'[f] = contexts[f]
                              /\ calls'[f] = calls[f] /\ sender'[f] = sender[f]
  BY <1>1, <1>7 DEF Types, ContextTypes, SenderType
<1>9. /\ ctx'[s] = [phase |-> phase, waiting |-> <<>>]
      /\ media'[s] \in {NewMedia, NewSession(SenderFor(e), <<>>)}
      /\ \A t \in Session \ {s} : ctx'[t] = ctx[t] /\ media'[t] = media[t]
  BY <1>1, <1>4, <1>6 DEF Types, ContextTypes, SessionTypes
<1>10. s = <<e, made[e] + 1>> /\ contexts[e] = 0
  BY <1>1 DEF s
<1> QED
  BY <1>3, <1>4, <1>5, <1>8, <1>9, <1>10 DEF Birth

LEMMA EndNumbers ==
    ASSUME Types, Placed, NEW e \in End
    PROVE  /\ contexts[e] \in Nat /\ made[e] \in Nat /\ calls[e] \in Nat
           /\ contexts[e] <= made[e] /\ calls[e] = IF made[e] = 0 THEN 0 ELSE 1
<1>1. /\ contexts[e] \in 0..MaxContexts /\ made[e] \in 0..MaxContexts
      /\ calls[e] \in 0..MaxContexts /\ MaxContexts \in Nat
  BY CallMediaAssumption DEF Types, ContextTypes
<1> QED
  BY <1>1 DEF Placed

\* A context is no more than changed, where it is.
LEMMA PlacedKept ==
    ASSUME Types, Placed, UNCHANGED <<made, calls>>,
           \A e \in End : contexts'[e] \in {0, contexts[e]},
           \A s \in Session : ~Born(s) =>
               media'[s] = media[s] /\ gathered'[s] = gathered[s] /\ ctx'[s] = ctx[s],
           \A x \in sends' : Born(x.ctx) \/ x \in sends, \A w \in awaits' : Born(w[1]) \/ w \in awaits
    PROVE  Placed'
<1>1. \A s : Born(s)' <=> Born(s)
  BY DEF Born
<1>2. ASSUME NEW e \in End
      PROVE  contexts'[e] <= made'[e] /\ calls'[e] = IF made'[e] = 0 THEN 0 ELSE 1
  BY EndNumbers
<1>3. \A s \in Session : ~Born(s)' => /\ media'[s] = NewMedia /\ gathered'[s] = <<>>
                                      /\ ctx'[s] = [phase |-> "none", waiting |-> <<>>]
  BY <1>1 DEF Placed
<1>4. \A x \in sends' : Born(x.ctx)'
  BY <1>1 DEF Placed
<1>5. \A w \in awaits' : Born(w[1])'
  BY <1>1 DEF Placed
<1> QED
  BY <1>2, <1>3, <1>4, <1>5 DEF Placed

LEMMA PlacedStep ==
    ASSUME Types, Placed, [Next]_vars
    PROVE  Placed'
<1>0. Shape
  BY ShapeOfStep
<1>a. \A e \in End : Has(e) => Current(e) \in Session /\ Born(Current(e))
  BY CurrentBorn
<1>1. CASE Rests
  <2>1. UNCHANGED <<media, contexts, made, calls, gathered>> /\ awaits' \subseteq awaits
    BY <1>1 DEF Rests, QuietWork
  <2>2. \A x \in sends' : Born(x.ctx) \/ x \in sends
    BY <1>1, <2>1 DEF Rests, QuietWork, Born
  <2>3. \A s \in Session : ~Born(s) => ctx'[s] = ctx[s]
    BY <1>1 DEF Rests
  <2> QED
    BY <2>1, <2>2, <2>3, PlacedKept
<1>2. ASSUME NEW s \in Session, Born(s), Closes(s) PROVE Placed'
  <2>1. UNCHANGED <<made, calls, gathered>> /\ awaits' \subseteq awaits
    BY <1>2 DEF Closes, QuietWork
  <2>2. \A x \in sends' : Born(x.ctx) \/ x \in sends
    BY <1>2, <2>1 DEF Closes, QuietWork, Born
  <2>3. \A e \in End : contexts'[e] \in {0, contexts[e]}
    BY <1>2 DEF Closes, Types, ContextTypes
  <2>4. \A t \in Session : ~Born(t) => media'[t] = media[t] /\ ctx'[t] = ctx[t]
    BY <1>2 DEF Closes, Types, ContextTypes, SessionTypes
  <2> QED
    BY <2>1, <2>2, <2>3, <2>4, PlacedKept
<1>3. CASE Ignore
  <2> DEFINE s == Current("callee")
  <2>1. "callee" \in End /\ Has("callee")
    BY <1>3 DEF Ignore, End
  <2>2. s \in Session /\ s[1] = "callee" /\ Born(s)
    BY <2>1, CurrentBorn
  <2>3. /\ contexts' = [contexts EXCEPT !["callee"] = 0] /\ ctx' = [ctx EXCEPT ![s].phase = "over"]
        /\ media' = [media EXCEPT ![s] = Closed(media[s])]
        /\ UNCHANGED <<made, calls, gathered, awaits, sends>>
    BY <1>3 DEF Ignore
  <2> HIDE DEF s
  <2>4. Closes(s)
    BY <2>2, <2>3 DEF Closes, QuietWork
  <2> QED
    BY <1>2, <2>2, <2>4
<1>4. ASSUME NEW e \in End, NEW phase, Makes(e, phase) PROVE Placed'
  <2>1. PICK s \in Session : Birth(e, phase, s)
    BY <1>4, MakesBirth
  <2>2. \A w \in awaits' : w \in awaits \/ w = <<s, "describe">>
    BY <1>4, <2>1 DEF Makes, Birth
  <2>3. /\ gathered' = gathered /\ \A x \in sends' : x \in sends \/ x.ctx = s
        /\ \A w \in awaits' : w \in awaits \/ w[1] = s
    BY <1>4, <2>1, <2>2 DEF Makes, Birth
  <2>4. Born(s)'
    BY <2>1 DEF Birth, Born
  <2>5. ASSUME NEW t \in Session, Born(t) PROVE Born(t)'
    <3>1. t[1] \in End /\ t[2] \in Nat /\ made[t[1]] \in Nat
      BY SessionIsPair, EndNumbers, CallMediaAssumption
    <3>2. made'[t[1]] \in Nat /\ made[t[1]] <= made'[t[1]]
      BY <2>1, <3>1 DEF Birth
    <3> QED
      BY <2>5, <3>1, <3>2 DEF Born
  <2>6. \A f \in End : contexts'[f] <= made'[f] /\ calls'[f] = IF made'[f] = 0 THEN 0 ELSE 1
    BY <2>1 DEF Birth, Placed
  <2>7. ASSUME NEW t \in Session, ~Born(t)'
        PROVE  /\ media'[t] = NewMedia /\ gathered'[t] = <<>>
               /\ ctx'[t] = [phase |-> "none", waiting |-> <<>>]
    <3>1. ~Born(t) /\ t # s
      BY <2>4, <2>5, <2>7 DEF Born
    <3> QED
      BY <2>1, <2>3, <3>1 DEF Birth, Placed
  <2>8. ASSUME NEW x \in sends' PROVE Born(x.ctx)'
    <3>1. \A y \in sends : y.ctx \in Session /\ Born(y.ctx)
      BY DEF Types, PostTypes, Send, Placed
    <3> QED
      BY <2>3, <2>4, <2>5, <3>1 DEF Born
  <2>9. ASSUME NEW w \in awaits' PROVE Born(w[1])'
    <3>1. \A v \in awaits : v[1] \in Session /\ Born(v[1])
      BY DEF Types, ContextTypes, Placed
    <3> QED
      BY <2>3, <2>4, <2>5, <3>1 DEF Born
  <2> QED
    BY <2>6, <2>7, <2>8, <2>9 DEF Placed
<1>5. ASSUME NEW s \in Session, Fits(s) \/ Awaits(s) \/ Sets(s) \/ Describes(s) \/ Adds(s)
      PROVE  Placed'
  <2>1. UNCHANGED <<contexts, made, calls, gathered>>
    BY <1>5 DEF Fits, Awaits, Sets, Describes, Adds
  <2>2. Born(s)
    <3>1. CASE Fits(s) \/ Awaits(s) \/ Adds(s)
      BY <1>a, <3>1, SessionIsPair DEF Fits, Awaits, Adds
    <3>2. CASE Sets(s) \/ Describes(s)
      <4>1. PICK what : <<s, what>> \in awaits
        BY <3>2 DEF Sets, Describes
      <4>2. <<s, what>>[1] = s
        OBVIOUS
      <4> QED
        BY <4>1, <4>2 DEF Placed
    <3> QED
      BY <1>5, <3>1, <3>2
  <2>3. ASSUME NEW w \in awaits' PROVE w \in awaits \/ w[1] = s
    <3>1. w \in awaits \/ w = <<s, "remote">> \/ w = <<s, "describe">>
      BY <1>5 DEF Fits, Awaits, Sets, Describes, Adds
    <3> QED
      BY <3>1
  <2>4. \A x \in sends' : x \in sends \/ x.ctx = s
    BY <1>5 DEF Fits, Awaits, Sets, Describes, Adds
  <2>5. \A t \in Session \ {s} : media'[t] = media[t] /\ ctx'[t] = ctx[t]
    BY <1>5 DEF Fits, Awaits, Sets, Describes, Adds, Types, SessionTypes, ContextTypes
  <2> QED
    BY <2>1, <2>2, <2>3, <2>4, <2>5, PlacedKept
<1>6. ASSUME NEW s \in Session, Gather(s) PROVE Placed'
  <2>1. UNCHANGED <<media, contexts, made, calls, ctx, awaits, sends>>
    BY <1>6 DEF Gather, sessionVars, callVars
  <2>2. Born(s)
    BY <1>6 DEF Gather, Open, Placed, NewMedia
  <2>3. \A t \in Session \ {s} : gathered'[t] = gathered[t]
    BY <1>6 DEF Gather, Types, LoadTypes
  <2> QED
    BY <2>1, <2>2, <2>3, PlacedKept
<1>7. CASE Stores \/ ArmsSender
  <2>1. UNCHANGED <<media, contexts, made, calls, ctx, awaits, gathered>>
    BY <1>7 DEF Stores, ArmsSender
  <2>2. \A x \in sends' : Born(x.ctx)
    BY <1>7 DEF Stores, ArmsSender, Placed
  <2> QED
    BY <2>1, <2>2, PlacedKept
<1>8. ASSUME NEW e \in End, Flush(e) PROVE Placed'
  <2> DEFINE x == [Starts(<<e, calls[e]>>, "ICE_CANDIDATES", FALSE) EXCEPT !.msg.cands = sender[e].queue]
  <2>1. UNCHANGED <<media, contexts, made, calls, ctx, awaits, gathered>>
    BY <1>8 DEF Flush, sessionVars
  <2>2. sends' = sends \/ sends' = sends \cup {x}
    BY <1>8 DEF Flush
  <2>3. x.ctx = <<e, calls[e]>>
    BY DEF Starts
  <2>4. calls[e] = (IF made[e] = 0 THEN 0 ELSE 1) /\ made[e] \in Nat
    BY CallMediaAssumption DEF Placed, Types, ContextTypes
  <2>5. Born(<<e, calls[e]>>)
    BY <2>4 DEF Born
  <2> HIDE DEF x
  <2> QED
    BY <2>1, <2>2, <2>3, <2>5, PlacedKept
<1> QED
  BY <1>0, <1>1, <1>2, <1>3, <1>4, <1>5, <1>6, <1>7, <1>8 DEF Shape, EndsCall, End

----------------------------------------------------------------------------
(* Outgoing audio.                                                         *)

LEMMA ModUnique ==
    ASSUME NEW n \in Nat, NEW q \in Nat, NEW r \in 0..(SeqModulus - 1), n = q * SeqModulus + r
    PROVE  n % SeqModulus = r
<1> DEFINE p == n \div SeqModulus
           o == n % SeqModulus
           a == q * SeqModulus
           b == p * SeqModulus
<1>0. SeqModulus \in Nat /\ SeqModulus >= 1
  BY BridgeAssumption
<1>1. p \in Nat /\ o \in 0..(SeqModulus - 1) /\ n = b + o
  BY <1>0
<1>2. a \in Nat /\ b \in Nat
  BY <1>0, <1>1
<1>3. ASSUME NEW i \in Nat, NEW j \in Nat, i < j
      PROVE  i * SeqModulus + SeqModulus <= j * SeqModulus
  <2>1. (j - i) * SeqModulus >= SeqModulus
    BY <1>0, <1>3
  <2>2. (j - i) * SeqModulus = j * SeqModulus - i * SeqModulus
    BY <1>0
  <2>3. i * SeqModulus \in Nat /\ j * SeqModulus \in Nat
    BY <1>0
  <2> QED
    BY <1>0, <2>1, <2>2, <2>3
<1>4. ~(q < p) /\ ~(p < q)
  <2>1. q < p => a + SeqModulus <= b
    BY <1>1, <1>3
  <2>2. p < q => b + SeqModulus <= a
    BY <1>1, <1>3
  <2>3. n = a + r /\ n = b + o
    BY <1>1
  <2> HIDE DEF a, b, p, o
  <2> QED
    BY <1>0, <1>1, <1>2, <2>1, <2>2, <2>3
<1>5. q = p
  <2> HIDE DEF p
  <2> QED
    BY <1>1, <1>4
<1>6. a = b
  BY <1>5
<1> HIDE DEF a, b, p, o
<1>7. n = a + r
  BY DEF a
<1>8. o = r
  BY <1>0, <1>1, <1>2, <1>6, <1>7
<1> QED
  BY <1>8 DEF o

\* Counting on from a wrapped number is counting on, and wrapping.
LEMMA WrapsOn ==
    ASSUME NEW x \in Nat, NEW k \in Nat
    PROVE  ((x % SeqModulus) + k) % SeqModulus = (x + k) % SeqModulus
<1> DEFINE q == x \div SeqModulus
           o == x % SeqModulus
           p == (o + k) \div SeqModulus
           r == (o + k) % SeqModulus
<1>0. SeqModulus \in Nat /\ SeqModulus >= 1
  BY BridgeAssumption
<1>1. q \in Nat /\ o \in 0..(SeqModulus - 1) /\ x = q * SeqModulus + o
  BY <1>0
<1> HIDE DEF q, o
<1>2. o + k \in Nat
  BY <1>0, <1>1
<1>3. p \in Nat /\ r \in 0..(SeqModulus - 1) /\ o + k = p * SeqModulus + r
  BY <1>0, <1>2
<1> HIDE DEF p, r
<1>4. q * SeqModulus + p * SeqModulus = (q + p) * SeqModulus
  BY <1>0, <1>1, <1>3
<1>5. q * SeqModulus \in Nat /\ p * SeqModulus \in Nat /\ (q + p) * SeqModulus \in Nat
  BY <1>0, <1>1, <1>3
<1>6. x + k = (q + p) * SeqModulus + r
  BY <1>0, <1>1, <1>3, <1>4, <1>5
<1>7. (x + k) % SeqModulus = r
  BY <1>1, <1>3, <1>6, ModUnique
<1> QED
  BY <1>7 DEF r, o


\* Numbers that grow, and none of them above n.
Rising(q, n) == /\ \A i \in 1..Len(q) : q[i] <= n
                /\ \A i \in 1..(Len(q) - 1) : q[i] < q[i + 1]

LEMMA RisingAppend ==
    ASSUME NEW q \in Seq(Nat), NEW n \in Nat, Rising(q, n)
    PROVE  Rising(Append(q, n + 1), n + 1)
<1> DEFINE r == Append(q, n + 1)
<1>1. /\ Len(q) \in Nat /\ Len(r) = Len(q) + 1 /\ r[Len(q) + 1] = n + 1
      /\ \A i \in 1..Len(q) : r[i] = q[i] /\ q[i] \in Nat
  OBVIOUS
<1> HIDE DEF r
<1>2. ASSUME NEW i \in 1..Len(r) PROVE r[i] <= n + 1
  BY <1>1 DEF Rising
<1>3. ASSUME NEW i \in 1..(Len(r) - 1) PROVE r[i] < r[i + 1]
  <2>1. i \in 1..Len(q)
    BY <1>1
  <2>2. CASE i = Len(q)
    BY <1>1, <2>1, <2>2 DEF Rising
  <2>3. CASE i # Len(q)
    <3>1. i + 1 \in 1..Len(q) /\ i \in 1..(Len(q) - 1)
      BY <1>1, <2>1, <2>3
    <3> QED
      BY <1>1, <2>1, <3>1 DEF Rising
  <2> QED
    BY <2>2, <2>3
<1>4. Rising(r, n + 1)
  BY <1>2, <1>3 DEF Rising
<1> QED
  BY <1>4 DEF r

LEMMA RisingLater ==
    ASSUME NEW q \in Seq(Nat), NEW n \in Nat, Rising(q, n)
    PROVE  Rising(q, n + 1)
<1>1. \A i \in 1..Len(q) : q[i] \in Nat
  OBVIOUS
<1> QED
  BY <1>1 DEF Rising

LEMMA RisingFirst ==
    ASSUME NEW q \in Seq(Nat), NEW r \in Seq(Nat), NEW n \in Nat, Rising(q \o r, n)
    PROVE  Rising(q, n)
<1> DEFINE s == q \o r
<1>1. /\ Len(q) \in Nat /\ Len(r) \in Nat /\ Len(s) = Len(q) + Len(r)
      /\ \A i \in 1..Len(q) : s[i] = q[i]
  OBVIOUS
<1>2. Rising(s, n)
  OBVIOUS
<1> HIDE DEF s
<1>3. ASSUME NEW i \in 1..Len(q) PROVE i \in 1..Len(s) /\ (i < Len(q) => i \in 1..(Len(s) - 1) /\ i + 1 \in 1..Len(q))
  BY <1>1
<1>4. \A i \in 1..Len(q) : q[i] <= n
  BY <1>1, <1>2, <1>3 DEF Rising
<1>5. ASSUME NEW i \in 1..(Len(q) - 1) PROVE q[i] < q[i + 1]
  <2>1. i \in 1..Len(q) /\ i < Len(q)
    BY <1>1
  <2>2. s[i] < s[i + 1]
    BY <1>2, <1>3, <2>1 DEF Rising
  <2> QED
    BY <1>1, <1>3, <2>1, <2>2
<1> QED
  BY <1>4, <1>5 DEF Rising

\* The frames of some packets.
FramesOf(rtp) == [i \in DOMAIN rtp |-> rtp[i].frame]

Follow(rtp) == \A i \in 1..Len(rtp) : rtp[i].seq = (FirstSeq + i - 1) % SeqModulus

LEMMA FramesOfFacts ==
    ASSUME NEW rtp \in Seq(Packet)
    PROVE  /\ FramesOf(rtp) \in Seq(Nat) /\ Len(FramesOf(rtp)) = Len(rtp) /\ Len(rtp) \in Nat
           /\ DOMAIN FramesOf(rtp) = 1..Len(rtp)
           /\ \A i \in 1..Len(rtp) : FramesOf(rtp)[i] = rtp[i].frame
<1>1. Len(rtp) \in Nat /\ DOMAIN rtp = 1..Len(rtp) /\ \A i \in 1..Len(rtp) : rtp[i] \in Packet
  OBVIOUS
<1>2. \A x \in Packet : x.frame \in Nat
  BY DEF Packet
<1>3. \A i \in 1..Len(rtp) : rtp[i].frame \in Nat
  BY <1>1, <1>2
<1>4. FramesOf(rtp) = [i \in 1..Len(rtp) |-> rtp[i].frame]
  BY <1>1 DEF FramesOf
<1> QED
  BY <1>1, <1>3, <1>4

LEMMA FramesOfMore ==
    ASSUME NEW rtp \in Seq(Packet), NEW p \in Seq(Packet)
    PROVE  FramesOf(rtp \o p) = FramesOf(rtp) \o FramesOf(p)
<1> DEFINE s == rtp \o p
           f == FramesOf(rtp) \o FramesOf(p)
<1>1. /\ s \in Seq(Packet) /\ Len(rtp) \in Nat /\ Len(p) \in Nat /\ Len(s) = Len(rtp) + Len(p)
      /\ \A i \in 1..Len(s) : s[i] = IF i <= Len(rtp) THEN rtp[i] ELSE p[i - Len(rtp)]
  OBVIOUS
<1>2. /\ FramesOf(rtp) \in Seq(Nat) /\ Len(FramesOf(rtp)) = Len(rtp)
      /\ \A i \in 1..Len(rtp) : FramesOf(rtp)[i] = rtp[i].frame
      /\ FramesOf(p) \in Seq(Nat) /\ Len(FramesOf(p)) = Len(p)
      /\ \A i \in 1..Len(p) : FramesOf(p)[i] = p[i].frame
  BY FramesOfFacts
<1>a. \A i \in 1..(Len(FramesOf(rtp)) + Len(FramesOf(p))) :
         f[i] = IF i <= Len(FramesOf(rtp)) THEN FramesOf(rtp)[i]
                ELSE FramesOf(p)[i - Len(FramesOf(rtp))]
  BY <1>2, ConcatProperties
<1>b. f \in Seq(Nat) /\ Len(f) = Len(FramesOf(rtp)) + Len(FramesOf(p))
  BY <1>2, ConcatProperties
<1>3. /\ f \in Seq(Nat) /\ Len(f) = Len(rtp) + Len(p)
      /\ \A i \in 1..Len(f) : f[i] = IF i <= Len(rtp) THEN FramesOf(rtp)[i] ELSE FramesOf(p)[i - Len(rtp)]
  BY <1>2, <1>a, <1>b
<1> HIDE DEF s, f
<1>4. /\ FramesOf(s) \in Seq(Nat) /\ Len(FramesOf(s)) = Len(s)
      /\ \A i \in 1..Len(s) : FramesOf(s)[i] = s[i].frame
  BY <1>1, FramesOfFacts
<1>5. ASSUME NEW i \in 1..Len(s) PROVE FramesOf(s)[i] = f[i]
  <2>1. CASE i <= Len(rtp)
    <3>1. i \in 1..Len(rtp) /\ s[i] = rtp[i] /\ f[i] = FramesOf(rtp)[i]
      BY <1>1, <1>3, <2>1
    <3> QED
      BY <1>2, <1>4, <3>1
  <2>2. CASE ~(i <= Len(rtp))
    <3>1. i - Len(rtp) \in 1..Len(p)
      BY <1>1, <2>2
    <3>2. s[i] = p[i - Len(rtp)] /\ f[i] = FramesOf(p)[i - Len(rtp)]
      BY <1>1, <1>3, <2>2
    <3> QED
      BY <1>2, <1>4, <3>1, <3>2
  <2> QED
    BY <2>1, <2>2
<1>6. Len(FramesOf(s)) = Len(f)
  BY <1>1, <1>3, <1>4
<1>7. FramesOf(s) = f
  BY <1>3, <1>4, <1>5, <1>6, SeqEqual
<1> QED
  BY <1>7 DEF s, f

\* Packets that go on where the last ones ended follow them.
LEMMA AppendGlued ==
    ASSUME NEW X, NEW p \in Seq(X), NEW q \in Seq(X), NEW c \in X
    PROVE  p \o Append(q, c) = Append(p \o q, c)
<1>0. <<c>> \in Seq(X)
  OBVIOUS
<1>1. PICK d \in Seq(X) : d = <<c>>
  BY <1>0
<1>2. p \o q \in Seq(X)
  BY ConcatProperties
<1>3. Append(q, c) = q \o d /\ Append(p \o q, c) = (p \o q) \o d
  BY <1>1, <1>2, AppendIsConcat
<1>4. p \o (q \o d) = (p \o q) \o d
  BY ConcatAssociative
<1> QED
  BY <1>3, <1>4

LEMMA FollowMore ==
    ASSUME NEW rtp \in Seq(Packet), NEW p \in Seq(Packet), Follow(rtp),
           NEW seq \in Nat, seq = (FirstSeq + Len(rtp)) % SeqModulus,
           \A i \in 1..Len(p) : p[i].seq = (seq + i - 1) % SeqModulus
    PROVE  /\ Follow(rtp \o p)
           /\ (seq + Len(p)) % SeqModulus = (FirstSeq + Len(rtp \o p)) % SeqModulus
<1> DEFINE s == rtp \o p
<1>1. /\ Len(rtp) \in Nat /\ Len(p) \in Nat /\ Len(s) = Len(rtp) + Len(p)
      /\ \A i \in 1..Len(s) : s[i] = IF i <= Len(rtp) THEN rtp[i] ELSE p[i - Len(rtp)]
  OBVIOUS
<1>2. FirstSeq \in Nat /\ FirstSeq + Len(rtp) \in Nat
  BY <1>1, BridgeAssumption
<1> HIDE DEF s
<1>3. ASSUME NEW k \in Nat
      PROVE  (seq + k) % SeqModulus = (FirstSeq + Len(rtp) + k) % SeqModulus
  BY <1>2, WrapsOn
<1>4. ASSUME NEW i \in 1..Len(s) PROVE s[i].seq = (FirstSeq + i - 1) % SeqModulus
  <2>1. CASE i <= Len(rtp)
    BY <1>1, <2>1 DEF Follow
  <2>2. CASE ~(i <= Len(rtp))
    <3> DEFINE k == i - Len(rtp)
    <3>1. k \in 1..Len(p) /\ s[i] = p[k]
      BY <1>1, <2>2
    <3>2. k - 1 \in Nat /\ seq + k - 1 = seq + (k - 1)
          /\ FirstSeq + Len(rtp) + (k - 1) = FirstSeq + i - 1
      BY <1>1, <1>2, <3>1
    <3> HIDE DEF k
    <3>3. p[k].seq = (seq + (k - 1)) % SeqModulus
      BY <3>1, <3>2
    <3> QED
      BY <1>3, <3>1, <3>2, <3>3
  <2> QED
    BY <2>1, <2>2
<1>5. Follow(s)
  BY <1>4 DEF Follow
<1>6. (seq + Len(p)) % SeqModulus = (FirstSeq + Len(s)) % SeqModulus
  <2>1. FirstSeq + Len(rtp) + Len(p) = FirstSeq + Len(s)
    BY <1>1, <1>2
  <2> QED
    BY <1>1, <1>3, <2>1
<1> QED
  BY <1>5, <1>6 DEF s

\* The frames that were written and those that wait.
Frames(a) == FramesOf(a.rtp) \o a.queue

Ordered(a) == /\ Follow(a.rtp) /\ a.seq = (FirstSeq + Len(a.rtp)) % SeqModulus
              /\ Rising(Frames(a), a.frames)

Counted(a) == Len(a.rtp) + Len(a.queue) + a.droppedFrames = a.frames

LEMMA AudioFacts ==
    ASSUME NEW a \in AudioType
    PROVE  /\ a.rtp \in Seq(Packet) /\ a.queue \in Seq(Nat) /\ a.seq \in Nat
           /\ a.frames \in Nat /\ a.droppedFrames \in Nat
           /\ Len(a.rtp) \in Nat /\ Len(a.queue) \in Nat
           /\ FramesOf(a.rtp) \in Seq(Nat) /\ Frames(a) \in Seq(Nat)
<1>1. /\ a.rtp \in Seq(Packet) /\ a.queue \in Seq(Nat) /\ a.seq \in Nat
      /\ a.frames \in Nat /\ a.droppedFrames \in Nat
  BY BridgeAssumption DEF AudioType, Packet
<1> QED
  BY <1>1, FramesOfFacts DEF Frames

\* A frame is dropped, or waits; or those that waited are written.
LEMMA CountedMoves ==
    ASSUME NEW a, NEW b,
           Len(a.rtp) \in Nat, Len(a.queue) \in Nat, a.droppedFrames \in Nat, a.frames \in Nat,
           \/ /\ Len(b.rtp) = Len(a.rtp) /\ Len(b.queue) = Len(a.queue)
              /\ b.droppedFrames = a.droppedFrames + 1 /\ b.frames = a.frames + 1
           \/ /\ Len(b.rtp) = Len(a.rtp) /\ Len(b.queue) = Len(a.queue) + 1
              /\ b.droppedFrames = a.droppedFrames /\ b.frames = a.frames + 1
           \/ /\ Len(b.rtp) = Len(a.rtp) + Len(a.queue) /\ Len(b.queue) = 0
              /\ b.droppedFrames = a.droppedFrames /\ b.frames = a.frames
    PROVE  Counted(a) => Counted(b)
<1> DEFINE r == Len(a.rtp)
           q == Len(a.queue)
           d == a.droppedFrames
           n == a.frames
<1>1. r \in Nat /\ q \in Nat /\ d \in Nat /\ n \in Nat
  OBVIOUS
<1>2. Counted(a) <=> r + q + d = n
  BY DEF Counted
<1>3. \/ Len(b.rtp) = r /\ Len(b.queue) = q /\ b.droppedFrames = d + 1 /\ b.frames = n + 1
      \/ Len(b.rtp) = r /\ Len(b.queue) = q + 1 /\ b.droppedFrames = d /\ b.frames = n + 1
      \/ Len(b.rtp) = r + q /\ Len(b.queue) = 0 /\ b.droppedFrames = d /\ b.frames = n
  OBVIOUS
<1>4. Counted(b) <=> (Len(b.rtp) + Len(b.queue) + b.droppedFrames = b.frames)
  BY DEF Counted
<1> HIDE DEF r, q, d, n
<1>5. r + q + d = n => /\ r + q + (d + 1) = n + 1 /\ r + (q + 1) + d = n + 1
                       /\ (r + q) + 0 + d = n
  BY <1>1
<1>6. \/ Counted(b) <=> r + q + (d + 1) = n + 1
      \/ Counted(b) <=> r + (q + 1) + d = n + 1
      \/ Counted(b) <=> (r + q) + 0 + d = n
  BY <1>3, <1>4
<1> QED
  BY <1>2, <1>5, <1>6

LEMMA NewIsOrdered == Ordered(NewAudio) /\ Counted(NewAudio)
<1>1. /\ NewAudio.rtp = <<>> /\ NewAudio.queue = <<>> /\ NewAudio.frames = 0
      /\ NewAudio.seq = FirstSeq /\ NewAudio.droppedFrames = 0
  BY DEF NewAudio
<1>2. Frames(NewAudio) = <<>>
  BY <1>1 DEF Frames, FramesOf
<1>3. FirstSeq \in Nat /\ FirstSeq % SeqModulus = FirstSeq
  <2>1. FirstSeq \in Nat /\ FirstSeq = 0 * SeqModulus + FirstSeq
    BY BridgeAssumption
  <2> QED
    BY <2>1, ModUnique, BridgeAssumption
<1> QED
  BY <1>1, <1>2, <1>3 DEF Ordered, Counted, Follow, Rising

\* What does not touch the frames.
LEMMA OrderedKept ==
    ASSUME NEW a, NEW b, b.rtp = a.rtp, b.queue = a.queue, b.frames = a.frames,
           b.seq = a.seq, b.droppedFrames = a.droppedFrames
    PROVE  /\ Ordered(a) => Ordered(b)
           /\ Counted(a) => Counted(b)
BY DEF Ordered, Counted, Frames

LEMMA ClosedIsOrdered ==
    ASSUME NEW a \in AudioType, Ordered(a)
    PROVE  Ordered(ClosedBridge(a))
<1> DEFINE b == ClosedBridge(a)
<1>1. b.rtp = a.rtp /\ b.queue = <<>> /\ b.seq = a.seq /\ b.frames = a.frames
  BY DEF ClosedBridge, AudioType
<1> HIDE DEF b
<1>2. Frames(b) = FramesOf(a.rtp)
  BY <1>1, AudioFacts DEF Frames
<1>3. Rising(FramesOf(a.rtp), a.frames)
  BY AudioFacts, RisingFirst DEF Ordered, Frames
<1>4. Ordered(b)
  BY <1>1, <1>2, <1>3 DEF Ordered
<1> QED
  BY <1>4 DEF b

LEMMA AcceptedIsOrdered ==
    ASSUME NEW a \in AudioType
    PROVE  /\ Ordered(a) => Ordered(Accepted(a))
           /\ Counted(a) => Counted(Accepted(a))
<1> DEFINE b == Accepted(a)
           n == a.frames
           q == a.queue
           f == FramesOf(a.rtp)
<1>0. /\ n \in Nat /\ a.droppedFrames \in Nat /\ q \in Seq(Nat) /\ f \in Seq(Nat)
      /\ Len(a.rtp) \in Nat /\ Len(q) \in Nat /\ Frames(a) \in Seq(Nat)
  BY AudioFacts
<1>1. CASE Len(a.queue) >= MaxQueuedFrames
  <2>1. /\ b.rtp = a.rtp /\ b.queue = a.queue /\ b.seq = a.seq /\ b.frames = n + 1
        /\ b.droppedFrames = a.droppedFrames + 1
    BY <1>1 DEF Accepted, AudioType
  <2> HIDE DEF b
  <2>2. Ordered(a) => Ordered(b)
    <3>1. Frames(b) = Frames(a)
      BY <2>1 DEF Frames
    <3>2. Rising(Frames(a), n) => Rising(Frames(a), n + 1)
      BY <1>0, RisingLater
    <3> QED
      BY <2>1, <3>1, <3>2 DEF Ordered
  <2>3. Counted(a) => Counted(b)
    <3>1. Len(b.rtp) = Len(a.rtp) /\ Len(b.queue) = Len(a.queue)
      BY <2>1
    <3> QED
      BY <1>0, <2>1, <3>1, CountedMoves
  <2> QED
    BY <2>2, <2>3 DEF b
<1>2. CASE ~(Len(a.queue) >= MaxQueuedFrames)
  <2>1. /\ b.rtp = a.rtp /\ b.queue = Append(q, n + 1) /\ b.seq = a.seq
        /\ b.frames = n + 1 /\ b.droppedFrames = a.droppedFrames
    BY <1>2 DEF Accepted, AudioType
  <2> HIDE DEF b
  <2>2. Frames(b) = f \o Append(q, n + 1) /\ Frames(a) = f \o q
    BY <2>1 DEF Frames
  <2> HIDE DEF q, f, n
  <2>3. Len(b.queue) = Len(q) + 1
    BY <1>0, <2>1
  <2>4. f \o Append(q, n + 1) = Append(f \o q, n + 1)
    <3>1. n + 1 \in Nat /\ q \in Seq(Nat) /\ f \in Seq(Nat)
      BY <1>0
    <3>2. \A p, r \in Seq(Nat), c \in Nat : p \o Append(r, c) = Append(p \o r, c)
      BY AppendGlued
    <3> QED
      BY <3>1, <3>2
  <2>5. Ordered(a) => Ordered(b)
    <3>1. a.frames = n
      BY DEF n
    <3>2. Frames(b) = Append(Frames(a), n + 1)
      BY <2>2, <2>4
    <3>3. Rising(Frames(a), n) => Rising(Frames(b), n + 1)
      BY <1>0, <3>2, RisingAppend
    <3> QED
      BY <2>1, <3>1, <3>3 DEF Ordered
  <2>6. Counted(a) => Counted(b)
    <3>1. a.frames = n /\ Len(a.queue) = Len(q) /\ Len(b.rtp) = Len(a.rtp)
      BY <2>1 DEF n, q
    <3> QED
      BY <1>0, <2>1, <2>3, <3>1, CountedMoves DEF n, q
  <2> QED
    BY <2>5, <2>6 DEF b
<1> QED
  BY <1>1, <1>2

LEMMA DrainedIsOrdered ==
    ASSUME NEW a \in AudioType, NEW secure \in BOOLEAN
    PROVE  /\ Ordered(a) => Ordered(Drained(a, secure))
           /\ Counted(a) => Counted(Drained(a, secure))
<1> DEFINE b == Drained(a, secure)
           p == Packets(a, secure)
<1>0. /\ a.rtp \in Seq(Packet) /\ a.queue \in Seq(Nat) /\ a.seq \in Nat
      /\ a.frames \in Nat /\ a.droppedFrames \in Nat
      /\ Len(a.rtp) \in Nat /\ Len(a.queue) \in Nat
      /\ FramesOf(a.rtp) \in Seq(Nat) /\ Frames(a) \in Seq(Nat) /\ p \in Seq(Packet)
  BY AudioFacts, PacketsType
<1>1. CASE ~a.ready
  <2>1. /\ b.rtp = a.rtp /\ b.queue = a.queue /\ b.seq = a.seq /\ b.frames = a.frames
        /\ b.droppedFrames = a.droppedFrames
    BY <1>1 DEF Drained, AudioType
  <2> QED
    BY <2>1, OrderedKept
<1>2. CASE a.ready
  <2>1. /\ b.rtp = a.rtp \o p /\ b.queue = <<>> /\ b.frames = a.frames
        /\ b.droppedFrames = a.droppedFrames
        /\ b.seq = (a.seq + Len(a.queue)) % SeqModulus
    BY <1>2 DEF Drained, AudioType
  <2>2. /\ p = [i \in DOMAIN a.queue |-> [seq |-> (a.seq + i - 1) % SeqModulus,
                                          frame |-> a.queue[i], secure |-> secure]]
        /\ DOMAIN a.queue = 1..Len(a.queue)
    BY <1>0 DEF Packets
  <2>3. /\ Len(p) = Len(a.queue)
        /\ \A i \in 1..Len(p) : p[i].seq = (a.seq + i - 1) % SeqModulus
        /\ \A i \in 1..Len(a.queue) : p[i].frame = a.queue[i]
    BY <1>0, <2>2
  <2> HIDE DEF b, p
  <2>4. FramesOf(p) = a.queue
    <3>1. /\ FramesOf(p) \in Seq(Nat) /\ Len(FramesOf(p)) = Len(a.queue)
          /\ \A i \in 1..Len(a.queue) : FramesOf(p)[i] = a.queue[i]
      BY <1>0, <2>3, FramesOfFacts
    <3> QED
      BY <1>0, <3>1, SeqEqual
  <2>5. Frames(b) = Frames(a)
    <3>1. FramesOf(b.rtp) = Frames(a)
      BY <1>0, <2>1, <2>4, FramesOfMore DEF Frames
    <3> QED
      BY <1>0, <2>1, <3>1 DEF Frames
  <2>6. Ordered(a) => Ordered(b)
    BY <1>0, <2>1, <2>3, <2>5, FollowMore, ZenonT(60) DEF Ordered
  <2>7. Counted(a) => Counted(b)
    <3>1. Len(b.queue) = 0
      BY <2>1
    <3>2. Len(b.rtp) = Len(a.rtp) + Len(a.queue)
      <4>1. Len(a.rtp \o p) = Len(a.rtp) + Len(p)
        BY <1>0, ConcatProperties
      <4> QED
        BY <2>1, <2>3, <4>1
    <3> QED
      BY <1>0, <2>1, <3>1, <3>2, CountedMoves
  <2> QED
    BY <2>6, <2>7 DEF b
<1> QED
  BY <1>1, <1>2 DEF AudioType

----------------------------------------------------------------------------
(* How sessions are made, and end.                                         *)

LEMMA SessionMade ==
    ASSUME NEW record, NEW waiting
    PROVE  NewSession(record, waiting).made /\ ~NewSession(record, waiting).closed
<1> DEFINE m == [NewMedia EXCEPT !.made = TRUE, !.wired = record.listed]
<1>1. m.made /\ ~m.closed /\ ~m.remote /\ m.parked = <<>>
  BY DEF NewMedia
<1>2. NewSession(record, waiting) = [m EXCEPT !.parked = m.parked \o waiting]
  BY <1>1 DEF NewSession, AddRemoteCandidates
<1>3. "made" \in DOMAIN m /\ "closed" \in DOMAIN m
  BY DEF NewMedia
<1> HIDE DEF m
<1> QED
  BY <1>1, <1>2

\* A media session is made once. It is open only if it was, or is new.
SessionGoesOn(t) == /\ media[t].made => media'[t].made
                    /\ Open(t)' => Open(t) \/ ~media[t].made

LEMMA SessionsGoOn ==
    ASSUME Types, Placed, [Next]_vars, NEW t \in Session
    PROVE  SessionGoesOn(t)
<1>0. Shape /\ media[t] \in MediaType
  BY ShapeOfStep DEF Types, SessionTypes
<1>1. media'[t] = media[t] => SessionGoesOn(t)
  BY DEF SessionGoesOn, Open
<1>2. media'[t] = Closed(media[t]) => SessionGoesOn(t)
  BY <1>0 DEF SessionGoesOn, Open, Closed, MediaType
<1>3. ASSUME NEW record, NEW waiting, media'[t] = NewSession(record, waiting), ~media[t].made
      PROVE  SessionGoesOn(t)
  BY <1>3 DEF SessionGoesOn
<1>4. CASE Rests \/ Stores \/ ArmsSender \/ \E e \in End : Flush(e)
  BY <1>1, <1>4 DEF Rests, Stores, ArmsSender, Flush, sessionVars
<1>5. ASSUME NEW s \in Session, EndsCall(s) PROVE SessionGoesOn(t)
  BY <1>1, <1>2, <1>5 DEF EndsCall, Closes, Types, SessionTypes
<1>6. CASE Ignore
  BY <1>1, <1>2, <1>6 DEF Ignore, Types, SessionTypes
<1>7. ASSUME NEW e \in End, NEW phase, Makes(e, phase) PROVE SessionGoesOn(t)
  <2>1. PICK s \in Session : Birth(e, phase, s)
    BY <1>7, MakesBirth
  <2>2. media[s] = NewMedia
    BY <2>1 DEF Birth, Placed
  <2>3. ~media[s].made
    BY <2>2 DEF NewMedia
  <2> QED
    BY <1>1, <1>3, <2>1, <2>2, <2>3, SMTT(30) DEF Birth
<1>8. ASSUME NEW s \in Session, Fits(s) \/ Awaits(s) \/ Sets(s) \/ Describes(s) \/ Adds(s) \/ Gather(s)
      PROVE  SessionGoesOn(t)
  <2>1. CASE t # s \/ Awaits(s) \/ Gather(s)
    BY <1>1, <1>8, <2>1 DEF Fits, Awaits, Sets, Describes, Adds, Gather, sessionVars, Types, SessionTypes
  <2>2. CASE t = s /\ Fits(s)
    BY <1>0, <1>3, <2>2 DEF Fits, Types, SessionTypes
  <2>3. CASE t = s /\ Sets(s)
    <3>1. media'[t] = RemoteDescribed(media[t])
      BY <2>3 DEF Sets, Types, SessionTypes
    <3> QED
      BY <1>0, <3>1 DEF SessionGoesOn, Open, RemoteDescribed, MediaType
  <2>4. CASE t = s /\ Describes(s)
    BY <1>0, <2>4 DEF Describes, SessionGoesOn, Open, MediaType, Types, SessionTypes
  <2>5. CASE t = s /\ Adds(s)
    <3>1. \E cs : media'[t] \in {media[t], AddRemoteCandidates(media[t], cs)}
      BY <2>5 DEF Adds, Types, SessionTypes
    <3>2. PICK cs : media'[t] \in {media[t], AddRemoteCandidates(media[t], cs)}
      BY <3>1
    <3>3. media'[t].made = media[t].made /\ media'[t].closed = media[t].closed
      BY <1>0, <3>2 DEF AddRemoteCandidates, MediaType
    <3> QED
      BY <3>3 DEF SessionGoesOn, Open
  <2> QED
    BY <1>8, <2>1, <2>2, <2>3, <2>4, <2>5
<1>9. "caller" \in End /\ "callee" \in End
  BY DEF End
<1> QED
  BY <1>0, <1>4, <1>5, <1>6, <1>7, <1>8, <1>9 DEF Shape

\* What the events of a session and the producers of audio do to its bridge.
AudioMoves(s) ==
    /\ Open(s) \/ audio[s].due \/ audio'[s] = audio[s]
    /\ \/ audio'[s] = audio[s]
       \/ audio'[s] = [audio[s] EXCEPT !.due = FALSE]
       \/ \E ready \in BOOLEAN : audio'[s] = SenderReady(audio[s], ready)
       \/ audio'[s] = Accepted(audio[s])
       \/ audio'[s] = Drained(audio[s], link[s].secure)
       \/ audio'[s] = Attached(audio[s])
       \/ \E n \in 1..(FrameSamples + 1) :
             audio'[s] \in {Rechunked(audio[s], n), [audio[s] EXCEPT !.samples = audio[s].samples + n]}

LEMMA MediaMovesAudio ==
    ASSUME Types, NEW s \in Session, Media(s)
    PROVE  /\ media' = media /\ AudioMoves(s)
           /\ \A t \in Session \ {s} : audio'[t] = audio[t]
<1>1. CASE Connects(s) \/ DtlsCompletes(s)
  BY <1>1 DEF Connects, IceStateChanges, DtlsCompletes, AudioMoves
<1>2. ASSUME NEW state, ConnectionStateChanges(s, state)
      PROVE  /\ media' = media /\ AudioMoves(s)
             /\ \A t \in Session \ {s} : audio'[t] = audio[t]
  BY <1>2 DEF ConnectionStateChanges, AudioMoves, Types, SessionTypes
<1>3. CASE ChannelOpens(s)
  <2>1. audio'[s] \in {audio[s], SenderReady(audio[s], TRUE)} /\ Open(s)
    BY <1>3 DEF ChannelOpens, OnChannelOpen, Types, SessionTypes
  <2>2. media' = media /\ \A t \in Session \ {s} : audio'[t] = audio[t]
    BY <1>3 DEF ChannelOpens, Types, SessionTypes
  <2> QED
    BY <2>1, <2>2 DEF AudioMoves
<1>4. CASE WriteAudio(s)
  BY <1>4 DEF WriteAudio, AudioMoves, Types, SessionTypes
<1>5. CASE Drain(s)
  <2>1. /\ audio[s].due
        /\ audio'[s] \in {[audio[s] EXCEPT !.due = FALSE], Drained(audio[s], link[s].secure)}
    BY <1>5 DEF Drain, Types, SessionTypes
  <2>2. media' = media /\ \A t \in Session \ {s} : audio'[t] = audio[t]
    BY <1>5 DEF Drain, Types, SessionTypes
  <2> QED
    BY <2>1, <2>2 DEF AudioMoves
<1>6. CASE AttachRemoteTrack(s)
  BY <1>6 DEF AttachRemoteTrack, AudioMoves, Types, SessionTypes
<1>7. ASSUME NEW n \in 1..(FrameSamples + 1), ReceiveRtp(s, n)
      PROVE  /\ media' = media /\ AudioMoves(s)
             /\ \A t \in Session \ {s} : audio'[t] = audio[t]
  <2>1. /\ Open(s)
        /\ audio'[s] \in {Rechunked(audio[s], n), [audio[s] EXCEPT !.samples = audio[s].samples + n]}
    BY <1>7 DEF ReceiveRtp, Types, SessionTypes
  <2>2. media' = media /\ \A t \in Session \ {s} : audio'[t] = audio[t]
    BY <1>7 DEF ReceiveRtp, Types, SessionTypes
  <2> QED
    BY <2>1, <2>2 DEF AudioMoves
<1> QED
  BY <1>1, <1>2, <1>3, <1>4, <1>5, <1>6, <1>7 DEF Media, WithLoad, Free

----------------------------------------------------------------------------
(* Incoming audio.                                                         *)

Sample == Nat \X Nat

\* Samples of one track, in their order, and none of them after the n-th.
OfTrack(q, track, n) ==
    /\ \A i \in 1..Len(q) : q[i][1] = track /\ q[i][2] <= n
    /\ \A i \in 1..(Len(q) - 1) : q[i][2] < q[i + 1][2]

WholeFrame(frame) == /\ Len(frame) = FrameSamples
                     /\ \A i \in 1..(Len(frame) - 1) : /\ frame[i][1] = frame[i + 1][1]
                                                       /\ frame[i][2] < frame[i + 1][2]

Tracked(a) == /\ OfTrack(a.residue, a.track, a.samples)
              /\ \A k \in 1..Len(a.heard) : WholeFrame(a.heard[k])

LEMMA TrackFacts ==
    ASSUME NEW a \in AudioType
    PROVE  /\ a.residue \in Seq(Sample) /\ a.track \in Nat /\ a.samples \in Nat
           /\ a.heard \in Seq(Seq(Sample)) /\ Len(a.residue) \in Nat /\ Len(a.heard) \in Nat
BY DEF AudioType, Sample

\* What is decoded goes on where the last packet ended.
LEMMA DecodedOfTrack ==
    ASSUME NEW q \in Seq(Sample), NEW track \in Nat, NEW m \in Nat, NEW n \in Nat,
           OfTrack(q, track, m)
    PROVE  LET s == q \o [i \in 1..n |-> <<track, m + i>>]
           IN  s \in Seq(Sample) /\ OfTrack(s, track, m + n)
<1> DEFINE p == [i \in 1..n |-> <<track, m + i>>]
           s == q \o p
<1>1. p \in Seq(Sample) /\ Len(p) = n /\ \A i \in 1..n : p[i][1] = track /\ p[i][2] = m + i
  <2>1. \A i \in 1..n : <<track, m + i>> \in Sample
    BY DEF Sample
  <2>2. p \in Seq(Sample) /\ Len(p) = n
    <3>1. p \in [1..n -> Sample]
      BY <2>1
    <3> HIDE DEF p
    <3> QED
      BY <3>1
  <2>3. \A i \in 1..n : p[i] = <<track, m + i>>
    OBVIOUS
  <2> QED
    BY <2>2, <2>3
<1> HIDE DEF p
<1>a. q \o p \in Seq(Sample) /\ Len(q \o p) = Len(q) + Len(p) /\ Len(q) \in Nat
  BY <1>1, ConcatProperties, LenProperties
<1>b. \A i \in 1..(Len(q) + Len(p)) : (q \o p)[i] = IF i <= Len(q) THEN q[i] ELSE p[i - Len(q)]
  BY <1>1, ConcatProperties
<1>2. /\ s \in Seq(Sample) /\ Len(s) = Len(q) + n /\ Len(q) \in Nat
      /\ \A i \in 1..(Len(q) + Len(p)) : s[i] = IF i <= Len(q) THEN q[i] ELSE p[i - Len(q)]
  BY <1>1, <1>a, <1>b
<1> HIDE DEF s
<1>3. \A x \in Sample : x[2] \in Nat
  BY DEF Sample
<1>4. ASSUME NEW i \in 1..Len(s), i <= Len(q)
      PROVE  s[i] = q[i] /\ s[i][1] = track /\ s[i][2] <= m /\ s[i][2] \in Nat
  <2>1. i \in 1..Len(q) /\ s[i] = q[i] /\ q[i] \in Sample
    BY <1>1, <1>2, <1>4
  <2> QED
    BY <1>3, <2>1 DEF OfTrack
<1>5. ASSUME NEW i \in 1..Len(s), i > Len(q)
      PROVE  s[i][1] = track /\ s[i][2] = m + (i - Len(q))
  <2>1. s[i] = p[i - Len(q)] /\ i - Len(q) \in 1..n
    BY <1>1, <1>2, <1>5
  <2> QED
    BY <1>1, <2>1
<1>6. ASSUME NEW i \in 1..Len(s) PROVE s[i][1] = track /\ s[i][2] <= m + n
  <2>1. CASE i <= Len(q)
    BY <1>4, <2>1
  <2>2. CASE i > Len(q)
    BY <1>2, <1>5, <2>2
  <2> QED
    BY <1>2, <2>1, <2>2
<1>7. ASSUME NEW i \in 1..(Len(s) - 1) PROVE s[i][2] < s[i + 1][2]
  <2>0. i \in 1..Len(s) /\ i + 1 \in 1..Len(s)
    BY <1>2
  <2>1. CASE i + 1 <= Len(q)
    <3>1. i \in 1..(Len(q) - 1) /\ i <= Len(q)
      BY <1>2, <2>1
    <3>2. s[i] = q[i] /\ s[i + 1] = q[i + 1]
      BY <1>4, <2>0, <2>1, <3>1
    <3> QED
      BY <3>1, <3>2 DEF OfTrack
  <2>2. CASE i = Len(q)
    <3>1. s[i][2] <= m /\ s[i][2] \in Nat
      BY <1>4, <2>0, <2>2, <1>2
    <3>2. s[i + 1][2] = m + (i + 1 - Len(q)) /\ i + 1 - Len(q) = 1
      BY <1>2, <1>5, <2>0, <2>2
    <3> HIDE <2>0
    <3> QED
      BY <3>1, <3>2
  <2>3. CASE i > Len(q)
    <3>1. s[i][2] = m + (i - Len(q)) /\ s[i + 1][2] = m + (i + 1 - Len(q))
      BY <1>2, <1>5, <2>0, <2>3
    <3>2. m + (i - Len(q)) < m + (i + 1 - Len(q))
      BY <1>2, <2>3
    <3> QED
      BY <3>1, <3>2
  <2> QED
    BY <1>2, <2>1, <2>2, <2>3
<1>8. OfTrack(s, track, m + n)
  BY <1>6, <1>7 DEF OfTrack
<1> QED
  BY <1>2, <1>8 DEF s, p

\* A stretch of a track's samples.
LEMMA StretchOfTrack ==
    ASSUME NEW q \in Seq(Sample), NEW track, NEW n, OfTrack(q, track, n),
           NEW lo \in 1..(Len(q) + 1), NEW hi \in 0..Len(q), lo <= hi + 1
    PROVE  LET s == SubSeq(q, lo, hi)
           IN  OfTrack(s, track, n) /\ Len(s) = hi - lo + 1
<1> DEFINE s == SubSeq(q, lo, hi)
<1>1. Len(q) \in Nat /\ \A i \in lo..hi : q[i] \in Sample
  OBVIOUS
<1>2. /\ Len(s) = hi - lo + 1 /\ Len(s) \in Nat
      /\ \A i \in 1..Len(s) : s[i] = q[lo + i - 1]
  BY <1>1, SubSeqProperties
<1> HIDE DEF s
<1>3. ASSUME NEW i \in 1..Len(s) PROVE s[i][1] = track /\ s[i][2] <= n
  <2>1. lo + i - 1 \in 1..Len(q)
    BY <1>1, <1>2
  <2> QED
    BY <1>2, <2>1 DEF OfTrack
<1>4. ASSUME NEW i \in 1..(Len(s) - 1) PROVE s[i][2] < s[i + 1][2]
  <2>1. i \in 1..Len(s) /\ i + 1 \in 1..Len(s) /\ lo + i - 1 \in 1..(Len(q) - 1)
        /\ lo + (i + 1) - 1 = lo + i - 1 + 1
    BY <1>1, <1>2
  <2>2. s[i] = q[lo + i - 1] /\ s[i + 1] = q[lo + i - 1 + 1]
    BY <1>2, <2>1
  <2> QED
    BY <2>1, <2>2 DEF OfTrack
<1>5. OfTrack(s, track, n)
  BY <1>3, <1>4 DEF OfTrack
<1> QED
  BY <1>2, <1>5 DEF s

LEMMA RechunkedOfTrack ==
    ASSUME NEW a \in AudioType, NEW n \in Nat, Tracked(a)
    PROVE  Tracked(Rechunked(a, n))
<1> DEFINE input  == a.residue \o [i \in 1..n |-> <<a.track, a.samples + i>>]
           frames == Len(input) \div FrameSamples
           whole  == [k \in 1..frames |->
                        SubSeq(input, (k - 1) * FrameSamples + 1, k * FrameSamples)]
           rest   == SubSeq(input, frames * FrameSamples + 1, Len(input))
           b == Rechunked(a, n)
<1>0. /\ a.residue \in Seq(Sample) /\ a.track \in Nat /\ a.samples \in Nat
      /\ a.heard \in Seq(Seq(Sample)) /\ Len(a.heard) \in Nat /\ FrameSamples \in Nat /\ FrameSamples >= 1
  BY TrackFacts, BridgeAssumption
<1>1. input \in Seq(Sample) /\ OfTrack(input, a.track, a.samples + n)
  BY <1>0, DecodedOfTrack DEF Tracked
<1>2. b.residue = rest /\ b.heard = a.heard \o whole /\ b.track = a.track /\ b.samples = a.samples + n
  BY DEF Rechunked, AudioType
<1> HIDE DEF input, b
<1>3. Len(input) \in Nat
  BY <1>1
<1>4. frames \in Nat /\ frames * FrameSamples <= Len(input) /\ frames * FrameSamples \in Nat
  BY <1>0, <1>3, DivBound
<1> HIDE DEF frames
<1>5. OfTrack(rest, a.track, a.samples + n)
  <2>1. frames * FrameSamples + 1 \in 1..(Len(input) + 1) /\ Len(input) \in 0..Len(input)
    BY <1>3, <1>4
  <2> QED
    BY <1>1, <1>3, <1>4, <2>1, StretchOfTrack
<1>6. ASSUME NEW k \in 1..frames
      PROVE  LET f == SubSeq(input, (k - 1) * FrameSamples + 1, k * FrameSamples)
             IN  f \in Seq(Sample) /\ WholeFrame(f)
  <2> DEFINE lo == (k - 1) * FrameSamples + 1
             hi == k * FrameSamples
             f  == SubSeq(input, lo, hi)
  <2>1. lo \in 1..(Len(input) + 1) /\ hi \in 0..Len(input)
    BY <1>3, <1>4, ChunkBounds
  <2>2. hi - lo + 1 = FrameSamples
    <3>1. (k - 1) * FrameSamples = k * FrameSamples - FrameSamples /\ k * FrameSamples \in Nat
      BY <1>0
    <3> QED
      BY <1>0, <3>1
  <2> HIDE DEF lo, hi
  <2>3. lo <= hi + 1
    BY <1>0, <1>3, <2>1, <2>2
  <2>4. OfTrack(f, a.track, a.samples + n) /\ Len(f) = FrameSamples
    BY <1>1, <2>1, <2>2, <2>3, StretchOfTrack
  <2>5. f \in Seq(Sample)
    <3>1. lo \in Int /\ hi \in Int /\ \A i \in lo..hi : input[i] \in Sample
      BY <1>1, <1>3, <2>1
    <3> QED
      BY <3>1, SubSeqProperties
  <2> HIDE DEF f
  <2>6. \A i \in 1..(Len(f) - 1) : i \in 1..Len(f) /\ i + 1 \in 1..Len(f)
    BY <1>0, <2>4
  <2>7. WholeFrame(f)
    BY <2>4, <2>6 DEF OfTrack, WholeFrame
  <2> QED
    BY <2>5, <2>7 DEF f, lo, hi
<1>7. /\ whole \in Seq(Seq(Sample)) /\ Len(whole) = frames
      /\ \A k \in 1..frames : WholeFrame(whole[k])
  BY <1>4, <1>6
<1> HIDE DEF whole, rest
<1>8. /\ Len(a.heard \o whole) = Len(a.heard) + Len(whole)
      /\ \A k \in 1..(Len(a.heard) + Len(whole)) :
            (a.heard \o whole)[k] = IF k <= Len(a.heard) THEN a.heard[k] ELSE whole[k - Len(a.heard)]
  BY <1>0, <1>7, ConcatProperties
<1>9. ASSUME NEW k \in 1..(Len(a.heard) + Len(whole)) PROVE WholeFrame((a.heard \o whole)[k])
  <2>1. CASE k <= Len(a.heard)
    BY <1>0, <1>8, <2>1 DEF Tracked
  <2>2. CASE ~(k <= Len(a.heard))
    <3>1. k - Len(a.heard) \in 1..frames
      BY <1>0, <1>4, <1>7, <2>2
    <3>2. (a.heard \o whole)[k] = whole[k - Len(a.heard)]
      BY <1>8, <2>2
    <3> QED
      BY <1>7, <3>1, <3>2
  <2> QED
    BY <2>1, <2>2
<1>10. Tracked(b)
  BY <1>2, <1>5, <1>8, <1>9 DEF Tracked
<1> QED
  BY <1>10 DEF b

----------------------------------------------------------------------------
(* The bridges.                                                            *)

AudioInv == \A s \in Session : /\ ~media[s].made => audio[s] = NewAudio
                               /\ Ordered(audio[s]) /\ Tracked(audio[s])
                               /\ Open(s) => Counted(audio[s])

LEMMA NewIsTracked == Tracked(NewAudio)
BY DEF NewAudio, Tracked, OfTrack

LEMMA NewCloses == ClosedBridge(NewAudio) = NewAudio
<1>1. NewAudio.queue = <<>> /\ NewAudio.residue = <<>>
  BY DEF NewAudio
<1>2. NewAudio = [x \in DOMAIN NewAudio |-> NewAudio[x]]
  BY DEF NewAudio
<1> QED
  BY <1>1, <1>2 DEF ClosedBridge

LEMMA ClosedIsTracked ==
    ASSUME NEW a \in AudioType, Tracked(a)
    PROVE  Tracked(ClosedBridge(a))
<1>1. ClosedBridge(a).residue = <<>> /\ ClosedBridge(a).heard = a.heard
  BY DEF ClosedBridge, AudioType
<1> QED
  BY <1>1 DEF Tracked, OfTrack

LEMMA AudioInit == Init => AudioInv
BY NewIsOrdered, NewIsTracked DEF Init, SessionsInit, AudioInv

\* One move of a bridge.
LEMMA AudioMoveKeeps ==
    ASSUME Types, AudioInv, NEW s \in Session, AudioMoves(s)
    PROVE  /\ ~media[s].made => audio'[s] = audio[s]
           /\ Ordered(audio'[s]) /\ Tracked(audio'[s])
           /\ Counted(audio[s]) => Counted(audio'[s])
<1> DEFINE a == audio[s]
           b == audio'[s]
<1>0. a \in AudioType /\ link[s].secure \in BOOLEAN /\ Ordered(a) /\ Tracked(a)
      /\ Nat \in SUBSET Nat /\ FrameSamples \in Nat
  BY BridgeAssumption DEF Types, SessionTypes, LinkType, AudioInv
<1>1. ~media[s].made => b = a
  BY DEF AudioMoves, Open, AudioInv, NewAudio
<1>2. ASSUME b.rtp = a.rtp, b.queue = a.queue, b.frames = a.frames, b.seq = a.seq,
             b.droppedFrames = a.droppedFrames
      PROVE  Ordered(b) /\ (Counted(a) => Counted(b))
  BY <1>0, <1>2, OrderedKept
<1>3. ASSUME b.residue = a.residue, b.track = a.track, b.samples = a.samples, b.heard = a.heard
      PROVE  Tracked(b)
  BY <1>0, <1>3 DEF Tracked
<1>4. ASSUME b = a
      PROVE  Ordered(b) /\ Tracked(b) /\ (Counted(a) => Counted(b))
  BY <1>0, <1>1, <1>4
<1>5. ASSUME b = [a EXCEPT !.due = FALSE]
      PROVE  Ordered(b) /\ Tracked(b) /\ (Counted(a) => Counted(b))
  <2>1. /\ b.rtp = a.rtp /\ b.queue = a.queue /\ b.frames = a.frames /\ b.seq = a.seq
        /\ b.droppedFrames = a.droppedFrames /\ b.residue = a.residue /\ b.track = a.track
        /\ b.samples = a.samples /\ b.heard = a.heard
    BY <1>0, <1>5 DEF AudioType
  <2> QED
    BY <1>1, <1>2, <1>3, <2>1
<1>6. ASSUME NEW ready, b = SenderReady(a, ready)
      PROVE  Ordered(b) /\ Tracked(b) /\ (Counted(a) => Counted(b))
  <2>1. /\ b.rtp = a.rtp /\ b.queue = a.queue /\ b.frames = a.frames /\ b.seq = a.seq
        /\ b.droppedFrames = a.droppedFrames /\ b.residue = a.residue /\ b.track = a.track
        /\ b.samples = a.samples /\ b.heard = a.heard
    BY <1>0, <1>6 DEF SenderReady, AudioType
  <2> QED
    BY <1>2, <1>3, <2>1
<1>7. ASSUME b = Accepted(a)
      PROVE  Ordered(b) /\ Tracked(b) /\ (Counted(a) => Counted(b))
  <2>1. b.residue = a.residue /\ b.track = a.track /\ b.samples = a.samples /\ b.heard = a.heard
    BY <1>0, <1>7 DEF Accepted, AudioType
  <2>2. Ordered(b) /\ (Counted(a) => Counted(b))
    BY <1>0, <1>7, AcceptedIsOrdered
  <2> QED
    BY <1>1, <1>3, <2>1, <2>2
<1>8. ASSUME b = Drained(a, link[s].secure)
      PROVE  Ordered(b) /\ Tracked(b) /\ (Counted(a) => Counted(b))
  <2>1. b.residue = a.residue /\ b.track = a.track /\ b.samples = a.samples /\ b.heard = a.heard
    BY <1>0, <1>8 DEF Drained, AudioType
  <2>2. Ordered(b) /\ (Counted(a) => Counted(b))
    BY <1>0, <1>8, DrainedIsOrdered
  <2> QED
    BY <1>1, <1>3, <2>1, <2>2
<1>9. ASSUME b = Attached(a)
      PROVE  Ordered(b) /\ Tracked(b) /\ (Counted(a) => Counted(b))
  <2>1. /\ b.rtp = a.rtp /\ b.queue = a.queue /\ b.frames = a.frames /\ b.seq = a.seq
        /\ b.droppedFrames = a.droppedFrames /\ b.residue = <<>> /\ b.heard = a.heard
    BY <1>0, <1>9 DEF Attached, AudioType
  <2>2. Tracked(b)
    BY <1>0, <2>1 DEF Tracked, OfTrack
  <2> QED
    BY <1>1, <1>2, <2>1, <2>2
<1>10. ASSUME NEW n \in 1..(FrameSamples + 1),
              b \in {Rechunked(a, n), [a EXCEPT !.samples = a.samples + n]}
       PROVE  Ordered(b) /\ Tracked(b) /\ (Counted(a) => Counted(b))
  <2>0. n \in Nat
    BY <1>0
  <2>1. CASE b = Rechunked(a, n)
    <3>1. /\ b.rtp = a.rtp /\ b.queue = a.queue /\ b.frames = a.frames /\ b.seq = a.seq
          /\ b.droppedFrames = a.droppedFrames
      BY <1>0, <2>1 DEF Rechunked, AudioType
    <3> QED
      BY <1>0, <1>2, <2>0, <2>1, <3>1, RechunkedOfTrack
  <2>2. CASE b = [a EXCEPT !.samples = a.samples + n]
    <3>1. /\ b.rtp = a.rtp /\ b.queue = a.queue /\ b.frames = a.frames /\ b.seq = a.seq
          /\ b.droppedFrames = a.droppedFrames /\ b.residue = a.residue /\ b.track = a.track
          /\ b.samples = a.samples + n /\ b.heard = a.heard
      BY <1>0, <2>2 DEF AudioType
    <3>2. \A i \in 1..Len(a.residue) : a.residue[i][2] <= a.samples + n
      <4>1. \A i \in 1..Len(a.residue) : a.residue[i] \in Sample /\ a.residue[i][2] <= a.samples
        BY <1>0, TrackFacts DEF Tracked, OfTrack
      <4>2. \A x \in Sample : x[2] \in Nat
        BY DEF Sample
      <4> QED
        BY <1>0, <2>0, <4>1, <4>2, TrackFacts
    <3>3. Tracked(b)
      BY <1>0, <3>1, <3>2 DEF Tracked, OfTrack
    <3> QED
      BY <1>2, <3>1, <3>3
  <2> QED
    BY <1>10, <2>1, <2>2
<1> HIDE DEF a, b
<1>11. AudioMoves(s) => \/ b \in {a, [a EXCEPT !.due = FALSE], Accepted(a), Drained(a, link[s].secure), Attached(a)}
                        \/ \E ready \in BOOLEAN : b = SenderReady(a, ready)
                        \/ \E n \in 1..(FrameSamples + 1) :
                              b \in {Rechunked(a, n), [a EXCEPT !.samples = a.samples + n]}
  BY DEF AudioMoves, a, b
<1>12. Ordered(b) /\ Tracked(b) /\ (Counted(a) => Counted(b))
  BY <1>4, <1>5, <1>6, <1>7, <1>8, <1>9, <1>10, <1>11
<1> QED
  BY <1>1, <1>12 DEF a, b

LEMMA AudioStep ==
    ASSUME Types, Placed, AudioInv, [Next]_vars
    PROVE  AudioInv'
<1> SUFFICES ASSUME NEW t \in Session
             PROVE  /\ ~media'[t].made => audio'[t] = NewAudio
                    /\ Ordered(audio'[t]) /\ Tracked(audio'[t])
                    /\ Open(t)' => Counted(audio'[t])
  BY DEF AudioInv
<1>0. /\ SessionGoesOn(t) /\ audio[t] \in AudioType /\ media[t] \in MediaType
      /\ ~media[t].made => audio[t] = NewAudio
      /\ Ordered(audio[t]) /\ Tracked(audio[t])
      /\ Open(t) => Counted(audio[t])
  BY SessionsGoOn DEF Types, SessionTypes, AudioInv
<1>1. CASE audio'[t] = audio[t]
  BY <1>0, <1>1, NewIsOrdered DEF SessionGoesOn
<1>2. CASE Undisturbed
  <2>1. CASE audio'[t] = ClosedBridge(audio[t]) /\ media'[t] = Closed(media[t])
    <3>1. media'[t].closed /\ (media'[t].made <=> media[t].made)
      BY <1>0, <2>1 DEF Closed, MediaType
    <3> QED
      BY <1>0, <2>1, <3>1, ClosedIsOrdered, ClosedIsTracked, NewCloses DEF Open
  <2> QED
    BY <1>1, <1>2, <2>1 DEF Undisturbed
<1>3. ASSUME NEW s \in Session, Media(s)
      PROVE  /\ ~media'[t].made => audio'[t] = NewAudio
             /\ Ordered(audio'[t]) /\ Tracked(audio'[t])
             /\ Open(t)' => Counted(audio'[t])
  <2>1. CASE t # s
    BY <1>1, <1>3, <2>1, MediaMovesAudio
  <2>2. CASE t = s
    <3>1. media' = media /\ AudioMoves(t)
      BY <1>3, <2>2, MediaMovesAudio
    <3>2. /\ ~media[t].made => audio'[t] = audio[t]
          /\ Ordered(audio'[t]) /\ Tracked(audio'[t])
          /\ Counted(audio[t]) => Counted(audio'[t])
      BY <3>1, AudioMoveKeeps
    <3> QED
      BY <1>0, <3>1, <3>2 DEF Open
  <2> QED
    BY <2>1, <2>2
<1> QED
  BY <1>2, <1>3, SessionMoves

\* Sequence numbers follow each other, across drains, closed gates and the wrap; frames are
\* written once and in order; each written while the session is open was written, waits, or
\* was counted as dropped (AudioBridge, audio-bridge.ts:94-190).
THEOREM MediaFramesInOrder == Spec => []FramesInOrder
<1>1. Types /\ AudioInv => FramesInOrder
  <2> SUFFICES ASSUME Types, AudioInv, NEW s \in Session
               PROVE  LET a == audio[s]
                      IN  /\ \A i \in DOMAIN a.rtp : a.rtp[i].seq = (FirstSeq + i - 1) % SeqModulus
                          /\ Increasing([i \in DOMAIN a.rtp |-> a.rtp[i].frame] \o a.queue)
                          /\ Open(s) => Len(a.rtp) + Len(a.queue) + a.droppedFrames = a.frames
    BY DEF FramesInOrder
  <2> DEFINE a == audio[s]
  <2>1. a \in AudioType /\ Ordered(a) /\ (Open(s) => Counted(a))
    BY DEF Types, SessionTypes, AudioInv
  <2> HIDE DEF a
  <2>2. DOMAIN a.rtp = 1..Len(a.rtp)
    BY <2>1, AudioFacts
  <2>3. \A i \in DOMAIN a.rtp : a.rtp[i].seq = (FirstSeq + i - 1) % SeqModulus
    BY <2>1, <2>2 DEF Ordered, Follow
  <2>4. Increasing(Frames(a))
    BY <2>1 DEF Ordered, Rising, Increasing
  <2>5. Open(s) => Len(a.rtp) + Len(a.queue) + a.droppedFrames = a.frames
    BY <2>1 DEF Counted
  <2> QED
    BY <2>3, <2>4, <2>5 DEF a, Frames, FramesOf
<1>2. Init => Types /\ Placed /\ AudioInv
  BY TypesInit, PlacedInit, AudioInit
<1>3. Types /\ Placed /\ AudioInv /\ [Next]_vars => (Types /\ Placed /\ AudioInv)'
  BY TypesStep, PlacedStep, AudioStep
<1> QED
  BY <1>1, <1>2, <1>3, PTL DEF Spec

\* A frame that is heard has FrameSamples samples of a single track, in their order
\* (AudioBridge.deliver and attachRemoteTrack, audio-bridge.ts:193-260).
THEOREM MediaFramesOfOneTrack == Spec => []FramesOfOneTrack
<1>1. Types /\ AudioInv => FramesOfOneTrack
  <2> SUFFICES ASSUME Types, AudioInv, NEW s \in Session, NEW k \in DOMAIN audio[s].heard
               PROVE  WholeFrame(audio[s].heard[k])
    BY DEF FramesOfOneTrack, WholeFrame
  <2>1. audio[s] \in AudioType /\ Tracked(audio[s])
    BY DEF Types, SessionTypes, AudioInv
  <2>2. k \in 1..Len(audio[s].heard)
    BY <2>1, TrackFacts
  <2> QED
    BY <2>1, <2>2 DEF Tracked
<1>2. Init => Types /\ Placed /\ AudioInv
  BY TypesInit, PlacedInit, AudioInit
<1>3. Types /\ Placed /\ AudioInv /\ [Next]_vars => (Types /\ Placed /\ AudioInv)'
  BY TypesStep, PlacedStep, AudioStep
<1> QED
  BY <1>1, <1>2, <1>3, PTL DEF Spec

----------------------------------------------------------------------------
(* What becomes of a media session, field by field.                        *)

LEMMA NewSessionFields ==
    ASSUME NEW record \in Sender, NEW waiting \in Seq(Candidate)
    PROVE  LET m == NewSession(record, waiting)
           IN  /\ m.made /\ ~m.closed /\ (m.wired <=> record.listed) /\ ~m.described /\ ~m.remote
               /\ m.parked = waiting /\ m.injected = <<>>
<1> DEFINE k == [NewMedia EXCEPT !.made = TRUE, !.wired = record.listed]
<1>1. /\ k \in MediaType /\ k.made /\ ~k.closed /\ (k.wired <=> record.listed) /\ ~k.described /\ ~k.remote
      /\ k.parked = <<>> /\ k.injected = <<>>
  <2>1. <<>> \in Seq(Candidate) /\ record.listed \in BOOLEAN
    BY DEF Sender
  <2> QED
    BY <2>1 DEF NewMedia, MediaType
<1> HIDE DEF k
<1>2. NewSession(record, waiting) = [k EXCEPT !.parked = k.parked \o waiting]
  BY <1>1 DEF NewSession, AddRemoteCandidates, k
<1>3. <<>> \o waiting = waiting
  BY ConcatEmptySeq
<1> QED
  BY <1>1, <1>2, <1>3 DEF MediaType

LEMMA ClosedFields ==
    ASSUME NEW m \in MediaType
    PROVE  LET k == Closed(m)
           IN  /\ k.made = m.made /\ k.closed /\ ~k.wired /\ k.described = m.described
               /\ k.remote = m.remote /\ k.parked = <<>> /\ k.injected = m.injected
BY DEF Closed, MediaType

LEMMA RemoteDescribedFields ==
    ASSUME NEW m \in MediaType
    PROVE  LET k == RemoteDescribed(m)
           IN  /\ k.made = m.made /\ k.closed = m.closed /\ k.wired = m.wired
               /\ k.described = m.described /\ k.remote
               /\ k.parked = <<>> /\ k.injected = m.injected \o m.parked
BY DEF RemoteDescribed, MediaType

LEMMA AddRemoteFields ==
    ASSUME NEW m \in MediaType, NEW cs
    PROVE  LET k == AddRemoteCandidates(m, cs)
           IN  /\ k.made = m.made /\ k.closed = m.closed /\ k.wired = m.wired
               /\ k.described = m.described /\ k.remote = m.remote
               /\ IF m.closed THEN k.parked = m.parked /\ k.injected = m.injected
                  ELSE IF m.remote THEN k.parked = m.parked /\ k.injected = m.injected \o cs
                  ELSE k.parked = m.parked \o cs /\ k.injected = m.injected
BY DEF AddRemoteCandidates, MediaType

LEMMA SenderForFields ==
    ASSUME Types, NEW e \in End
    PROVE  /\ SenderFor(e) \in Sender
           /\ calls[e] # 0 => SenderFor(e) = sender[e]
           /\ calls[e] = 0 => /\ SenderFor(e).listed /\ ~SenderFor(e).armed /\ ~SenderFor(e).disposed
                              /\ SenderFor(e).parked = <<>> /\ SenderFor(e).queue = <<>>
                              /\ SenderFor(e).sent = <<>> /\ ~SenderFor(e).timer
BY SenderForType DEF SenderFor, NoSender

\* A session is wired, and told to describe itself, as it is made.
Same(t) == /\ media'[t].made = media[t].made /\ media'[t].closed = media[t].closed
           /\ media'[t].wired = media[t].wired /\ media'[t].described = media[t].described

LEMMA SameSessions ==
    ASSUME Types, Placed, NEW s \in Session, Awaits(s) \/ Sets(s) \/ Adds(s) \/ Gather(s)
    PROVE  \A t \in Session : Same(t)
<1> SUFFICES ASSUME NEW t \in Session PROVE Same(t)
  OBVIOUS
<1>0. media[t] \in MediaType
  BY DEF Types, SessionTypes
<1>1. media'[t] = media[t] => Same(t)
  BY DEF Same
<1>2. CASE Awaits(s) \/ Gather(s) \/ t # s
  BY <1>1, <1>2 DEF Awaits, Sets, Adds, Gather, sessionVars, Types, SessionTypes
<1>3. CASE Sets(s) /\ t = s
  <2>1. media'[t] = RemoteDescribed(media[t])
    BY <1>3 DEF Sets, Types, SessionTypes
  <2> QED
    BY <1>0, <2>1, RemoteDescribedFields DEF Same
<1>4. CASE Adds(s) /\ t = s
  <2>1. media'[t] \in {media[t], AddRemoteCandidates(media[t], Next_(s[1]).cands)}
    BY <1>4 DEF Adds, Types, SessionTypes
  <2> QED
    BY <1>0, <1>1, <2>1, AddRemoteFields DEF Same
<1> QED
  BY <1>2, <1>3, <1>4

----------------------------------------------------------------------------
(* A call that rings, or is not there yet, has not begun to negotiate.     *)

Early(s) == ctx[s].phase \in {"none", "ringing"}

RingInv ==
    /\ \A s \in Session : Early(s) => ~media[s].described /\ gathered[s] = <<>>
    /\ \A w \in awaits : ~Early(w[1])
    /\ \A x \in sends : Talks(x) => ~Early(x.ctx)

LEMMA RingInit == Init => RingInv
BY DEF Init, SessionsInit, NewMedia, RingInv

LEMMA RingStep ==
    ASSUME Types, Placed, RingInv, [Next]_vars
    PROVE  RingInv'
<1>0. /\ Shape /\ \A s \in Session : media[s] \in MediaType
      /\ \A w \in awaits : w[1] \in Session /\ ~Early(w[1])
      /\ \A x \in sends : x.ctx \in Session
      /\ "caller" \in End /\ "callee" \in End
  BY ShapeOfStep DEF Types, SessionTypes, ContextTypes, PostTypes, Send, RingInv, End
<1>1. CASE Rests
  <2>1. \A s \in Session : Early(s)' => Early(s)
    BY <1>1, ZenonT(60) DEF Rests, Early, Types, ContextTypes
  <2>2. media' = media /\ gathered' = gathered /\ awaits' \subseteq awaits
        /\ \A x \in sends' : x \in sends \/ ~Talks(x)
    BY <1>1 DEF Rests, QuietWork
  <2> QED
    BY <1>0, <2>1, <2>2 DEF RingInv
<1>2. ASSUME NEW s \in Session, Closes(s) PROVE RingInv'
  <2>1. \A t \in Session : Early(t)' => Early(t) /\ t # s
    BY <1>2 DEF Closes, Early, Types, ContextTypes
  <2>2. gathered' = gathered /\ awaits' \subseteq awaits
        /\ \A x \in sends' : x \in sends \/ ~Talks(x)
    BY <1>2 DEF Closes, QuietWork
  <2>3. \A t \in Session \ {s} : media'[t] = media[t]
    BY <1>2 DEF Closes, Types, SessionTypes
  <2> QED
    BY <1>0, <2>1, <2>2, <2>3 DEF RingInv
<1>3. CASE Ignore
  <2> DEFINE s == Current("callee")
  <2>1. s \in Session
    BY <1>0, <1>3, CurrentBorn DEF Ignore
  <2>2. ctx' = [ctx EXCEPT ![s].phase = "over"] /\ media' = [media EXCEPT ![s] = Closed(media[s])]
        /\ UNCHANGED <<gathered, awaits, sends>>
    BY <1>3 DEF Ignore
  <2> HIDE DEF s
  <2>3. \A t \in Session : (Early(t)' => Early(t) /\ t # s) /\ (t # s => media'[t] = media[t])
    BY <2>1, <2>2 DEF Early, Types, ContextTypes, SessionTypes
  <2> QED
    BY <1>0, <2>2, <2>3 DEF RingInv
<1>4. ASSUME NEW e \in End, NEW phase \in {"setup", "ringing"}, Makes(e, phase) PROVE RingInv'
  <2>1. PICK s \in Session : Birth(e, phase, s)
    BY <1>4, MakesBirth
  <2>2. gathered' = gathered /\ ~Born(s) /\ gathered[s] = <<>>
        /\ \A x \in sends' : x \in sends \/ ~Talks(x)
    BY <1>4, <2>1 DEF Makes, Birth, Placed
  <2>3. ~media'[s].described
    <3>1. media'[s] \in {NewMedia, NewSession(SenderFor(e), <<>>)}
      BY <2>1 DEF Birth
    <3>2. <<>> \in Seq(Candidate)
      OBVIOUS
    <3>3. SenderFor(e) \in Sender
      BY SenderForFields
    <3>4. ~NewSession(SenderFor(e), <<>>).described
      BY <3>2, <3>3, NewSessionFields
    <3> QED
      BY <3>1, <3>4 DEF NewMedia
  <2>4. \A t \in Session \ {s} : (Early(t)' <=> Early(t)) /\ media'[t] = media[t]
    BY <2>1 DEF Birth, Early
  <2>5. \A w \in awaits : w[1] # s
    BY <2>2 DEF Placed
  <2>6. \A x \in sends : x.ctx # s
    BY <2>2 DEF Placed
  <2>7. ASSUME NEW w \in awaits' PROVE ~Early(w[1])'
    <3>1. CASE w \in awaits
      BY <1>0, <2>4, <2>5, <3>1
    <3>2. CASE w \notin awaits
      <4>1. phase = "setup" /\ w = <<s, "describe">>
        BY <1>4, <2>1, <3>2 DEF Makes, Birth
      <4> QED
        BY <2>1, <4>1 DEF Birth, Early
    <3> QED
      BY <3>1, <3>2
  <2> QED
    BY <1>0, <2>2, <2>3, <2>4, <2>6, <2>7 DEF RingInv
<1>5. ASSUME NEW s \in Session, Fits(s) PROVE RingInv'
  <2>1. /\ UNCHANGED <<ctx, gathered, awaits, sends>>
        /\ media' = [media EXCEPT ![s] = NewSession(sender[s[1]], ctx[s].waiting)]
    BY <1>5 DEF Fits
  <2>2. \A t \in Session : Early(t)' <=> Early(t)
    BY <2>1 DEF Early
  <2>3. ~media'[s].described /\ \A t \in Session \ {s} : media'[t] = media[t]
    <3>1. sender[s[1]] \in Sender /\ ctx[s].waiting \in Seq(Candidate)
      BY SessionIsPair DEF Types, SenderType, ContextTypes
    <3> QED
      BY <2>1, <3>1, NewSessionFields DEF Types, SessionTypes
  <2> QED
    BY <1>0, <2>1, <2>2, <2>3 DEF RingInv
<1>6. ASSUME NEW s \in Session, Awaits(s) PROVE RingInv'
  <2>1. \A t \in Session : Early(t)' => Early(t) /\ t # s
    BY <1>6 DEF Awaits, Early
  <2>2. UNCHANGED <<media, gathered, sends>> /\ awaits' = awaits \cup {<<s, "remote">>}
    BY <1>6 DEF Awaits
  <2> QED
    BY <1>0, <2>1, <2>2 DEF RingInv
<1>7. ASSUME NEW s \in Session, Sets(s) \/ Describes(s) PROVE RingInv'
  <2>1. /\ UNCHANGED <<ctx, gathered>>
        /\ \A w \in awaits' : w \in awaits \/ w = <<s, "describe">>
        /\ \A x \in sends' : x \in sends \/ x.ctx = s
    BY <1>7 DEF Sets, Describes
  <2>2. \A t \in Session : Early(t)' <=> Early(t)
    BY <2>1 DEF Early
  <2>3. ~Early(s)
    <3>1. PICK what : <<s, what>> \in awaits
      BY <1>7 DEF Sets, Describes
    <3> QED
      BY <1>0, <3>1
  <2>4. \A t \in Session \ {s} : media'[t] = media[t]
    BY <1>7 DEF Sets, Describes, Types, SessionTypes
  <2>5. ASSUME NEW w \in awaits' PROVE ~Early(w[1])'
    <3>1. w \in awaits \/ w[1] = s
      BY <2>1
    <3> QED
      BY <1>0, <2>2, <2>3, <3>1
  <2> QED
    BY <1>0, <2>1, <2>2, <2>3, <2>4, <2>5 DEF RingInv
<1>8. ASSUME NEW s \in Session, Adds(s) PROVE RingInv'
  <2>1. \A t \in Session : ctx'[t].phase = ctx[t].phase
    BY <1>8, ZenonT(60) DEF Adds, Types, ContextTypes
  <2>2. \A t \in Session : media'[t].described = media[t].described
    BY <1>8, SameSessions DEF Same
  <2>3. UNCHANGED <<gathered, awaits, sends>>
    BY <1>8 DEF Adds
  <2> QED
    BY <1>0, <2>1, <2>2, <2>3 DEF RingInv, Early
<1>9. ASSUME NEW s \in Session, Gather(s) PROVE RingInv'
  <2>1. UNCHANGED <<media, ctx, awaits, sends>>
    BY <1>9 DEF Gather, sessionVars, callVars
  <2>2. \A t \in Session \ {s} : gathered'[t] = gathered[t]
    BY <1>9 DEF Gather, Types, LoadTypes
  <2>3. ~Early(s)
    <3>1. <<s, "describe">> \in awaits \/ media[s].described
      BY <1>9 DEF Gather
    <3>2. <<s, "describe">>[1] = s
      OBVIOUS
    <3> QED
      BY <3>1, <3>2 DEF RingInv
  <2> QED
    BY <1>0, <2>1, <2>2, <2>3 DEF RingInv, Early
<1>10. CASE Stores \/ ArmsSender
  <2>1. UNCHANGED <<media, ctx, gathered, awaits>>
    BY <1>10 DEF Stores, ArmsSender
  <2>2. \A x \in sends' : \E y \in sends : x.ctx = y.ctx /\ x.msg = y.msg
    BY <1>10 DEF Stores, ArmsSender
  <2> QED
    BY <1>0, <2>1, <2>2 DEF RingInv, Early, Talks
<1>11. ASSUME NEW e \in End, Flush(e) PROVE RingInv'
  <2> DEFINE x == [Starts(<<e, calls[e]>>, "ICE_CANDIDATES", FALSE) EXCEPT !.msg.cands = sender[e].queue]
  <2>1. UNCHANGED <<media, ctx, gathered, awaits>> /\ sends' \subseteq sends \cup {x}
    BY <1>11 DEF Flush, sessionVars
  <2>2. ~Talks(x)
    BY DEF Talks, Starts
  <2> HIDE DEF x
  <2> QED
    BY <1>0, <2>1, <2>2 DEF RingInv, Early
<1> QED
  BY <1>0, <1>1, <1>2, <1>3, <1>4, <1>5, <1>6, <1>7, <1>8, <1>9, <1>10, <1>11 DEF Shape, EndsCall

----------------------------------------------------------------------------
(* The state of a sender.                                                  *)

Sound(r) == /\ r.listed => ~r.disposed
            /\ r.armed => r.parked = <<>>
            /\ ~r.armed => r.queue = <<>> /\ r.sent = <<>>
            /\ ~r.listed => r.parked = <<>> /\ r.queue = <<>>

SoundInv == \A e \in End : /\ Sound(sender[e])
                           /\ calls[e] # 0 => sender[e].listed \/ sender[e].disposed

\* What a sender was given, in that order, wherever it is by now.
Held(r) == r.sent \o r.queue \o r.parked

LEMMA HeldFacts ==
    ASSUME NEW r \in Sender
    PROVE  /\ r.sent \in Seq(Candidate) /\ r.queue \in Seq(Candidate) /\ r.parked \in Seq(Candidate)
           /\ r.listed \in BOOLEAN /\ r.armed \in BOOLEAN /\ r.disposed \in BOOLEAN
           /\ r.sent \o r.queue \in Seq(Candidate) /\ Held(r) \in Seq(Candidate)
<1>1. /\ r.sent \in Seq(Candidate) /\ r.queue \in Seq(Candidate) /\ r.parked \in Seq(Candidate)
      /\ r.listed \in BOOLEAN /\ r.armed \in BOOLEAN /\ r.disposed \in BOOLEAN
  BY DEF Sender
<1>2. r.sent \o r.queue \in Seq(Candidate)
  BY <1>1, ConcatProperties
<1>3. (r.sent \o r.queue) \o r.parked \in Seq(Candidate)
  BY <1>1, <1>2, ConcatProperties
<1> QED
  BY <1>1, <1>2, <1>3 DEF Held

LEMMA DisposedFields ==
    ASSUME NEW r \in Sender, Sound(r)
    PROVE  /\ Sound(Disposed(r)) /\ ~Disposed(r).listed
           /\ r.listed \/ r.disposed => Disposed(r).disposed
           /\ Disposed(r).sent = r.sent /\ Disposed(r).armed = r.armed
BY DEF Disposed, Sender, Sound

LEMMA ArmedFields ==
    ASSUME NEW r \in Sender, Sound(r)
    PROVE  /\ Sound(Armed(r)) /\ Armed(r).listed = r.listed /\ Armed(r).disposed = r.disposed
           /\ r.listed => Armed(r).armed
           /\ Armed(r).sent = r.sent
           /\ Held(Armed(r)) = Held(r)
<1>1. CASE r.armed \/ r.disposed
  BY <1>1 DEF Armed, Sound, Sender
<1>2. CASE ~(r.armed \/ r.disposed)
  <2> DEFINE b == Armed(r)
  <2>1. /\ b.armed /\ b.parked = <<>> /\ b.queue = r.queue \o r.parked /\ b.sent = r.sent
        /\ b.listed = r.listed /\ b.disposed = r.disposed
    BY <1>2 DEF Armed, Sender
  <2>2. r.sent = <<>> /\ r.queue = <<>> /\ (~r.listed => r.parked = <<>>)
    BY <1>2 DEF Sound
  <2> HIDE DEF b
  <2>3. b.queue = r.parked
    BY <2>1, <2>2, HeldFacts, ConcatEmptySeq
  <2>4. Sound(b)
    BY <1>2, <2>1, <2>2, <2>3 DEF Sound
  <2>5. Held(b) = Held(r)
    <3>1. r.parked \in Seq(Candidate) /\ <<>> \in Seq(Candidate)
      BY HeldFacts
    <3>2. <<>> \o <<>> \o r.parked = r.parked /\ (<<>> \o r.parked) \o <<>> = r.parked
      BY <3>1, ConcatEmptySeq
    <3> QED
      BY <2>1, <2>2, <2>3, <3>2 DEF Held
  <2> QED
    BY <1>2, <2>1, <2>4, <2>5 DEF b
<1> QED
  BY <1>1, <1>2

LEMMA FedFields ==
    ASSUME NEW r \in Sender, Sound(r), NEW c \in Candidate, r.listed \/ r.disposed
    PROVE  /\ Sound(Fed(r, c)) /\ Fed(r, c).listed = r.listed /\ Fed(r, c).disposed = r.disposed
           /\ Fed(r, c).sent = r.sent /\ Fed(r, c).armed = r.armed
           /\ r.listed => Held(Fed(r, c)) = IF Passes(c) THEN Append(Held(r), c) ELSE Held(r)
<1> DEFINE b == Fed(r, c)
<1>1. CASE r.disposed \/ ~Passes(c)
  <2>1. b = r
    BY <1>1 DEF Fed, Passes
  <2> QED
    BY <1>1, <2>1 DEF Sound
<1>2. CASE ~(r.disposed \/ ~Passes(c)) /\ r.armed
  <2>1. /\ b.queue = Append(r.queue, c) /\ b.parked = r.parked /\ b.sent = r.sent
        /\ b.armed = r.armed /\ b.listed = r.listed /\ b.disposed = r.disposed
    BY <1>2 DEF Fed, Passes, Enqueued, Sender
  <2>2. r.parked = <<>> /\ r.listed
    BY <1>2 DEF Sound
  <2> HIDE DEF b
  <2>3. Sound(b)
    BY <1>2, <2>1, <2>2 DEF Sound
  <2>4. Held(b) = Append(Held(r), c)
    <3>1. r.sent \o Append(r.queue, c) = Append(r.sent \o r.queue, c)
      <4> DEFINE sent  == r.sent
                 queue == r.queue
      <4>1. sent \in Seq(Candidate) /\ queue \in Seq(Candidate)
        BY HeldFacts
      <4> HIDE DEF sent, queue
      <4>2. sent \o Append(queue, c) = Append(sent \o queue, c)
        BY <4>1, AppendGlued
      <4> QED
        BY <4>2 DEF sent, queue
    <3>2. r.sent \o Append(r.queue, c) \in Seq(Candidate) /\ r.sent \o r.queue \in Seq(Candidate)
      BY <3>1, HeldFacts, AppendProperties
    <3> QED
      BY <2>1, <2>2, <3>1, <3>2, ConcatEmptySeq DEF Held
  <2> QED
    BY <1>2, <2>1, <2>3, <2>4 DEF b
<1>3. CASE ~(r.disposed \/ ~Passes(c)) /\ ~r.armed
  <2>1. /\ b.queue = r.queue /\ b.parked = Append(r.parked, c) /\ b.sent = r.sent
        /\ b.armed = r.armed /\ b.listed = r.listed /\ b.disposed = r.disposed
    BY <1>3 DEF Fed, Passes, Enqueued, Sender
  <2>2. r.listed
    BY <1>3
  <2> HIDE DEF b
  <2>3. Sound(b)
    BY <1>3, <2>1, <2>2 DEF Sound
  <2>4. Held(b) = Append(Held(r), c)
    <3> DEFINE q == r.sent \o r.queue
    <3>1. q \in Seq(Candidate) /\ r.parked \in Seq(Candidate)
      BY HeldFacts
    <3>2. Held(b) = q \o Append(r.parked, c) /\ Held(r) = q \o r.parked
      BY <2>1 DEF Held
    <3> HIDE DEF q
    <3> QED
      BY <3>1, <3>2, AppendGlued
  <2> QED
    BY <1>3, <2>1, <2>3, <2>4 DEF b
<1> QED
  BY <1>1, <1>2, <1>3

\* The batcher's quiet period is over.
Flushed(r) == [r EXCEPT !.timer = FALSE, !.queue = <<>>, !.sent = r.sent \o r.queue]

LEMMA FlushedFields ==
    ASSUME NEW r \in Sender, Sound(r)
    PROVE  /\ Sound(Flushed(r)) /\ Flushed(r).listed = r.listed /\ Flushed(r).disposed = r.disposed
           /\ Flushed(r).armed = r.armed
           /\ Flushed(r).sent = r.sent \o r.queue /\ Flushed(r).parked = r.parked
           /\ Held(Flushed(r)) = Held(r)
<1> DEFINE b == Flushed(r)
<1>1. /\ b.queue = <<>> /\ b.sent = r.sent \o r.queue /\ b.parked = r.parked
      /\ b.armed = r.armed /\ b.listed = r.listed /\ b.disposed = r.disposed
  BY DEF Flushed, Sender
<1> HIDE DEF b
<1>2. Sound(b)
  BY <1>1, HeldFacts, ConcatEmptySeq DEF Sound
<1>3. Held(b) = Held(r)
  BY <1>1, HeldFacts, ConcatEmptySeq DEF Held
<1> QED
  BY <1>1, <1>2, <1>3 DEF b

\* How a sender moves, in a step of the given shape.
SenderMove(e) ==
    \/ sender'[e] = sender[e] /\ calls'[e] = calls[e]
    \/ sender'[e] = Disposed(sender[e]) /\ calls'[e] = calls[e]
    \/ (\E cs : sender'[e] = [sender[e] EXCEPT !.lost = cs]) /\ calls'[e] = calls[e]
    \/ sender'[e] = SenderFor(e) /\ calls'[e] # 0
    \/ sender'[e] = Armed(sender[e]) /\ calls'[e] = calls[e]
    \/ /\ \E s \in Session, c \in Candidate :
              Gather(s) /\ s[1] = e /\ Open(s) /\ media[s].wired /\ sender'[e] = Fed(sender[e], c)
       /\ calls'[e] = calls[e]
    \/ sender'[e] = Flushed(sender[e]) /\ calls'[e] = calls[e]

LEMMA GatherSender ==
    ASSUME Types, NEW s \in Session, Gather(s)
    PROVE  LET c == <<s[1], left[s[1]]["candidates"]>>
           IN  /\ c \in Candidate /\ Open(s)
               /\ gathered'[s] = Append(gathered[s], c)
               /\ \A t \in Session \ {s} : gathered'[t] = gathered[t]
               /\ media[s].wired => sender'[s[1]] = Fed(sender[s[1]], c)
               /\ ~media[s].wired => sender'[s[1]] = sender[s[1]]
               /\ \A e \in End \ {s[1]} : sender'[e] = sender[e]
               /\ UNCHANGED <<sessionVars, callVars>>
<1> DEFINE n == left[s[1]]["candidates"]
<1>1. s[1] \in End /\ n > 0 /\ n \in Nat
  BY SessionIsPair DEF Gather, Uses, LoadKinds, Types, LoadTypes
<1>2. <<s[1], n>> \in Candidate
  <2>1. n \in 1..n
    BY <1>1
  <2> QED
    BY <1>1, <2>1 DEF Types, LoadTypes, Numbered
<1> QED
  BY <1>1, <1>2 DEF Gather, Types, LoadTypes, SenderType

LEMMA SendersMove ==
    ASSUME Types, Placed, [Next]_vars, NEW e \in End
    PROVE  SenderMove(e)
<1>0. Shape /\ "caller" \in End /\ "callee" \in End
  BY ShapeOfStep DEF End
<1>1. CASE Rests
  BY <1>1 DEF Rests, SenderMove
<1>2. ASSUME NEW s \in Session, EndsCall(s) PROVE SenderMove(e)
  BY <1>2 DEF EndsCall, Closes, SenderMove, Types, SenderType
<1>3. CASE Ignore
  BY <1>3 DEF Ignore, SenderMove
<1>4. ASSUME NEW f \in End, NEW phase, Makes(f, phase) PROVE SenderMove(e)
  <2>1. PICK s \in Session : Birth(f, phase, s)
    BY <1>4, MakesBirth
  <2> QED
    BY <2>1 DEF Birth, SenderMove
<1>5. ASSUME NEW s \in Session, Fits(s) \/ Awaits(s) \/ Sets(s) \/ Describes(s) \/ Adds(s)
      PROVE  SenderMove(e)
  BY <1>5 DEF Fits, Awaits, Sets, Describes, Adds, SenderMove
<1>6. ASSUME NEW s \in Session, Gather(s) PROVE SenderMove(e)
  <2>1. calls' = calls
    BY <1>6, GatherSender DEF callVars
  <2> QED
    BY <1>6, <2>1, GatherSender, ZenonT(60) DEF SenderMove
<1>7. CASE Stores
  BY <1>7 DEF Stores, SenderMove
<1>8. CASE ArmsSender
  <2>1. PICK x \in sends : sender' = [sender EXCEPT ![x.ctx[1]] = Armed(sender[x.ctx[1]])]
    BY <1>8 DEF ArmsSender
  <2> QED
    BY <1>8, <2>1 DEF ArmsSender, SenderMove, Types, SenderType
<1>9. ASSUME NEW f \in End, Flush(f) PROVE SenderMove(e)
  BY <1>9 DEF Flush, SenderMove, Types, SenderType, Flushed
<1> QED
  BY <1>0, <1>1, <1>2, <1>3, <1>4, <1>5, <1>6, <1>7, <1>8, <1>9 DEF Shape

LEMMA SoundInit == Init => SoundInv
BY DEF Init, NoSender, SoundInv, Sound

LEMMA SoundStep ==
    ASSUME Types, Placed, SoundInv, [Next]_vars
    PROVE  SoundInv'
<1> SUFFICES ASSUME NEW e \in End
             PROVE  /\ Sound(sender'[e])
                    /\ calls'[e] # 0 => sender'[e].listed \/ sender'[e].disposed
  BY DEF SoundInv
<1>0. /\ SenderMove(e) /\ sender[e] \in Sender /\ Sound(sender[e])
      /\ calls[e] # 0 => sender[e].listed \/ sender[e].disposed
  BY SendersMove DEF Types, SenderType, SoundInv
<1>1. CASE sender'[e] = Disposed(sender[e]) /\ calls'[e] = calls[e]
  BY <1>0, <1>1, DisposedFields
<1>2. CASE (\E cs : sender'[e] = [sender[e] EXCEPT !.lost = cs]) /\ calls'[e] = calls[e]
  BY <1>0, <1>2 DEF Sender, Sound
<1>3. CASE sender'[e] = SenderFor(e)
  BY <1>0, <1>3, SenderForFields DEF Sound
<1>4. CASE sender'[e] = Armed(sender[e]) /\ calls'[e] = calls[e]
  BY <1>0, <1>4, ArmedFields
<1>5. ASSUME NEW s \in Session, NEW c \in Candidate, s[1] = e, Open(s),
             sender'[e] = Fed(sender[e], c), calls'[e] = calls[e]
      PROVE  /\ Sound(sender'[e])
             /\ calls'[e] # 0 => sender'[e].listed \/ sender'[e].disposed
  <2>1. calls[e] # 0
    <3>1. Born(s)
      BY <1>5 DEF Placed, Open, NewMedia
    <3>2. s[2] >= 1 /\ made[e] \in Nat /\ s[2] \in Nat
      BY <1>5, SessionIsPair, EndNumbers, CallMediaAssumption
    <3> QED
      BY <1>5, <3>1, <3>2, EndNumbers DEF Born
  <2> QED
    BY <1>0, <1>5, <2>1, FedFields
<1>6. CASE sender'[e] = Flushed(sender[e]) /\ calls'[e] = calls[e]
  BY <1>0, <1>6, FlushedFields
<1> QED
  BY <1>0, <1>1, <1>2, <1>3, <1>4, <1>5, <1>6 DEF SenderMove

----------------------------------------------------------------------------
(* Candidates on their way out.                                            *)

\* A step that makes, wires and closes no session, and takes nothing from a sender.
Steady == /\ UNCHANGED <<contexts, gathered>>
          /\ \A t \in Session : /\ media'[t].made = media[t].made
                                /\ media'[t].closed = media[t].closed
                                /\ media'[t].wired = media[t].wired
          /\ \A e \in End : sender'[e].listed => /\ sender[e].listed
                                                 /\ Held(sender'[e]) = Held(sender[e])

LEMMA StepKinds ==
    ASSUME Types, Placed, SoundInv, [Next]_vars
    PROVE  \/ Steady \/ Ignore
           \/ \E s \in Session : Gather(s) \/ EndsCall(s) \/ Fits(s)
           \/ \E e \in End, phase \in {"setup", "ringing"} : Makes(e, phase)
<1>0. Shape /\ "caller" \in End /\ "callee" \in End
  BY ShapeOfStep DEF End
<1>1. \A e \in End : sender[e] \in Sender /\ Sound(sender[e])
  BY DEF Types, SenderType, SoundInv
<1>2. \A e \in End : sender'[e] = sender[e] => /\ sender'[e].listed => sender[e].listed
                                               /\ Held(sender'[e]) = Held(sender[e])
  OBVIOUS
<1>3. CASE Rests
  <2>1. ASSUME NEW e \in End, sender'[e].listed
        PROVE  sender[e].listed /\ Held(sender'[e]) = Held(sender[e])
    <3>1. CASE sender'[e] = Disposed(sender[e])
      BY <1>1, <2>1, <3>1, DisposedFields
    <3>2. CASE \E cs : sender'[e] = [sender[e] EXCEPT !.lost = cs]
      <4>1. /\ sender'[e].listed = sender[e].listed /\ sender'[e].sent = sender[e].sent
            /\ sender'[e].queue = sender[e].queue /\ sender'[e].parked = sender[e].parked
        BY <1>1, <3>2 DEF Sender
      <4> QED
        BY <2>1, <4>1 DEF Held
    <3> QED
      BY <1>3, <2>1, <3>1, <3>2 DEF Rests
  <2> QED
    BY <1>3, <2>1 DEF Rests, QuietWork, Steady
<1>4. ASSUME NEW s \in Session, Awaits(s) \/ Sets(s) \/ Adds(s) PROVE Steady
  <2>1. UNCHANGED <<contexts, gathered, sender>>
    BY <1>4 DEF Awaits, Sets, Adds
  <2> QED
    BY <1>2, <1>4, <2>1, SameSessions DEF Steady, Same
<1>5. ASSUME NEW s \in Session, Describes(s) PROVE Steady
  <2>1. UNCHANGED <<contexts, gathered, sender>> /\ media' = [media EXCEPT ![s].described = TRUE]
    BY <1>5 DEF Describes
  <2>2. ASSUME NEW t \in Session
        PROVE  /\ media'[t].made = media[t].made /\ media'[t].closed = media[t].closed
               /\ media'[t].wired = media[t].wired
    BY <2>1 DEF Types, SessionTypes, MediaType
  <2> QED
    BY <1>2, <2>1, <2>2 DEF Steady
<1>6. CASE Stores
  BY <1>2, <1>6 DEF Stores, Steady
<1>7. CASE ArmsSender
  <2>1. PICK x \in sends : sender' = [sender EXCEPT ![x.ctx[1]] = Armed(sender[x.ctx[1]])]
    BY <1>7 DEF ArmsSender
  <2>2. \A e \in End : sender'[e] \in {sender[e], Armed(sender[e])}
    BY <2>1 DEF Types, SenderType
  <2>3. ASSUME NEW e \in End
        PROVE  sender'[e].listed = sender[e].listed /\ Held(sender'[e]) = Held(sender[e])
    BY <1>1, <2>2, ArmedFields
  <2> QED
    BY <1>7, <2>3 DEF ArmsSender, Steady
<1>8. ASSUME NEW f \in End, Flush(f) PROVE Steady
  <2>1. \A e \in End : sender'[e] \in {sender[e], Flushed(sender[e])}
    BY <1>8 DEF Flush, Flushed, Types, SenderType
  <2>2. ASSUME NEW e \in End
        PROVE  sender'[e].listed = sender[e].listed /\ Held(sender'[e]) = Held(sender[e])
    BY <1>1, <2>1, FlushedFields
  <2> QED
    BY <1>8, <2>2 DEF Flush, Steady, sessionVars
<1> QED
  BY <1>0, <1>3, <1>4, <1>5, <1>6, <1>7, <1>8 DEF Shape

\* Only the session of an end's current context feeds its sender.
WireInv ==
    \A s \in Session : /\ media[s].wired => Open(s)
                       /\ sender[s[1]].listed /\ media[s].wired => Has(s[1]) /\ s = Current(s[1])

LEMMA WireInit == Init => WireInv
<1> SUFFICES ASSUME Init, NEW s \in Session PROVE ~media[s].wired
  BY DEF WireInv
<1>1. media[s] = NewMedia
  BY DEF Init, SessionsInit
<1> QED
  BY <1>1 DEF NewMedia

\* Before an end has made a context, no session of it is wired.
LEMMA UnbornUnwired ==
    ASSUME Types, Placed, NEW e \in End, calls[e] = 0
    PROVE  \A s \in Session : s[1] = e => ~media[s].wired /\ gathered[s] = <<>>
<1> SUFFICES ASSUME NEW s \in Session, s[1] = e PROVE ~media[s].wired /\ gathered[s] = <<>>
  OBVIOUS
<1>1. made[e] = 0 /\ s[2] \in 1..MaxContexts /\ MaxContexts \in Nat
  BY SessionIsPair, EndNumbers, CallMediaAssumption
<1>2. ~Born(s)
  BY <1>1 DEF Born
<1> QED
  BY <1>2 DEF Placed, NewMedia

LEMMA WireStep ==
    ASSUME Types, Placed, SoundInv, WireInv, [Next]_vars
    PROVE  WireInv'
<1>0. /\ \A s \in Session : media[s] \in MediaType /\ s[1] \in End
      /\ \A e \in End : sender[e] \in Sender /\ Sound(sender[e])
      /\ "callee" \in End
  BY SessionIsPair DEF Types, SessionTypes, SenderType, SoundInv, End
<1>1. CASE Steady
  <2>1. \A e \in End : Has(e)' = Has(e) /\ Current(e)' = Current(e)
    BY <1>1 DEF Steady, Has, Current
  <2> QED
    BY <1>0, <1>1, <2>1 DEF Steady, WireInv, Open
<1>2. ASSUME NEW s \in Session, Gather(s) PROVE WireInv'
  <2>0. PICK c \in Candidate :
          /\ media[s].wired => sender'[s[1]] = Fed(sender[s[1]], c)
          /\ ~media[s].wired => sender'[s[1]] = sender[s[1]]
          /\ \A e \in End \ {s[1]} : sender'[e] = sender[e]
    BY <1>2, GatherSender
  <2>1. UNCHANGED <<media, contexts>> /\ \A e \in End : sender'[e].listed => sender[e].listed
    <3>1. UNCHANGED <<media, contexts>>
      BY <1>2, GatherSender DEF sessionVars, callVars
    <3>2. Fed(sender[s[1]], c).listed = sender[s[1]].listed
      BY <1>0 DEF Fed, Enqueued, Sender
    <3>3. ASSUME NEW e \in End, sender'[e].listed PROVE sender[e].listed
      BY <2>0, <3>2, <3>3
    <3> QED
      BY <3>1, <3>3
  <2> QED
    BY <1>0, <2>1 DEF WireInv, Open, Has, Current
<1>3. ASSUME NEW s \in Session, EndsCall(s) PROVE WireInv'
  <2>1. /\ media'[s] = Closed(media[s]) /\ \A t \in Session \ {s} : media'[t] = media[t]
        /\ ~sender'[s[1]].listed
        /\ \A e \in End \ {s[1]} : sender'[e] = sender[e] /\ contexts'[e] = contexts[e]
    BY <1>0, <1>3, DisposedFields DEF EndsCall, Closes, Types, SessionTypes, SenderType, ContextTypes
  <2>2. ~media'[s].wired
    BY <1>0, <2>1, ClosedFields
  <2> QED
    BY <1>0, <2>1, <2>2 DEF WireInv, Open, Has, Current
<1>4. CASE Ignore
  <2> DEFINE s == Current("callee")
  <2>1. s \in Session /\ s[1] = "callee"
    BY <1>0, <1>4, CurrentBorn DEF Ignore
  <2>2. /\ media' = [media EXCEPT ![s] = Closed(media[s])] /\ sender' = sender
        /\ contexts' = [contexts EXCEPT !["callee"] = 0]
    BY <1>4 DEF Ignore
  <2>3. \A t \in Session : t[1] = "callee" /\ sender["callee"].listed /\ media[t].wired => t = s
    BY DEF WireInv
  <2> HIDE DEF s
  <2>4. ~media'[s].wired /\ \A t \in Session \ {s} : media'[t] = media[t]
    BY <1>0, <2>1, <2>2, ClosedFields DEF Types, SessionTypes
  <2>5. \A e \in End \ {"callee"} : contexts'[e] = contexts[e]
    BY <2>2 DEF Types, ContextTypes
  <2> QED
    BY <1>0, <2>2, <2>3, <2>4, <2>5 DEF WireInv, Open, Has, Current
<1>5. ASSUME NEW e \in End, NEW phase, Makes(e, phase) PROVE WireInv'
  <2>1. PICK s \in Session : Birth(e, phase, s)
    BY <1>5, MakesBirth
  <2>2. /\ sender'[e] = SenderFor(e) /\ contexts[e] = 0
        /\ media'[s] \in {NewMedia, NewSession(SenderFor(e), <<>>)}
        /\ \A t \in Session \ {s} : media'[t] = media[t]
        /\ \A f \in End \ {e} : contexts'[f] = contexts[f] /\ sender'[f] = sender[f]
        /\ contexts'[e] = s[2] /\ s[1] = e
    BY <2>1 DEF Birth
  <2>3. media'[s].wired => Open(s)'
    BY <2>2, SessionMade DEF NewMedia, Open
  <2>4. Has(e)' /\ s = Current(e)'
    <3>1. s = <<e, s[2]>> /\ s[2] # 0
      BY <2>2, SessionIsPair, CallMediaAssumption
    <3> QED
      BY <2>2, <3>1 DEF Has, Current
  <2>5. ASSUME NEW t \in Session \ {s}, t[1] = e, sender'[e].listed PROVE ~media[t].wired
    <3>1. CASE calls[e] = 0
      BY <2>5, <3>1, UnbornUnwired
    <3>2. CASE calls[e] # 0
      BY <2>2, <2>5, <3>2, SenderForFields DEF WireInv, Has
    <3> QED
      BY <3>1, <3>2
  <2>6. ASSUME NEW t \in Session
        PROVE  /\ media'[t].wired => Open(t)'
               /\ sender'[t[1]].listed /\ media'[t].wired => Has(t[1])' /\ t = Current(t[1])'
    <3>1. CASE t = s
      BY <2>2, <2>3, <2>4, <3>1
    <3>2. CASE t # s /\ t[1] = e
      BY <2>2, <2>5, <3>2 DEF WireInv, Open
    <3>3. CASE t # s /\ t[1] # e
      BY <1>0, <2>2, <3>3 DEF WireInv, Open, Has, Current
    <3> QED
      BY <3>1, <3>2, <3>3
  <2> QED
    BY <2>6 DEF WireInv
<1>6. ASSUME NEW s \in Session, Fits(s) PROVE WireInv'
  <2>1. /\ UNCHANGED <<contexts, sender>> /\ Has(s[1]) /\ s = Current(s[1])
        /\ media'[s] = NewSession(sender[s[1]], ctx[s].waiting)
        /\ \A t \in Session \ {s} : media'[t] = media[t]
    BY <1>6 DEF Fits, Types, SessionTypes
  <2>2. Open(s)'
    BY <2>1, SessionMade DEF Open
  <2> QED
    BY <1>0, <2>1, <2>2 DEF WireInv, Open, Has, Current
<1> QED
  BY <1>1, <1>2, <1>3, <1>4, <1>5, <1>6, StepKinds

Passing == {c \in Candidate : Passes(c)}

LEMMA FilteredNothing ==
    ASSUME NEW S
    PROVE  Filtered(<<>>, S) = <<>>
<1>1. <<>> \in Seq(Nat) /\ Len(<<>>) = 0 /\ 0 \in Nat
  OBVIOUS
<1>2. PICK f : Keeps(f, <<>>, S, Len(<<>>)) /\ Filtered(<<>>, S) = f[Len(<<>>)]
  BY <1>1, FilteredKeeps
<1>3. Keeps(f, <<>>, S, 0)
  BY <1>1, <1>2
<1>4. f[0] = <<>>
  BY <1>1, <1>3, KeepsStep
<1> QED
  BY <1>1, <1>2, <1>4

\* A sender without a session holds nothing.
Idle(e) == /\ sender[e].listed
           /\ \A s \in Session : s[1] = e => ~media[s].wired

KeptInv == /\ CandidatesKept
           /\ \A e \in End : Idle(e) => Held(sender[e]) = <<>>

LEMMA KeptInit == Init => KeptInv
<1> SUFFICES ASSUME Init PROVE KeptInv
  OBVIOUS
<1>1. ASSUME NEW s \in Session PROVE ~media[s].wired
  <2>1. media[s] = NewMedia
    BY DEF Init, SessionsInit
  <2> QED
    BY <2>1 DEF NewMedia
<1>2. ASSUME NEW e \in End PROVE ~sender[e].listed
  <2>1. sender[e] = NoSender
    BY DEF Init
  <2> QED
    BY <2>1 DEF NoSender
<1> QED
  BY <1>1, <1>2 DEF KeptInv, CandidatesKept, Idle

LEMMA KeptMeans ==
    CandidatesKept <=>
        \A s \in Session :
            media[s].wired /\ sender[s[1]].listed => Held(sender[s[1]]) = Filtered(gathered[s], Passing)
BY DEF CandidatesKept, Held, Passing

LEMMA KeptMeansNext ==
    CandidatesKept' <=>
        \A s \in Session :
            media'[s].wired /\ sender'[s[1]].listed => Held(sender'[s[1]]) = Filtered(gathered'[s], Passing)
BY DEF CandidatesKept, Held, Passing

LEMMA KeptStep ==
    ASSUME Types, Placed, RingInv, SoundInv, WireInv, KeptInv, [Next]_vars
    PROVE  KeptInv'
<1>0. /\ \A s \in Session : media[s] \in MediaType /\ s[1] \in End
      /\ \A e \in End : sender[e] \in Sender /\ Sound(sender[e])
      /\ "callee" \in End
  BY SessionIsPair DEF Types, SessionTypes, SenderType, SoundInv, End
<1>a. /\ \A s \in Session : media[s].wired /\ sender[s[1]].listed =>
                                Held(sender[s[1]]) = Filtered(gathered[s], Passing)
      /\ \A e \in End : Idle(e) => Held(sender[e]) = <<>>
  BY KeptMeans DEF KeptInv
<1>b. ASSUME \A s \in Session : media'[s].wired /\ sender'[s[1]].listed =>
                                Held(sender'[s[1]]) = Filtered(gathered'[s], Passing),
             \A e \in End : Idle(e)' => Held(sender'[e]) = <<>>
      PROVE  KeptInv'
  BY <1>b, KeptMeansNext DEF KeptInv
<1>1. CASE Steady
  <2>1. \A s \in Session : media'[s].wired /\ sender'[s[1]].listed =>
                                Held(sender'[s[1]]) = Filtered(gathered'[s], Passing)
    BY <1>0, <1>1, <1>a DEF Steady
  <2>2. \A e \in End : Idle(e)' => Idle(e)
    BY <1>1 DEF Steady, Idle
  <2>3. \A e \in End : Idle(e)' => Held(sender'[e]) = Held(sender[e])
    BY <1>1 DEF Steady, Idle
  <2> QED
    BY <1>a, <1>b, <2>1, <2>2, <2>3
<1>2. ASSUME NEW s \in Session, Gather(s) PROVE KeptInv'
  <2>0. PICK c \in Candidate :
          /\ gathered'[s] = Append(gathered[s], c) /\ Open(s)
          /\ \A t \in Session \ {s} : gathered'[t] = gathered[t]
          /\ media[s].wired => sender'[s[1]] = Fed(sender[s[1]], c)
          /\ ~media[s].wired => sender'[s[1]] = sender[s[1]]
          /\ \A e \in End \ {s[1]} : sender'[e] = sender[e]
    BY <1>2, GatherSender
  <2>1. media' = media
    BY <1>2, GatherSender DEF sessionVars
  <2>2. CASE media[s].wired
    <3>1. sender'[s[1]] = Fed(sender[s[1]], c) /\ s[1] \in End
      BY <1>0, <2>0, <2>2
    <3>2. sender'[s[1]].listed = sender[s[1]].listed
      BY <1>0, <3>1 DEF Fed, Enqueued, Sender
    <3>3. ASSUME NEW t \in Session, media'[t].wired, sender'[t[1]].listed
          PROVE  Held(sender'[t[1]]) = Filtered(gathered'[t], Passing)
      <4>1. CASE t[1] # s[1]
        BY <1>0, <1>a, <2>0, <2>1, <3>3, <4>1
      <4>2. CASE t[1] = s[1]
        <5>1. t = s /\ sender[s[1]].listed
          BY <2>1, <2>2, <3>2, <3>3, <4>2 DEF WireInv
        <5>2. Held(sender[s[1]]) = Filtered(gathered[s], Passing)
          BY <1>a, <2>2, <5>1
        <5>3. Held(sender'[s[1]]) = IF Passes(c) THEN Append(Held(sender[s[1]]), c) ELSE Held(sender[s[1]])
          <6> DEFINE r == sender[s[1]]
          <6>1. r \in Sender /\ Sound(r) /\ r.listed /\ sender'[s[1]] = Fed(r, c)
            BY <1>0, <3>1, <5>1
          <6> HIDE DEF r
          <6>2. Held(Fed(r, c)) = IF Passes(c) THEN Append(Held(r), c) ELSE Held(r)
            BY <6>1, FedFields
          <6> QED
            BY <6>1, <6>2 DEF r
        <5>4. Filtered(gathered'[s], Passing) = IF c \in Passing THEN Append(Filtered(gathered[s], Passing), c)
                                                ELSE Filtered(gathered[s], Passing)
          <6>1. gathered[s] \in Seq(Candidate)
            BY DEF Types, LoadTypes
          <6> DEFINE g == gathered[s]
          <6>2. g \in Seq(Candidate) /\ gathered'[s] = Append(g, c)
            BY <2>0, <6>1
          <6> HIDE DEF g
          <6>3. Filtered(Append(g, c), Passing) = IF c \in Passing THEN Append(Filtered(g, Passing), c)
                                                  ELSE Filtered(g, Passing)
            BY <6>2, FilteredAppend
          <6> QED
            BY <6>2, <6>3 DEF g
        <5> QED
          BY <5>1, <5>2, <5>3, <5>4 DEF Passing
      <4> QED
        BY <4>1, <4>2
    <3>4. ASSUME NEW e \in End, Idle(e)' PROVE Held(sender'[e]) = <<>>
      <4>1. e # s[1]
        BY <2>1, <2>2, <3>4 DEF Idle
      <4>2. Idle(e) /\ sender'[e] = sender[e]
        BY <2>0, <2>1, <3>4, <4>1 DEF Idle
      <4> QED
        BY <1>a, <4>2
    <3> QED
      BY <1>b, <3>3, <3>4
  <2>3. CASE ~media[s].wired
    <3>1. \A e \in End : sender'[e] = sender[e]
      BY <2>0, <2>3
    <3>2. \A t \in Session : media'[t].wired => gathered'[t] = gathered[t]
      BY <2>0, <2>1, <2>3
    <3>3. \A e \in End : Idle(e)' => Idle(e)
      BY <2>1, <3>1 DEF Idle
    <3> QED
      BY <1>0, <1>a, <1>b, <2>1, <3>1, <3>2, <3>3
  <2> QED
    BY <2>2, <2>3
<1>3. ASSUME NEW s \in Session, EndsCall(s) PROVE KeptInv'
  <2>1. /\ \A t \in Session \ {s} : media'[t] = media[t]
        /\ ~sender'[s[1]].listed /\ gathered' = gathered
        /\ \A e \in End \ {s[1]} : sender'[e] = sender[e]
    BY <1>0, <1>3, DisposedFields DEF EndsCall, Closes, QuietWork, Types, SessionTypes, SenderType
  <2>2. \A e \in End : Idle(e)' => e # s[1] /\ Idle(e)
    BY <2>1 DEF Idle
  <2> QED
    BY <1>0, <1>a, <1>b, <2>1, <2>2
<1>4. CASE Ignore
  <2> DEFINE s == Current("callee")
  <2>1. s \in Session /\ s[1] = "callee"
    BY <1>0, <1>4, CurrentBorn DEF Ignore
  <2>2. /\ media' = [media EXCEPT ![s] = Closed(media[s])] /\ UNCHANGED <<sender, gathered>>
        /\ ctx[s].phase = "ringing"
    BY <1>4 DEF Ignore
  <2>3. \A t \in Session : t[1] = "callee" /\ sender["callee"].listed /\ media[t].wired => t = s
    BY DEF WireInv
  <2> HIDE DEF s
  <2>4. ~media'[s].wired /\ \A t \in Session \ {s} : media'[t] = media[t]
    BY <1>0, <2>1, <2>2, ClosedFields DEF Types, SessionTypes
  <2>5. gathered[s] = <<>>
    BY <2>1, <2>2 DEF RingInv, Early
  <2>6. ASSUME NEW e \in End, Idle(e)' PROVE Held(sender'[e]) = <<>>
    <3>1. CASE Idle(e)
      BY <1>a, <2>2, <3>1
    <3>2. CASE ~Idle(e)
      <4>1. e = "callee" /\ media[s].wired /\ sender[e].listed
        BY <2>1, <2>2, <2>4, <2>6, <3>2 DEF Idle
      <4>2. Held(sender[e]) = Filtered(<<>>, Passing)
        BY <1>a, <2>1, <2>5, <4>1
      <4> QED
        BY <2>2, <4>2, FilteredNothing
    <3> QED
      BY <3>1, <3>2
  <2> QED
    BY <1>a, <1>b, <2>2, <2>4, <2>6
<1>5. ASSUME NEW e \in End, NEW phase, Makes(e, phase) PROVE KeptInv'
  <2>1. PICK s \in Session : Birth(e, phase, s)
    BY <1>5, MakesBirth
  <2>2. /\ sender'[e] = SenderFor(e) /\ contexts[e] = 0 /\ s[1] = e
        /\ \A t \in Session \ {s} : media'[t] = media[t]
        /\ \A f \in End \ {e} : sender'[f] = sender[f]
        /\ gathered' = gathered /\ gathered[s] = <<>>
    BY <1>5, <2>1 DEF Birth, Makes, Placed
  <2>3. sender'[e].listed => Held(sender'[e]) = <<>> /\ \A t \in Session : t[1] = e => ~media[t].wired
    <3>1. CASE calls[e] = 0
      <4>1. Held(SenderFor(e)) = <<>>
        BY <3>1, SenderForFields DEF Held
      <4> QED
        BY <2>2, <3>1, <4>1, UnbornUnwired
    <3>2. CASE calls[e] # 0 /\ sender'[e].listed
      <4>1. sender'[e] = sender[e]
        BY <2>2, <3>2, SenderForFields
      <4>2. \A t \in Session : t[1] = e => ~media[t].wired
        BY <2>2, <3>2, <4>1 DEF WireInv, Has
      <4>3. Idle(e)
        BY <3>2, <4>1, <4>2 DEF Idle
      <4> QED
        BY <1>a, <4>1, <4>2, <4>3
    <3> QED
      BY <3>1, <3>2
  <2>4. ASSUME NEW t \in Session, media'[t].wired, sender'[t[1]].listed
        PROVE  Held(sender'[t[1]]) = Filtered(gathered'[t], Passing)
    <3>1. CASE t = s
      BY <2>2, <2>3, <2>4, <3>1, FilteredNothing
    <3>2. CASE t # s
      BY <1>0, <1>a, <2>2, <2>3, <2>4, <3>2
    <3> QED
      BY <3>1, <3>2
  <2>5. ASSUME NEW f \in End, Idle(f)' PROVE Held(sender'[f]) = <<>>
    <3>1. CASE f = e
      BY <2>3, <2>5, <3>1 DEF Idle
    <3>2. CASE f # e
      <4>1. Idle(f) /\ sender'[f] = sender[f]
        BY <2>2, <2>5, <3>2 DEF Idle
      <4> QED
        BY <1>a, <4>1
    <3> QED
      BY <3>1, <3>2
  <2> QED
    BY <1>b, <2>4, <2>5
<1>6. ASSUME NEW s \in Session, Fits(s) PROVE KeptInv'
  <2>1. /\ UNCHANGED <<gathered, sender>> /\ s = Current(s[1]) /\ ~media[s].made
        /\ ctx[s].phase = "ringing" /\ s[1] \in End
        /\ \A t \in Session \ {s} : media'[t] = media[t]
    BY <1>0, <1>6 DEF Fits, Types, SessionTypes
  <2>2. gathered[s] = <<>> /\ ~media[s].wired
    BY <2>1 DEF RingInv, Early, WireInv, Open
  <2>3. sender[s[1]].listed => Idle(s[1])
    BY <2>1, <2>2 DEF WireInv, Idle
  <2>4. sender[s[1]].listed => Held(sender[s[1]]) = <<>>
    BY <1>a, <2>1, <2>3
  <2>5. ASSUME NEW t \in Session, media'[t].wired, sender'[t[1]].listed
        PROVE  Held(sender'[t[1]]) = Filtered(gathered'[t], Passing)
    <3>1. CASE t = s
      BY <2>1, <2>2, <2>4, <2>5, <3>1, FilteredNothing
    <3>2. CASE t # s
      BY <1>a, <2>1, <2>5, <3>2
    <3> QED
      BY <3>1, <3>2
  <2>6. ASSUME NEW e \in End, Idle(e)' PROVE Held(sender'[e]) = <<>>
    <3>1. Idle(e)
      BY <2>1, <2>2, <2>6 DEF Idle
    <3> QED
      BY <1>a, <2>1, <3>1
  <2> QED
    BY <1>b, <2>5, <2>6
<1> QED
  BY <1>1, <1>2, <1>3, <1>4, <1>5, <1>6, StepKinds

\* TrickleIceSender (trickle-ice-sender.ts): while a session is wired to the sender, each
\* candidate it gathered was sent, is in the batch or is parked, in the order of gathering.
THEOREM MediaCandidatesKept == Spec => []CandidatesKept
<1> DEFINE Inv == Types /\ Placed /\ RingInv /\ SoundInv /\ WireInv /\ KeptInv
<1>1. Init => Inv
  BY TypesInit, PlacedInit, RingInit, SoundInit, WireInit, KeptInit
<1>2. Inv /\ [Next]_vars => Inv'
  BY TypesStep, PlacedStep, RingStep, SoundStep, WireStep, KeptStep
<1>3. Inv => CandidatesKept
  BY DEF KeptInv
<1> QED
  BY <1>1, <1>2, <1>3, PTL DEF Spec

----------------------------------------------------------------------------
(* Candidates on their way in.                                             *)

Cands(batches) == [i \in DOMAIN batches |-> batches[i].cands]
Given(q)       == FlattenSeq(Cands(Filtered(q, Batches)))

\* What an end has received.
Received(e) == SubSeq(swarm[e], 1, read[e])

LEMMA CandsFacts ==
    ASSUME NEW b \in Seq(Message)
    PROVE  /\ Cands(b) \in Seq(Seq(Candidate))
           /\ \A m \in Message : Cands(Append(b, m)) = Append(Cands(b), m.cands)
<1>1. Len(b) \in Nat /\ DOMAIN b = 1..Len(b)
  OBVIOUS
<1>2. ASSUME NEW i \in 1..Len(b) PROVE b[i].cands \in Seq(Candidate)
  <2>1. b[i] \in Message
    BY <1>1
  <2> QED
    BY <2>1 DEF Message
<1>3. Cands(b) \in Seq(Seq(Candidate)) /\ Len(Cands(b)) = Len(b)
      /\ \A i \in 1..Len(b) : Cands(b)[i] = b[i].cands
  <2>1. Cands(b) \in [1..Len(b) -> Seq(Candidate)] /\ Cands(b) = [i \in 1..Len(b) |-> b[i].cands]
    BY <1>1, <1>2 DEF Cands
  <2> QED
    BY <1>1, <2>1
<1>4. ASSUME NEW m \in Message PROVE Cands(Append(b, m)) = Append(Cands(b), m.cands)
  <2> DEFINE p == Append(b, m)
             c == Cands(b)
             d == Append(c, m.cands)
  <2>1. /\ p \in Seq(Message) /\ Len(p) = Len(b) + 1 /\ DOMAIN p = 1..(Len(b) + 1)
        /\ p[Len(b) + 1] = m /\ \A i \in 1..Len(b) : p[i] = b[i]
    BY <1>1
  <2>2. m.cands \in Seq(Candidate)
    BY DEF Message
  <2>3. Cands(p) = [i \in 1..(Len(b) + 1) |-> p[i].cands]
    BY <2>1 DEF Cands
  <2> HIDE DEF p, c
  <2>4. c \in Seq(Seq(Candidate)) /\ Len(c) = Len(b) /\ \A i \in 1..Len(b) : c[i] = b[i].cands
    BY <1>3 DEF c
  <2>5. /\ d \in Seq(Seq(Candidate)) /\ Len(d) = Len(b) + 1 /\ d[Len(b) + 1] = m.cands
        /\ \A i \in 1..Len(b) : d[i] = c[i]
    BY <1>1, <2>2, <2>4, AppendProperties
  <2> HIDE DEF d
  <2>6. ASSUME NEW i \in 1..(Len(b) + 1) PROVE d[i] = p[i].cands
    <3>1. i \in 1..Len(b) \/ i = Len(b) + 1
      BY <1>1
    <3> QED
      BY <2>1, <2>4, <2>5, <3>1
  <2>7. d = [i \in 1..(Len(b) + 1) |-> d[i]]
    BY <1>1, <2>5
  <2>8. d = [i \in 1..(Len(b) + 1) |-> p[i].cands]
    BY <2>6, <2>7
  <2> QED
    BY <2>3, <2>8 DEF p, c, d
<1> QED
  BY <1>3, <1>4

LEMMA GivenType ==
    ASSUME NEW q \in Seq(Message)
    PROVE  Given(q) \in Seq(Candidate)
<1>1. PICK b \in Seq(Message) : b = Filtered(q, Batches)
  BY FilteredElements
<1>2. PICK c \in Seq(Seq(Candidate)) : c = Cands(b)
  BY CandsFacts
<1>3. FlattenSeq(c) \in Seq(Candidate)
  BY FlattenElements
<1> QED
  BY <1>1, <1>2, <1>3 DEF Given

LEMMA GivenMore ==
    ASSUME NEW q \in Seq(Message), NEW m \in Message
    PROVE  /\ m.type = "ICE_CANDIDATES" => Given(Append(q, m)) = Given(q) \o m.cands
           /\ m.type # "ICE_CANDIDATES" => Given(Append(q, m)) = Given(q)
<1>1. m \in Batches <=> m.type = "ICE_CANDIDATES"
  BY DEF Batches
<1>2. PICK b \in Seq(Message) : b = Filtered(q, Batches)
  BY FilteredElements
<1>3. PICK c \in Seq(Seq(Candidate)) : c = Cands(b)
  BY CandsFacts
<1>4. PICK t \in Seq(Candidate) : t = m.cands
  BY DEF Message
<1>6. Given(q) = FlattenSeq(c)
  BY <1>2, <1>3 DEF Given
<1>7. Filtered(Append(q, m), Batches) = IF m \in Batches THEN Append(b, m) ELSE b
  BY <1>2, FilteredAppend
<1>8. Cands(Append(b, m)) = Append(c, t)
  BY <1>3, <1>4, CandsFacts
<1>9. FlattenSeq(Append(c, t)) = FlattenSeq(c) \o t
  BY FlattenAppend
<1>10. CASE m.type = "ICE_CANDIDATES"
  BY <1>1, <1>4, <1>6, <1>7, <1>8, <1>9, <1>10, Zenon DEF Given
<1>11. CASE m.type # "ICE_CANDIDATES"
  BY <1>1, <1>2, <1>6, <1>7, <1>11, Zenon DEF Given
<1> QED
  BY <1>10, <1>11

LEMMA GivenNothing ==
    ASSUME NEW q \in Seq(Message), \A i \in 1..Len(q) : q[i].type # "ICE_CANDIDATES"
    PROVE  Given(q) = <<>>
<1>1. PICK b \in Seq(Message) : b = Filtered(q, Batches)
  BY FilteredElements
<1>2. \A k \in 1..Len(b) : b[k] \in Batches /\ \E i \in 1..Len(q) : q[i] = b[k]
  BY <1>1, FilteredElements
<1>3. \A k \in 1..Len(b) : FALSE
  BY <1>2 DEF Batches
<1>4. b = <<>>
  BY <1>3
<1>5. PICK c \in Seq(Seq(Candidate)) : c = Cands(b)
  BY CandsFacts
<1>6. c = <<>>
  BY <1>4, <1>5 DEF Cands
<1>7. PICK f : Sums(f, c) /\ FlattenSeq(c) = f[Len(c)]
  BY FlattenSums
<1>8. f[0] = <<>> /\ Len(c) = 0
  BY <1>6, <1>7 DEF Sums
<1> QED
  BY <1>1, <1>5, <1>7, <1>8 DEF Given

\* What is read: a message that is no candidate of the peer's, or candidates.
Reads(e) == \/ read'[e] = read[e]
            \/ Arrives(e, "PRE_OFFER") \/ Arrives(e, "END_CALL")
            \/ e = "callee" /\ OnOffer
            \/ e = "caller" /\ OnAnswer
            \/ OnIceCandidates(e)

LEMMA ReadMoves ==
    ASSUME Types, [Next]_vars, NEW e \in End
    PROVE  Reads(e)
<1>0. DOMAIN read = End
  BY DEF Types
<1>1. read' = read => Reads(e)
  BY DEF Reads
<1>2. ASSUME NEW f \in End, f # e, read' = [read EXCEPT ![f] = read[f] + 1] PROVE Reads(e)
  BY <1>0, <1>2 DEF Reads
<1>3. CASE UNCHANGED vars
  BY <1>1, <1>3 DEF vars, callVars
<1>4. CASE Next
  <2>1. CASE Call \/ Accept \/ Ignore
    BY <1>1, <2>1 DEF Call, Accept, Ignore
  <2>2. CASE OnPreOffer
    BY <1>2, <2>2 DEF OnPreOffer, Arrives, Reads, End
  <2>3. CASE OnOffer
    BY <1>2, <2>3 DEF OnOffer, Arrives, Reads, End
  <2>4. CASE OnAnswer
    BY <1>2, <2>4 DEF OnAnswer, Arrives, Reads, End
  <2>5. ASSUME NEW f \in End, User(f) \/ Flush(f) PROVE Reads(e)
    BY <1>1, <2>5 DEF User, Leave, CallFails, Dispose, Flush
  <2>6. ASSUME NEW f \in End, Receive(f) PROVE Reads(e)
    BY <1>2, <2>6 DEF Receive, OnIceCandidates, OnEndCall, Arrives, Reads
  <2>7. ASSUME NEW s \in Session, Described(s) \/ RemoteSet(s) \/ OnHangupHint(s) \/ Gather(s) \/ Media(s)
        PROVE  Reads(e)
    BY <1>1, <2>7 DEF Described, RemoteSet, OnHangupHint, Gather, Media, WithLoad, Free, callVars
  <2>8. ASSUME NEW s \in Session, NEW what, MediaRejects(s, what) PROVE Reads(e)
    BY <1>1, <2>8 DEF MediaRejects
  <2>9. ASSUME NEW x \in sends, Store(x) \/ Resolve(x) \/ RejectSend(x) PROVE Reads(e)
    BY <1>1, <2>9 DEF Store, Resolve, RejectSend
  <2> QED
    BY <1>4, <2>1, <2>2, <2>3, <2>4, <2>5, <2>6, <2>7, <2>8, <2>9 DEF Next
<1> QED
  BY <1>3, <1>4

LEMMA SwarmMoves ==
    ASSUME Types, [Next]_vars
    PROVE  swarm' = swarm \/ \E x \in sends : Store(x)
<1>1. CASE UNCHANGED vars
  BY <1>1 DEF vars, callVars
<1>2. CASE Next
  <2>1. CASE Call \/ Accept \/ Ignore \/ OnPreOffer \/ OnOffer \/ OnAnswer
    BY <2>1 DEF Call, Accept, Ignore, OnPreOffer, OnOffer, OnAnswer
  <2>2. ASSUME NEW f \in End, User(f) \/ Flush(f) \/ Receive(f) PROVE swarm' = swarm
    BY <2>2 DEF User, Leave, CallFails, Dispose, Flush, Receive, OnIceCandidates, OnEndCall
  <2>3. ASSUME NEW s \in Session, Described(s) \/ RemoteSet(s) \/ OnHangupHint(s) \/ Gather(s) \/ Media(s)
        PROVE  swarm' = swarm
    BY <2>3 DEF Described, RemoteSet, OnHangupHint, Gather, Media, WithLoad, Free, callVars
  <2>4. ASSUME NEW s \in Session, NEW what, MediaRejects(s, what) PROVE swarm' = swarm
    BY <2>4 DEF MediaRejects
  <2>5. ASSUME NEW x \in sends, Resolve(x) \/ RejectSend(x) PROVE swarm' = swarm
    BY <2>5 DEF Resolve, RejectSend
  <2> QED
    BY <1>2, <2>1, <2>2, <2>3, <2>4, <2>5 DEF Next
<1> QED
  BY <1>1, <1>2

LEMMA MadeMoves ==
    ASSUME Types, [Next]_vars
    PROVE  made' = made \/ Call \/ OnPreOffer \/ OnOffer
<1>1. CASE UNCHANGED vars
  BY <1>1 DEF vars, callVars
<1>2. CASE Next
  <2>1. CASE Accept \/ Ignore \/ OnAnswer
    BY <2>1 DEF Accept, Ignore, OnAnswer
  <2>2. ASSUME NEW f \in End, User(f) \/ Flush(f) \/ Receive(f) PROVE made' = made
    BY <2>2 DEF User, Leave, CallFails, Dispose, Flush, Receive, OnIceCandidates, OnEndCall
  <2>3. ASSUME NEW s \in Session, Described(s) \/ RemoteSet(s) \/ OnHangupHint(s) \/ Gather(s) \/ Media(s)
        PROVE  made' = made
    BY <2>3 DEF Described, RemoteSet, OnHangupHint, Gather, Media, WithLoad, Free, callVars
  <2>4. ASSUME NEW s \in Session, NEW what, MediaRejects(s, what) PROVE made' = made
    BY <2>4 DEF MediaRejects
  <2>5. ASSUME NEW x \in sends, Store(x) \/ Resolve(x) \/ RejectSend(x) PROVE made' = made
    BY <2>5 DEF Store, Resolve, RejectSend
  <2> QED
    BY <1>2, <2>1, <2>2, <2>3, <2>4, <2>5 DEF Next
<1> QED
  BY <1>1, <1>2

\* What is in a swarm stays where it is.
LEMMA SwarmGrows ==
    ASSUME Types, [Next]_vars, NEW e \in End
    PROVE  /\ swarm[e] \in Seq(Message) /\ read[e] \in 0..Len(swarm[e]) /\ Len(swarm[e]) \in Nat
           /\ \/ swarm'[e] = swarm[e]
              \/ \E x \in sends : Store(x) /\ swarm'[e] = Append(swarm[e], x.msg)
           /\ \A i \in 1..Len(swarm[e]) : swarm'[e][i] = swarm[e][i]
           /\ \A n \in 0..Len(swarm[e]) : SubSeq(swarm'[e], 1, n) = SubSeq(swarm[e], 1, n)
<1> DEFINE q == swarm[e]
           p == swarm'[e]
<1>1. /\ q \in Seq(Message) /\ read[e] \in 0..Len(q) /\ Len(q) \in Nat
  BY DEF Types, PostTypes
<1>2. p = q \/ \E x \in sends : Store(x) /\ x.msg \in Message /\ p = Append(q, x.msg)
  <2>1. CASE swarm' = swarm
    BY <2>1
  <2>2. ASSUME NEW x \in sends, Store(x) PROVE x.msg \in Message /\ p \in {q, Append(q, x.msg)}
    <3>1. x.msg \in Message
      BY DEF Types, PostTypes, Send
    <3>2. p \in {q, Append(q, x.msg)}
      BY <2>2 DEF Store, Types, PostTypes
    <3> QED
      BY <3>1, <3>2
  <2> QED
    BY <2>1, <2>2, SwarmMoves
<1> HIDE DEF p, q
<1>3. p \in Seq(Message) /\ Len(p) >= Len(q) /\ \A i \in 1..Len(q) : p[i] = q[i]
  BY <1>1, <1>2
<1>4. ASSUME NEW n \in 0..Len(q) PROVE SubSeq(p, 1, n) = SubSeq(q, 1, n)
  <2>1. /\ Len(p) \in Nat /\ n \in Nat /\ \A i \in 1..n : i \in 1..Len(q) /\ p[i] = q[i]
        /\ n <= Len(p)
    BY <1>1, <1>3
  <2>2. SubSeq(p, 1, n) = [i \in 1..n |-> p[i]] /\ SubSeq(q, 1, n) = [i \in 1..n |-> q[i]]
    BY <1>1, <1>3, <2>1
  <2> QED
    BY <2>1, <2>2
<1> QED
  BY <1>1, <1>2, <1>3, <1>4 DEF p, q

LEMMA GivenMoves ==
    ASSUME Types, Types', [Next]_vars, NEW e \in End
    PROVE  /\ Given(Received(e)) \in Seq(Candidate)
           /\ IF OnIceCandidates(e)
              THEN /\ Next_(e).cands \in Seq(Candidate)
                   /\ Given(Received(e)') = Given(Received(e)) \o Next_(e).cands
              ELSE Given(Received(e)') = Given(Received(e))
<1> DEFINE q == swarm[e]
           n == read[e]
           k == read'[e]
           m == Next_(e)
<1>1. /\ q \in Seq(Message) /\ n \in 0..Len(q) /\ Len(q) \in Nat
      /\ \A i \in 0..Len(q) : SubSeq(swarm'[e], 1, i) = SubSeq(q, 1, i)
  BY SwarmGrows
<1>2. /\ k \in {n, n + 1} /\ (k = n \/ n < Len(q))
      /\ k = n \/ m.type # "ICE_CANDIDATES" \/ OnIceCandidates(e)
      /\ OnIceCandidates(e) => k = n + 1 /\ m.type = "ICE_CANDIDATES" /\ n < Len(q)
  <2>0. DOMAIN read = End
    BY DEF Types
  <2>1. \A type : Arrives(e, type) => k = n + 1 /\ n < Len(q) /\ m.type = type
    BY <2>0 DEF Arrives
  <2>2. OnIceCandidates(e) => Arrives(e, "ICE_CANDIDATES")
    BY DEF OnIceCandidates
  <2>3. e = "callee" /\ OnOffer => Arrives(e, "OFFER")
    BY DEF OnOffer
  <2>4. e = "caller" /\ OnAnswer => Arrives(e, "ANSWER")
    BY DEF OnAnswer
  <2>5. Reads(e)
    BY ReadMoves
  <2> HIDE DEF k, n, m, q
  <2>6. k = n \/ Arrives(e, "PRE_OFFER") \/ Arrives(e, "END_CALL") \/ Arrives(e, "OFFER")
        \/ Arrives(e, "ANSWER") \/ OnIceCandidates(e)
    BY <2>3, <2>4, <2>5 DEF Reads, k, n
  <2> QED
    BY <2>1, <2>2, <2>6
<1>3. m = q[n + 1]
  BY DEF Next_
<1>4. Received(e) = SubSeq(q, 1, n) /\ Received(e)' = SubSeq(swarm'[e], 1, k)
  BY DEF Received
<1> HIDE DEF q, n, k, m
<1>5. SubSeq(q, 1, n) \in Seq(Message)
  BY <1>1
<1>6. CASE k = n
  <2>1. Received(e)' = Received(e) /\ ~OnIceCandidates(e)
    BY <1>1, <1>2, <1>4, <1>6
  <2>2. Given(Received(e)) \in Seq(Candidate)
    BY <1>4, <1>5, GivenType
  <2> QED
    BY <2>1, <2>2
<1>7. CASE k = n + 1 /\ n < Len(q)
  <2>1. SubSeq(swarm'[e], 1, k) = SubSeq(q, 1, k) /\ m \in Message
    BY <1>1, <1>3, <1>7
  <2>2. SubSeq(q, 1, n + 1) = Append(SubSeq(q, 1, n), q[n + 1])
    BY <1>1, <1>7
  <2>3. Received(e)' = Append(Received(e), m)
    BY <1>3, <1>4, <1>7, <2>1, <2>2
  <2>4. m.cands \in Seq(Candidate)
    BY <2>1 DEF Message
  <2>5. Received(e) \in Seq(Message)
    BY <1>4, <1>5
  <2>6. /\ Given(Received(e)) \in Seq(Candidate)
        /\ m.type = "ICE_CANDIDATES" => Given(Append(Received(e), m)) = Given(Received(e)) \o m.cands
        /\ m.type # "ICE_CANDIDATES" => Given(Append(Received(e), m)) = Given(Received(e))
    BY <2>1, <2>5, GivenType, GivenMore
  <2> QED
    BY <1>1, <1>2, <1>7, <2>3, <2>4, <2>6 DEF m
<1> QED
  BY <1>2, <1>6, <1>7

\* Whoever has no context yet has received nothing that would need one, and before the
\* caller makes its own nobody has been sent anything.
UnreadInv ==
    /\ made["caller"] = 0 => made["callee"] = 0 /\ \A e \in End : swarm[e] = <<>>
    /\ \A e \in End : made[e] = 0 =>
           \A i \in 1..read[e] : swarm[e][i].type \in {"PRE_OFFER", "END_CALL"}

LEMMA UnreadInit == Init => UnreadInv
BY DEF Init, UnreadInv, End

LEMMA MadeStays ==
    ASSUME Types, Placed, [Next]_vars, NEW e \in End
    PROVE  /\ made[e] \in Nat /\ (made[e] # 0 => made'[e] # 0)
           /\ e = "callee" /\ (OnOffer \/ OnPreOffer) => made'[e] # 0
<1>0. made[e] \in Nat /\ contexts[e] <= made[e] /\ contexts[e] \in Nat
      /\ "caller" \in End /\ "callee" \in End
  BY EndNumbers DEF End
<1>1. ASSUME NEW f \in End, NEW phase, NEW record, NewContext(f, phase, record)
      PROVE  /\ f = e => made'[e] = made[e] + 1
             /\ f # e => made'[e] = made[e]
  BY <1>1 DEF NewContext, Types, ContextTypes
<1>2. CASE made' = made /\ ~OnOffer /\ ~OnPreOffer
  BY <1>0, <1>2
<1>3. CASE Call
  <2>1. NewContext("caller", "setup", SenderFor("caller"))
    BY <1>3 DEF Call
  <2>2. made'[e] \in {made[e], made[e] + 1} /\ (e = "callee" => made'[e] = made[e])
    BY <1>0, <1>1, <2>1
  <2>3. ~OnOffer /\ ~OnPreOffer
    <3>1. read' = read /\ read["callee"] \in Nat /\ DOMAIN read = End
      BY <1>0, <1>3 DEF Call, Types, PostTypes
    <3>2. ASSUME NEW type, Arrives("callee", type) PROVE read'["callee"] = read["callee"] + 1
      BY <1>0, <3>1, <3>2 DEF Arrives
    <3>3. ~Arrives("callee", "OFFER") /\ ~Arrives("callee", "PRE_OFFER")
      BY <3>1, <3>2
    <3> QED
      BY <3>3 DEF OnOffer, OnPreOffer
  <2> QED
    BY <1>0, <2>2, <2>3
<1>4. CASE OnPreOffer \/ OnOffer
  <2>1. (Has("callee") /\ made' = made) \/ NewContext("callee", "ringing", SenderFor("callee"))
    BY <1>4 DEF OnPreOffer, OnOffer
  <2>2. CASE Has("callee") /\ made' = made
    BY <1>0, <2>2 DEF Has
  <2>3. CASE NewContext("callee", "ringing", SenderFor("callee"))
    BY <1>0, <1>1, <2>3
  <2> QED
    BY <2>1, <2>2, <2>3
<1> QED
  BY <1>2, <1>3, <1>4, MadeMoves

LEMMA UnreadStep ==
    ASSUME Types, Placed, DescriptionFirst, UnreadInv, [Next]_vars
    PROVE  UnreadInv'
<1>0. "caller" \in End /\ "callee" \in End /\ DOMAIN read = End
      /\ \A e \in End : made'[e] = 0 => made[e] = 0
  BY MadeStays DEF End, Types
<1>1. ASSUME made'["caller"] = 0 PROVE made'["callee"] = 0 /\ swarm' = swarm
  <2>1. made["caller"] = 0 /\ made["callee"] = 0 /\ \A e \in End : swarm[e] = <<>>
    BY <1>0, <1>1 DEF UnreadInv
  <2>2. swarm' = swarm
    <3>1. ASSUME NEW x \in sends PROVE FALSE
      <4>1. x.ctx \in Session /\ Born(x.ctx)
        BY DEF Types, PostTypes, Send, Placed
      <4>2. x.ctx[1] \in {"caller", "callee"} /\ x.ctx[2] \in 1..MaxContexts /\ MaxContexts \in Nat
        BY <4>1, SessionIsPair, CallMediaAssumption DEF End
      <4> QED
        BY <2>1, <4>1, <4>2 DEF Born
    <3> QED
      BY <3>1, SwarmMoves
  <2>3. ~OnPreOffer /\ ~OnOffer
    <3>1. ~(read["callee"] < Len(swarm["callee"]))
      BY <1>0, <2>1 DEF Types, PostTypes
    <3> QED
      BY <3>1 DEF OnPreOffer, OnOffer, Arrives
  <2>4. Call => made'["caller"] # 0
    BY <2>1 DEF Call, NewContext, Types, ContextTypes, End
  <2>5. made' = made
    BY <1>1, <2>3, <2>4, MadeMoves
  <2> QED
    BY <2>1, <2>2, <2>5
<1>2. ASSUME NEW e \in End, made'[e] = 0, NEW i \in 1..read'[e]
      PROVE  swarm'[e][i].type \in {"PRE_OFFER", "END_CALL"}
  <2> DEFINE n == read[e]
  <2>1. /\ n \in Nat /\ n <= Len(swarm[e]) /\ Len(swarm[e]) \in Nat
        /\ \A j \in 1..Len(swarm[e]) : swarm'[e][j] = swarm[e][j]
    BY SwarmGrows
  <2>2. made[e] = 0 /\ \A j \in 1..n : swarm[e][j].type \in {"PRE_OFFER", "END_CALL"}
    BY <1>0, <1>2 DEF UnreadInv
  <2>3. CASE read'[e] = n
    BY <1>2, <2>1, <2>2, <2>3
  <2>4. ASSUME NEW type, Arrives(e, type), type \in {"PRE_OFFER", "END_CALL"}
        PROVE  swarm'[e][i].type \in {"PRE_OFFER", "END_CALL"}
    <3>1. read'[e] = n + 1 /\ n < Len(swarm[e]) /\ swarm[e][n + 1].type = type
      BY <1>0, <2>4 DEF Arrives, Next_
    <3> QED
      BY <1>2, <2>1, <2>2, <2>4, <3>1, SMTT(30)
  <2>5. ~(e = "callee" /\ OnOffer)
    BY <1>2, MadeStays
  <2>6. ~(e = "caller" /\ OnAnswer)
    <3>1. e = "caller" => Len(swarm["caller"]) = 0
      BY <1>0, <2>2 DEF UnreadInv
    <3> QED
      BY <2>1, <3>1 DEF OnAnswer, Arrives
  <2>7. ~OnIceCandidates(e)
    <3> SUFFICES ASSUME OnIceCandidates(e) PROVE FALSE
      OBVIOUS
    <3>1. n < Len(swarm[e]) /\ swarm[e][n + 1].type = "ICE_CANDIDATES"
      BY DEF OnIceCandidates, Arrives, Next_
    <3>2. n + 1 \in 1..Len(swarm[e]) /\ DOMAIN swarm[e] = 1..Len(swarm[e])
      BY <2>1, <3>1, SwarmGrows
    <3>3. PICK j \in 1..((n + 1) - 1) : swarm[e][j].type \in {"OFFER", "ANSWER"}
      BY <3>1, <3>2 DEF DescriptionFirst
    <3> QED
      BY <2>1, <2>2, <3>3
  <2> QED
    BY <2>3, <2>4, <2>5, <2>6, <2>7, ReadMoves DEF Reads
<1>3. made'["caller"] = 0 => \A e \in End : swarm'[e] = <<>>
  BY <1>0, <1>1 DEF UnreadInv
<1> QED
  BY <1>1, <1>2, <1>3 DEF UnreadInv

LEMMA UnreadGivesNothing ==
    ASSUME Types, UnreadInv, NEW e \in End, made[e] = 0
    PROVE  Given(Received(e)) = <<>>
<1> DEFINE q == Received(e)
<1>1. /\ swarm[e] \in Seq(Message) /\ read[e] \in 0..Len(swarm[e])
      /\ \A i \in 1..read[e] : swarm[e][i].type # "ICE_CANDIDATES"
  BY DEF Types, PostTypes, UnreadInv
<1>2. q \in Seq(Message) /\ Len(q) = read[e] /\ \A i \in 1..read[e] : q[i] = swarm[e][i]
  BY <1>1 DEF Received
<1> HIDE DEF q
<1>3. \A i \in 1..Len(q) : q[i].type # "ICE_CANDIDATES"
  BY <1>1, <1>2
<1>4. Given(q) = <<>>
  BY <1>2, <1>3, GivenNothing
<1> QED
  BY <1>4 DEF q

\* What a session was given, or will be, with what waits for it.
Taken(m, waiting) == m.injected \o m.parked \o (IF m.made THEN <<>> ELSE waiting)

\* Nothing is parked before there is a session or after the remote description.
Sane(m) == /\ ~m.made => m.injected = <<>> /\ m.parked = <<>>
           /\ m.remote => m.parked = <<>>

LEMMA TakenFacts ==
    ASSUME NEW m \in MediaType, Sane(m), NEW w \in Seq(Candidate)
    PROVE  /\ Taken(m, w) \in Seq(Candidate)
           /\ m.made => Taken(m, w) = m.injected \o m.parked
           /\ ~m.made => Taken(m, w) = w
<1>1. m.injected \in Seq(Candidate) /\ m.parked \in Seq(Candidate) /\ <<>> \in Seq(Candidate)
  BY DEF MediaType
<1>2. \A q \in Seq(Candidate) : q \o <<>> = q /\ <<>> \o q = q
  BY ConcatEmptySeq
<1>3. m.injected \o m.parked \in Seq(Candidate)
  BY <1>1
<1>4. CASE m.made
  BY <1>2, <1>3, <1>4 DEF Taken
<1>5. CASE ~m.made
  BY <1>1, <1>2, <1>5 DEF Taken, Sane
<1> QED
  BY <1>4, <1>5

LEMMA TakenAdds ==
    ASSUME NEW m \in MediaType, Sane(m), NEW w \in Seq(Candidate), NEW cs \in Seq(Candidate),
           ~m.closed
    PROVE  LET k == AddRemoteCandidates(m, cs)
           IN  IF m.made THEN Taken(k, w) = Taken(m, w) \o cs
               ELSE Taken(m, w \o cs) = Taken(m, w) \o cs
<1> DEFINE k == AddRemoteCandidates(m, cs)
<1>1. m.injected \in Seq(Candidate) /\ m.parked \in Seq(Candidate) /\ w \o cs \in Seq(Candidate)
  BY DEF MediaType
<1>2. \A q \in Seq(Candidate) : q \o <<>> = q
  BY ConcatEmptySeq
<1>3. CASE ~m.made
  BY <1>1, <1>3, TakenFacts
<1>4. CASE m.made
  <2>1. /\ k \in MediaType /\ k.made
        /\ k.remote = m.remote
        /\ IF m.remote THEN k.parked = m.parked /\ k.injected = m.injected \o cs
           ELSE k.parked = m.parked \o cs /\ k.injected = m.injected
    BY <1>4, AddRemoteFields, AddRemoteType
  <2> HIDE DEF k
  <2>2. Sane(k)
    BY <2>1 DEF Sane
  <2>3. PICK i \in Seq(Candidate), p \in Seq(Candidate) : i = m.injected /\ p = m.parked
    BY <1>1
  <2>4. Taken(k, w) = k.injected \o k.parked /\ Taken(m, w) = i \o p
    BY <1>4, <2>1, <2>2, <2>3, TakenFacts
  <2>5. CASE m.remote
    <3>1. k.injected = i \o cs /\ k.parked = <<>> /\ p = <<>>
      BY <2>1, <2>3, <2>5 DEF Sane
    <3>2. i \o cs \in Seq(Candidate)
      OBVIOUS
    <3>3. (i \o cs) \o <<>> = i \o cs /\ i \o <<>> = i
      BY <1>2, <3>2
    <3>4. Taken(k, w) = i \o cs /\ Taken(m, w) = i
      BY <2>4, <3>1, <3>3, Zenon
    <3> QED
      BY <1>4, <3>4, Zenon DEF k
  <2>6. CASE ~m.remote
    <3>1. k.injected = i /\ k.parked = p \o cs
      BY <2>1, <2>3, <2>6
    <3>2. i \o (p \o cs) = (i \o p) \o cs
      BY ConcatAssociative, SMTT(30)
    <3>3. Taken(k, w) = Taken(m, w) \o cs
      BY <2>4, <3>1, <3>2, Zenon
    <3> QED
      BY <1>4, <3>3, Zenon DEF k
  <2> QED
    BY <2>5, <2>6
<1> QED
  BY <1>3, <1>4

LEMMA TakenStays ==
    ASSUME NEW m \in MediaType, Sane(m), NEW w \in Seq(Candidate)
    PROVE  /\ Sane(RemoteDescribed(m)) /\ Taken(RemoteDescribed(m), w) = Taken(m, w)
           /\ LET k == [m EXCEPT !.described = TRUE] IN Sane(k) /\ Taken(k, w) = Taken(m, w)
           /\ Sane(Closed(m)) /\ \A cs : m.made => Sane(AddRemoteCandidates(m, cs))
<1>1. m.injected \in Seq(Candidate) /\ m.parked \in Seq(Candidate) /\ <<>> \in Seq(Candidate)
  BY DEF MediaType
<1>2. \A q \in Seq(Candidate) : q \o <<>> = q
  BY ConcatEmptySeq
<1>3. Sane(RemoteDescribed(m)) /\ Taken(RemoteDescribed(m), w) = Taken(m, w)
  <2> DEFINE k == RemoteDescribed(m)
  <2>1. /\ k \in MediaType /\ k.made = m.made /\ k.parked = <<>> /\ k.injected = m.injected \o m.parked
    BY RemoteDescribedFields, RemoteDescribedType
  <2> HIDE DEF k
  <2>2. Sane(k)
    BY <1>1, <1>2, <2>1 DEF Sane
  <2>3. m.injected \o m.parked \in Seq(Candidate)
    BY <1>1
  <2>4. ASSUME m.made PROVE Taken(k, w) = Taken(m, w)
    <3>1. Taken(m, w) = m.injected \o m.parked
      BY <2>4, TakenFacts
    <3>2. Taken(k, w) = k.injected \o k.parked
      BY <2>1, <2>2, <2>4, TakenFacts
    <3>3. (m.injected \o m.parked) \o <<>> = m.injected \o m.parked
      BY <1>2, <2>3, Zenon
    <3> QED
      BY <2>1, <3>1, <3>2, <3>3, Zenon
  <2>5. ASSUME ~m.made PROVE Taken(k, w) = Taken(m, w)
    <3>1. Taken(m, w) = w
      BY <2>5, TakenFacts
    <3>2. ~k.made
      BY <2>1, <2>5
    <3>3. Taken(k, w) = w
      BY <2>1, <2>2, <3>2, TakenFacts
    <3> QED
      BY <3>1, <3>3
  <2> QED
    BY <2>2, <2>4, <2>5 DEF k
<1>4. LET k == [m EXCEPT !.described = TRUE] IN Sane(k) /\ Taken(k, w) = Taken(m, w)
  <2> DEFINE k == [m EXCEPT !.described = TRUE]
  <2>1. k.injected = m.injected /\ k.parked = m.parked /\ k.made = m.made /\ k.remote = m.remote
    BY DEF MediaType
  <2> HIDE DEF k
  <2>2. Sane(k) /\ Taken(k, w) = Taken(m, w)
    BY <2>1 DEF Sane, Taken
  <2> QED
    BY <2>2 DEF k
<1>5. Sane(Closed(m))
  <2> DEFINE k == Closed(m)
  <2>1. k.made = m.made /\ k.parked = <<>> /\ k.injected = m.injected
    BY ClosedFields
  <2> HIDE DEF k
  <2>2. Sane(k)
    BY <2>1 DEF Sane
  <2> QED
    BY <2>2 DEF k
<1>6. ASSUME NEW cs, m.made PROVE Sane(AddRemoteCandidates(m, cs))
  <2> DEFINE k == AddRemoteCandidates(m, cs)
  <2>1. k.made /\ k.remote = m.remote /\ (m.remote => k.parked = m.parked)
    BY <1>6, AddRemoteFields, SMTT(30)
  <2> HIDE DEF k
  <2>2. Sane(k)
    BY <2>1 DEF Sane
  <2> QED
    BY <2>2 DEF k
<1> QED
  BY <1>3, <1>4, <1>5, <1>6

LEMMA TakenNew ==
    ASSUME NEW record \in Sender, NEW w \in Seq(Candidate)
    PROVE  LET k == NewSession(record, w)
           IN  Sane(k) /\ ~k.closed /\ \A v : Taken(k, v) = w
<1> DEFINE k == NewSession(record, w)
<1>1. k.made /\ ~k.closed /\ ~k.remote /\ k.parked = w /\ k.injected = <<>>
  BY NewSessionFields
<1> HIDE DEF k
<1>2. <<>> \o w = w /\ w \o <<>> = w
  BY ConcatEmptySeq
<1>3. Sane(k) /\ \A v : Taken(k, v) = w
  BY <1>1, <1>2 DEF Sane, Taken
<1> QED
  BY <1>1, <1>3 DEF k

\* What a step does to a session and to the candidates that wait for it.
Turns(t) ==
    \/ /\ media'[t] = media[t] /\ ctx'[t].waiting = ctx[t].waiting
       /\ contexts'[t[1]] \in {0, contexts[t[1]]} \/ contexts'[t[1]] # t[2]
    \/ media'[t] = Closed(media[t]) /\ contexts'[t[1]] = 0
    \/ /\ made[t[1]] = t[2] - 1 /\ ctx'[t].waiting = <<>>
       /\ media'[t] \in {NewMedia, NewSession(SenderFor(t[1]), <<>>)}
    \/ /\ UNCHANGED <<contexts, ctx>> /\ ~media[t].made
       /\ media'[t] = NewSession(sender[t[1]], ctx[t].waiting)
    \/ /\ UNCHANGED <<contexts, ctx>>
       /\ media'[t] \in {RemoteDescribed(media[t]), [media[t] EXCEPT !.described = TRUE]}
    \/ Arrives(t[1], "ICE_CANDIDATES") /\ Adds(t)

LEMMA ShapeTurns ==
    ASSUME Types, Placed, [Next]_vars, NEW t \in Session
    PROVE  Turns(t)
<1>0. /\ Shape /\ t[1] \in End /\ t[2] \in Nat /\ DOMAIN media = Session /\ DOMAIN ctx = Session
      /\ DOMAIN contexts = End /\ "caller" \in End /\ "callee" \in End
      /\ DOMAIN ctx[t] = {"phase", "waiting"}
  BY ShapeOfStep, SessionIsPair, CallMediaAssumption DEF Types, SessionTypes, ContextTypes, End
<1>1. CASE Rests
  BY <1>0, <1>1 DEF Rests, Turns
<1>2. CASE Stores \/ ArmsSender \/ \E e \in End : Flush(e)
  BY <1>2 DEF Stores, ArmsSender, Flush, sessionVars, Turns
<1>3. ASSUME NEW s \in Session,
             media' = [media EXCEPT ![s] = Closed(media[s])],
             contexts' = [contexts EXCEPT ![s[1]] = 0],
             ctx' = [ctx EXCEPT ![s].phase = "over"]
      PROVE  Turns(t)
  <2>1. s[1] \in End /\ contexts'[s[1]] = 0 /\ contexts'[t[1]] \in {0, contexts[t[1]]}
    BY <1>0, <1>3, SessionIsPair
  <2>2. CASE s = t
    BY <1>0, <1>3, <2>1, <2>2 DEF Turns
  <2>3. CASE s # t
    BY <1>0, <1>3, <2>1, <2>3 DEF Turns
  <2> QED
    BY <2>2, <2>3
<1>4. ASSUME NEW s \in Session, EndsCall(s) PROVE Turns(t)
  BY <1>3, <1>4 DEF EndsCall, Closes
<1>5. CASE Ignore
  <2>1. Has("callee")
    BY <1>5 DEF Ignore
  <2>2. PICK s \in Session : s = Current("callee") /\ s[1] = "callee"
    BY <1>0, <2>1, CurrentBorn
  <2> QED
    BY <1>3, <1>5, <2>2 DEF Ignore
<1>6. ASSUME NEW e \in End, NEW phase, Makes(e, phase) PROVE Turns(t)
  <2>1. PICK s \in Session : Birth(e, phase, s)
    BY <1>6, MakesBirth
  <2>2. CASE s = t
    <3>1. made[t[1]] = t[2] - 1
      BY <2>1, <2>2 DEF Birth
    <3>2. ctx'[t].waiting = <<>> /\ media'[t] \in {NewMedia, NewSession(SenderFor(t[1]), <<>>)}
      BY <2>1, <2>2 DEF Birth
    <3> QED
      BY <3>1, <3>2 DEF Turns
  <2>3. CASE s # t
    <3>1. media'[t] = media[t] /\ ctx'[t].waiting = ctx[t].waiting
      BY <2>1, <2>3 DEF Birth
    <3>2. CASE t[1] # e
      BY <1>0, <2>1, <3>1, <3>2 DEF Birth, Turns
    <3>3. CASE t[1] = e
      <4>1. t[2] # s[2]
        BY <2>1, <2>3, <3>3, SessionIsPair DEF Birth
      <4> QED
        BY <2>1, <3>1, <3>3, <4>1 DEF Birth, Turns
    <3> QED
      BY <3>2, <3>3
  <2> QED
    BY <2>2, <2>3
<1>7. ASSUME NEW s \in Session, Fits(s) PROVE Turns(t)
  BY <1>0, <1>7 DEF Fits, Turns
<1>8. ASSUME NEW s \in Session, Awaits(s) \/ Gather(s) PROVE Turns(t)
  BY <1>8 DEF Awaits, Gather, sessionVars, callVars, Turns
<1>9. ASSUME NEW s \in Session, Sets(s) \/ Describes(s) PROVE Turns(t)
  BY <1>0, <1>9 DEF Sets, Describes, Turns
<1>10. ASSUME NEW s \in Session, Adds(s) PROVE Turns(t)
  <2>1. CASE s = t
    BY <1>10, <2>1 DEF Adds, Turns
  <2>2. CASE s # t
    BY <1>0, <1>10, <2>2 DEF Adds, Turns
  <2> QED
    BY <2>1, <2>2
<1> QED
  BY <1>0, <1>1, <1>2, <1>4, <1>5, <1>6, <1>7, <1>8, <1>9, <1>10 DEF Shape

\* What comes for the candidates' sake is handled as candidates.
LEMMA IceArrives ==
    ASSUME Types, [Next]_vars, NEW e \in End, Arrives(e, "ICE_CANDIDATES")
    PROVE  OnIceCandidates(e)
<1>1. DOMAIN read = End /\ read[e] \in Nat
  BY DEF Types, PostTypes
<1>2. read'[e] = read[e] + 1
  BY <1>1 DEF Arrives
<1>3. \A type : Arrives(e, type) => type = "ICE_CANDIDATES"
  BY DEF Arrives
<1>4. ~(e = "callee" /\ OnOffer) /\ ~(e = "caller" /\ OnAnswer)
  BY <1>3 DEF OnOffer, OnAnswer
<1>5. read'[e] # read[e]
  BY <1>1, <1>2
<1> QED
  BY <1>3, <1>4, <1>5, ReadMoves DEF Reads

SaneInv == \A s \in Session : Sane(media[s])

LEMMA SaneInit == Init => SaneInv
<1>1. Sane(NewMedia)
  BY DEF Sane, NewMedia
<1> QED
  BY <1>1 DEF Init, SessionsInit, SaneInv

LEMMA SaneStep ==
    ASSUME Types, Placed, SaneInv, [Next]_vars
    PROVE  SaneInv'
<1> SUFFICES ASSUME NEW t \in Session PROVE Sane(media'[t])
  BY DEF SaneInv
<1>1. /\ Turns(t) /\ media[t] \in MediaType /\ Sane(media[t]) /\ t[1] \in End
      /\ ctx[t].waiting \in Seq(Candidate) /\ sender[t[1]] \in Sender
      /\ SenderFor(t[1]) \in Sender /\ <<>> \in Seq(Candidate)
  <2>1. t[1] \in End
    BY SessionIsPair
  <2>2. media[t] \in MediaType /\ Sane(media[t])
    BY DEF SaneInv, Types, SessionTypes
  <2>3. ctx[t].waiting \in Seq(Candidate) /\ sender[t[1]] \in Sender
    BY <2>1 DEF Types, ContextTypes, SenderType
  <2>4. SenderFor(t[1]) \in Sender
    BY <2>1, SenderForFields
  <2> QED
    BY <2>1, <2>2, <2>3, <2>4, ShapeTurns
<1>2. CASE media'[t] = media[t]
  BY <1>1, <1>2
<1>3. CASE media'[t] = NewMedia
  BY <1>3 DEF Sane, NewMedia
<1>4. CASE media'[t] \in {Closed(media[t]), RemoteDescribed(media[t]),
                       [media[t] EXCEPT !.described = TRUE]}
  <2>1. /\ Sane(Closed(media[t])) /\ Sane(RemoteDescribed(media[t]))
        /\ Sane([media[t] EXCEPT !.described = TRUE])
    BY <1>1, TakenStays
  <2> QED
    BY <1>4, <2>1
<1>5. CASE media'[t] \in {NewSession(SenderFor(t[1]), <<>>), NewSession(sender[t[1]], ctx[t].waiting)}
  <2>1. Sane(NewSession(SenderFor(t[1]), <<>>))
    BY <1>1, TakenNew
  <2>2. Sane(NewSession(sender[t[1]], ctx[t].waiting))
    BY <1>1, TakenNew
  <2> QED
    BY <1>5, <2>1, <2>2
<1>6. CASE Adds(t)
  <2>1. \/ media'[t] = media[t]
        \/ media[t].made /\ media'[t] = AddRemoteCandidates(media[t], Next_(t[1]).cands)
    BY <1>6 DEF Adds, Types, SessionTypes
  <2> QED
    BY <1>1, <2>1, TakenStays
<1> QED
  BY <1>1, <1>2, <1>3, <1>4, <1>5, <1>6 DEF Turns

\* The first context of an end, as long as it is current, was given all that came.
DropInv ==
    \A s \in Session : s[2] = 1 /\ contexts[s[1]] = 1 =>
        ~media[s].closed /\ Taken(media[s], ctx[s].waiting) = Given(Received(s[1]))

LEMMA DropInit == Init => DropInv
BY SessionIsPair DEF Init, DropInv

LEMMA DropStep ==
    ASSUME Types, Types', Placed, UnreadInv, SaneInv, DropInv, [Next]_vars
    PROVE  DropInv'
<1> SUFFICES ASSUME NEW s \in Session, s[2] = 1, contexts'[s[1]] = 1
             PROVE  /\ ~media'[s].closed
                    /\ Taken(media'[s], ctx'[s].waiting) = Given(Received(s[1]))'
  BY DEF DropInv
<1> DEFINE e == s[1]
<1>1. /\ Turns(s) /\ media[s] \in MediaType /\ Sane(media[s]) /\ e \in End
      /\ ctx[s].waiting \in Seq(Candidate) /\ sender[e] \in Sender
      /\ SenderFor(e) \in Sender /\ <<>> \in Seq(Candidate)
  <2>1. e \in End
    BY SessionIsPair
  <2>2. media[s] \in MediaType /\ Sane(media[s])
    BY DEF SaneInv, Types, SessionTypes
  <2>3. ctx[s].waiting \in Seq(Candidate) /\ sender[e] \in Sender
    BY <2>1 DEF Types, ContextTypes, SenderType
  <2>4. SenderFor(e) \in Sender
    BY <2>1, SenderForFields
  <2> QED
    BY <2>1, <2>2, <2>3, <2>4, ShapeTurns
<1>2. PICK old : old = Given(Received(e))
  OBVIOUS
<1>3. PICK new : new = Given(Received(e))'
  OBVIOUS
<1>4. ~OnIceCandidates(e) => new = old
  BY <1>1, <1>2, <1>3, GivenMoves
<1>5. contexts[e] = 1 => ~media[s].closed /\ Taken(media[s], ctx[s].waiting) = old
  BY <1>2 DEF DropInv
<1>6. ASSUME OnIceCandidates(e)
      PROVE  ~media'[s].closed /\ Taken(media'[s], ctx'[s].waiting) = new
  <2>1. PICK cs \in Seq(Candidate) : cs = Next_(e).cands /\ new = old \o cs
    BY <1>1, <1>2, <1>3, <1>6, GivenMoves
  <2>2. contexts' = contexts
    BY <1>6 DEF OnIceCandidates
  <2>3. Has(e) /\ s = Current(e)
    BY <2>2, SessionIsPair DEF Has, Current
  <2>4. IF media[s].made
        THEN media' = [media EXCEPT ![s] = AddRemoteCandidates(media[s], cs)] /\ ctx' = ctx
        ELSE ctx' = [ctx EXCEPT ![s].waiting = ctx[s].waiting \o cs] /\ media' = media
    BY <1>6, <2>1, <2>3 DEF OnIceCandidates
  <2>5. ~media[s].closed /\ Taken(media[s], ctx[s].waiting) = old
    BY <1>5, <2>2
  <2>6. IF media[s].made
        THEN Taken(AddRemoteCandidates(media[s], cs), ctx[s].waiting) = new
        ELSE Taken(media[s], ctx[s].waiting \o cs) = new
    BY <1>1, <2>1, <2>5, TakenAdds
  <2>7. CASE media[s].made
    <3>1. media'[s] = AddRemoteCandidates(media[s], cs) /\ ctx'[s] = ctx[s]
      BY <2>4, <2>7 DEF Types, SessionTypes
    <3>2. ~media'[s].closed
      BY <1>1, <2>5, <3>1, AddRemoteFields
    <3> QED
      BY <2>6, <2>7, <3>1, <3>2
  <2>8. CASE ~media[s].made
    <3>1. media'[s] = media[s] /\ ctx'[s].waiting = ctx[s].waiting \o cs
      BY <2>4, <2>8, SMTT(30) DEF Types, ContextTypes
    <3> QED
      BY <2>5, <2>6, <2>8, <3>1
  <2> QED
    BY <2>7, <2>8
<1>7. ASSUME ~OnIceCandidates(e)
      PROVE  ~media'[s].closed /\ Taken(media'[s], ctx'[s].waiting) = new
  <2>0. new = old /\ contexts[e] \in Nat /\ made[e] \in Nat
    BY <1>1, <1>4, <1>7 DEF Types, ContextTypes
  <2>1. CASE /\ media'[s] = media[s] /\ ctx'[s].waiting = ctx[s].waiting
             /\ contexts'[e] \in {0, contexts[e]} \/ contexts'[e] # s[2]
    BY <1>5, <2>0, <2>1
  <2>2. CASE /\ made[e] = s[2] - 1 /\ ctx'[s].waiting = <<>>
             /\ media'[s] \in {NewMedia, NewSession(SenderFor(e), <<>>)}
    <3>1. made[e] = 0
      BY <2>2
    <3>2. old = <<>>
      BY <1>1, <1>2, <3>1, UnreadGivesNothing
    <3>3. CASE media'[s] = NewMedia
      <4>1. Taken(NewMedia, <<>>) = <<>> /\ ~NewMedia.closed
        BY <1>1, ConcatEmptySeq DEF Taken, NewMedia
      <4> QED
        BY <2>0, <2>2, <3>2, <3>3, <4>1
    <3>4. CASE media'[s] = NewSession(SenderFor(e), <<>>)
      <4>1. PICK k : k = NewSession(SenderFor(e), <<>>)
        OBVIOUS
      <4>2. ~k.closed /\ Taken(k, <<>>) = <<>>
        BY <1>1, <4>1, TakenNew
      <4> QED
        BY <2>0, <2>2, <3>2, <3>4, <4>1, <4>2
    <3> QED
      BY <2>2, <3>3, <3>4
  <2>3. CASE /\ UNCHANGED <<contexts, ctx>> /\ ~media[s].made
             /\ media'[s] = NewSession(sender[e], ctx[s].waiting)
    <3>1. Taken(media[s], ctx[s].waiting) = ctx[s].waiting
      BY <1>1, <2>3, TakenFacts
    <3>2. ~media'[s].closed /\ Taken(media'[s], ctx[s].waiting) = ctx[s].waiting
      BY <1>1, <2>3, TakenNew
    <3> QED
      BY <1>5, <2>0, <2>3, <3>1, <3>2
  <2>4. CASE /\ UNCHANGED <<contexts, ctx>>
             /\ media'[s] \in {RemoteDescribed(media[s]), [media[s] EXCEPT !.described = TRUE]}
    <3>1. Taken(media'[s], ctx[s].waiting) = Taken(media[s], ctx[s].waiting)
      BY <1>1, <2>4, TakenStays
    <3>2. media'[s].closed = media[s].closed
      BY <1>1, <2>4, RemoteDescribedFields DEF MediaType
    <3> QED
      BY <1>5, <2>0, <2>4, <3>1, <3>2
  <2>5. ~Arrives(e, "ICE_CANDIDATES")
    BY <1>1, <1>7, IceArrives
  <2> QED
    BY <1>1, <2>1, <2>2, <2>3, <2>4, <2>5 DEF Turns
<1> QED
  BY <1>3, <1>6, <1>7

\* Candidates that come before the media session wait in the context (supervisor.ts:770-794),
\* and those that come before the remote description in the session
\* (peer-connection.ts:184-207 and 337-344): between the two none of the peer's is lost,
\* given twice or out of order.
THEOREM MediaNoCandidateDropped == Spec => []NoCandidateDropped
<1> DEFINE Inv == /\ Types /\ Placed /\ OrderInv /\ UnreadInv /\ SaneInv /\ DropInv
<1>1. Init => Inv
  BY TypesInit, PlacedInit, OrderInit, UnreadInit, SaneInit, DropInit
<1>2. Inv /\ [Next]_vars => Inv'
  <2>1. OrderInv => DescriptionFirst
    BY DEF OrderInv
  <2> QED
    BY <2>1, TypesStep, PlacedStep, OrderStep, UnreadStep, SaneStep, DropStep
<1>3. Inv => NoCandidateDropped
  <2> SUFFICES ASSUME Types, DropInv, NEW e \in End, contexts[e] = 1
               PROVE  LET s == <<e, 1>>
                          batches == Filtered(SubSeq(swarm[e], 1, read[e]), Batches)
                      IN  media[s].injected \o media[s].parked
                              \o (IF media[s].made THEN <<>> ELSE ctx[s].waiting)
                            = FlattenSeq([i \in DOMAIN batches |-> batches[i].cands])
    BY DEF NoCandidateDropped
  <2>1. PICK s \in Session : s = <<e, 1>> /\ s[1] = e /\ s[2] = 1
    <3>1. 1 \in 1..MaxContexts
      BY CallMediaAssumption DEF Types, ContextTypes
    <3> QED
      BY <3>1, NumberedSession
  <2>2. Taken(media[s], ctx[s].waiting) = Given(Received(e))
    BY <2>1 DEF DropInv
  <2> QED
    BY <2>1, <2>2, Zenon DEF Taken, Given, Received, Cands
<1> QED
  BY <1>1, <1>2, <1>3, PTL DEF Spec

----------------------------------------------------------------------------
(* Munging.                                                                *)

\* An fmtp that has to ask for a constant bit rate.
IsForced(sdp, l) == l.kind = "fmtp" /\ l.pt \in OpusPts(sdp)

\* The first rtpmap of a payload type that has no fmtp behind it.
Lacks(sdp, i) == /\ sdp[i].kind = "rtpmap" /\ sdp[i].pt \notin FmtpPts(sdp)
                 /\ \A h \in Rtpmaps(sdp, sdp[i].pt) : h >= i

Parts(sdp) == [i \in DOMAIN sdp |-> Rewritten(sdp, i)]

LEMMA RewrittenCases ==
    ASSUME NEW raw \in Seq(Line), NEW i \in 1..Len(raw)
    PROVE  /\ raw[i] \in Line /\ Rewritten(raw, i) \in Seq(Line)
           /\ \/ raw[i].kind = "level" /\ Rewritten(raw, i) = <<>>
              \/ IsForced(raw, raw[i]) /\ Rewritten(raw, i) = <<[raw[i] EXCEPT !.cbr = TRUE]>>
              \/ Lacks(raw, i) /\ Rewritten(raw, i) = <<raw[i], Fmtp(raw[i].pt)>>
              \/ /\ raw[i].kind # "level" /\ ~IsForced(raw, raw[i]) /\ ~Lacks(raw, i)
                 /\ Rewritten(raw, i) = <<raw[i]>>
<1> DEFINE line == raw[i]
           one  == [line EXCEPT !.cbr = TRUE]
           new  == Fmtp(line.pt)
<1>1. line \in Line /\ one \in Line /\ new \in Line
  <2>1. line \in Line
    OBVIOUS
  <2> QED
    BY <2>1 DEF Line, Fmtp
<1>2. <<>> \in Seq(Line) /\ <<line>> \in Seq(Line) /\ <<one>> \in Seq(Line) /\ <<line, new>> \in Seq(Line)
  <2> HIDE DEF line, one, new
  <2> QED
    BY <1>1
<1>3. CASE line.kind = "level"
  <2>1. Rewritten(raw, i) = <<>>
    BY <1>3 DEF Rewritten
  <2> QED
    BY <1>1, <1>2, <1>3, <2>1
<1>4. CASE IsForced(raw, line)
  <2>1. Rewritten(raw, i) = <<one>>
    BY <1>4 DEF Rewritten, IsForced
  <2> QED
    BY <1>1, <1>2, <1>4, <2>1
<1>5. CASE Lacks(raw, i)
  <2>1. Rewritten(raw, i) = <<line, new>>
    BY <1>5 DEF Rewritten, Lacks
  <2> QED
    BY <1>1, <1>2, <1>5, <2>1
<1>6. CASE line.kind # "level" /\ ~IsForced(raw, line) /\ ~Lacks(raw, i)
  <2>1. Rewritten(raw, i) = <<line>>
    BY <1>6 DEF Rewritten, IsForced, Lacks
  <2> QED
    BY <1>1, <1>2, <1>6, <2>1
<1> QED
  BY <1>3, <1>4, <1>5, <1>6

LEMMA PartsType ==
    ASSUME NEW raw \in Seq(Line)
    PROVE  /\ Parts(raw) \in Seq(Seq(Line)) /\ Len(Parts(raw)) = Len(raw) /\ Len(raw) \in Nat
           /\ \A i \in 1..Len(raw) : Parts(raw)[i] = Rewritten(raw, i)
           /\ MungeLocalSdp(raw) = FlattenSeq(Parts(raw))
<1>1. DOMAIN raw = 1..Len(raw) /\ Len(raw) \in Nat
  OBVIOUS
<1>2. Parts(raw) \in [1..Len(raw) -> Seq(Line)]
  BY <1>1, RewrittenCases DEF Parts
<1>3. \A i \in 1..Len(raw) : Parts(raw)[i] = Rewritten(raw, i)
  BY <1>1 DEF Parts
<1>4. MungeLocalSdp(raw) = FlattenSeq(Parts(raw))
  BY DEF MungeLocalSdp, Parts
<1> QED
  BY <1>1, <1>2, <1>3, <1>4

LEMMA OpusMeans ==
    ASSUME NEW raw \in Seq(Line), NEW pt
    PROVE  pt \in OpusPts(raw) <=> \E i \in 1..Len(raw) : raw[i].kind = "rtpmap" /\ raw[i].pt = pt
<1>1. DOMAIN raw = 1..Len(raw)
  OBVIOUS
<1> QED
  BY <1>1 DEF OpusPts, Rtpmaps

\* What a munged description consists of.
LEMMA MungedElements ==
    ASSUME NEW raw \in Seq(Line)
    PROVE  LET sdp == MungeLocalSdp(raw)
           IN  /\ sdp \in Seq(Line)
               /\ \A k \in 1..Len(sdp) :
                     /\ sdp[k].kind # "level"
                     /\ IsForced(raw, sdp[k]) => sdp[k].cbr
                     /\ sdp[k].kind = "rtpmap" => \E i \in 1..Len(raw) : raw[i] = sdp[k]
<1> DEFINE sdp == MungeLocalSdp(raw)
           parts == Parts(raw)
<1>1. /\ parts \in Seq(Seq(Line)) /\ Len(parts) = Len(raw) /\ sdp = FlattenSeq(parts)
      /\ \A i \in 1..Len(raw) : parts[i] = Rewritten(raw, i)
  BY PartsType
<1> HIDE DEF sdp, parts
<1>2. sdp \in Seq(Line) /\ Joins(parts, sdp, Len(raw))
  BY <1>1, FlattenElements
<1>3. ASSUME NEW k \in 1..Len(sdp)
      PROVE  /\ sdp[k].kind # "level"
             /\ IsForced(raw, sdp[k]) => sdp[k].cbr
             /\ sdp[k].kind = "rtpmap" => \E i \in 1..Len(raw) : raw[i] = sdp[k]
  <2>1. PICK i \in 1..Len(raw) : \E a \in 1..Len(parts[i]) : sdp[k] = parts[i][a]
    BY <1>2 DEF Joins
  <2>2. PICK a \in 1..Len(Rewritten(raw, i)) : sdp[k] = Rewritten(raw, i)[a]
    BY <1>1, <2>1
  <2>3. raw[i] \in Line
    BY RewrittenCases
  <2>4. CASE raw[i].kind = "level" /\ Rewritten(raw, i) = <<>>
    BY <2>2, <2>4
  <2>5. CASE IsForced(raw, raw[i]) /\ Rewritten(raw, i) = <<[raw[i] EXCEPT !.cbr = TRUE]>>
    <3>0. PICK one : one = [raw[i] EXCEPT !.cbr = TRUE]
      OBVIOUS
    <3>1. sdp[k] = [raw[i] EXCEPT !.cbr = TRUE]
      <4>1. Rewritten(raw, i) = <<one>>
        BY <2>5, <3>0
      <4>2. sdp[k] = one
        BY <2>2, <4>1
      <4> QED
        BY <3>0, <4>2
    <3>2. sdp[k].kind = "fmtp" /\ sdp[k].cbr
      BY <2>3, <2>5, <3>1 DEF Line, IsForced
    <3> QED
      BY <3>2
  <2>6. CASE Lacks(raw, i) /\ Rewritten(raw, i) = <<raw[i], Fmtp(raw[i].pt)>>
    <3>1. sdp[k] = raw[i] \/ sdp[k] = Fmtp(raw[i].pt)
      BY <2>2, <2>6
    <3>2. CASE sdp[k] = raw[i]
      BY <2>6, <3>2 DEF Lacks, IsForced
    <3>3. CASE sdp[k] = Fmtp(raw[i].pt)
      BY <3>3 DEF Fmtp
    <3> QED
      BY <3>1, <3>2, <3>3
  <2>7. CASE raw[i].kind # "level" /\ ~IsForced(raw, raw[i]) /\ Rewritten(raw, i) = <<raw[i]>>
    <3>1. sdp[k] = raw[i]
      BY <2>2, <2>7
    <3> QED
      BY <2>7, <3>1
  <2> QED
    BY <2>4, <2>5, <2>6, <2>7, RewrittenCases
<1> QED
  BY <1>2, <1>3 DEF sdp

\* Behind an rtpmap of each Opus payload type there is an fmtp for it.
LEMMA MungedHasFmtps ==
    ASSUME NEW raw \in Seq(Line), NEW pt \in OpusPts(raw)
    PROVE  LET sdp == MungeLocalSdp(raw)
           IN  \E k, l \in 1..Len(sdp) :
                  /\ k < l /\ sdp[k].kind = "rtpmap" /\ sdp[k].pt = pt
                  /\ sdp[l].kind = "fmtp" /\ sdp[l].pt = pt
<1> DEFINE sdp == MungeLocalSdp(raw)
           parts == Parts(raw)
<1>1. /\ parts \in Seq(Seq(Line)) /\ Len(parts) = Len(raw) /\ sdp = FlattenSeq(parts)
      /\ \A i \in 1..Len(raw) : parts[i] = Rewritten(raw, i)
      /\ Len(raw) \in Nat /\ DOMAIN raw = 1..Len(raw)
  BY PartsType
<1> HIDE DEF sdp, parts
<1>2. ASSUME NEW i \in 1..Len(raw), raw[i].kind = "rtpmap", raw[i].pt = pt
      PROVE  1 \in 1..Len(parts[i]) /\ parts[i][1] = raw[i]
  <2>1. ~IsForced(raw, raw[i]) /\ raw[i].kind # "level"
    BY <1>2 DEF IsForced
  <2>2. \/ parts[i] = <<raw[i], Fmtp(raw[i].pt)>>
        \/ parts[i] = <<raw[i]>>
    BY <1>1, <2>1, RewrittenCases
  <2> QED
    BY <2>2
<1>3. CASE pt \in FmtpPts(raw)
  <2>1. PICK j \in 1..Len(raw) : /\ raw[j].kind = "fmtp" /\ raw[j].pt = pt
                                 /\ \E i \in Rtpmaps(raw, pt) : i < j
    BY <1>1, <1>3 DEF FmtpPts
  <2>2. PICK i \in 1..Len(raw) : i < j /\ raw[i].kind = "rtpmap" /\ raw[i].pt = pt
    BY <1>1, <2>1 DEF Rtpmaps
  <2>3. raw[j] \in Line /\ parts[j] = <<[raw[j] EXCEPT !.cbr = TRUE]>>
    <3>1. IsForced(raw, raw[j]) /\ raw[j].kind # "level" /\ ~Lacks(raw, j)
      BY <2>1 DEF IsForced, Lacks
    <3> QED
      BY <1>1, <3>1, RewrittenCases
  <2>4. 1 \in 1..Len(parts[j]) /\ parts[j][1].kind = "fmtp" /\ parts[j][1].pt = pt
    BY <2>1, <2>3 DEF Line
  <2>5. 1 \in 1..Len(parts[i]) /\ parts[i][1] = raw[i]
    BY <1>2, <2>2
  <2>6. \E k, l \in 1..Len(sdp) : k < l /\ sdp[k] = parts[i][1] /\ sdp[l] = parts[j][1]
    <3>1. /\ i \in 1..Len(parts) /\ j \in 1..Len(parts) /\ 1 \in 1..Len(parts[i])
          /\ 1 \in 1..Len(parts[j])
          /\ (i < j \/ (i = j /\ 1 < 1))
      BY <1>1, <2>2, <2>4, <2>5
    <3>2. Before(FlattenSeq(parts), parts[i][1], parts[j][1])
      BY <1>1, <3>1, FlattenInTurn
    <3> QED
      BY <1>1, <3>2 DEF Before
  <2> QED
    BY <2>2, <2>4, <2>5, <2>6 DEF sdp
<1>4. CASE pt \notin FmtpPts(raw)
  <2>1. Rtpmaps(raw, pt) \in SUBSET Nat /\ Rtpmaps(raw, pt) # {}
    BY <1>1 DEF Rtpmaps, OpusPts
  <2>2. PICK i \in Rtpmaps(raw, pt) : \A h \in Rtpmaps(raw, pt) : i <= h
    BY <2>1, Least
  <2>3. i \in 1..Len(raw) /\ raw[i].kind = "rtpmap" /\ raw[i].pt = pt
    BY <1>1 DEF Rtpmaps
  <2>4. Lacks(raw, i)
    BY <1>4, <2>1, <2>2, <2>3 DEF Lacks
  <2>5. parts[i] = <<raw[i], Fmtp(pt)>>
    BY <1>1, <2>3, <2>4, RewrittenCases DEF IsForced
  <2>6. /\ 1 \in 1..Len(parts[i]) /\ 2 \in 1..Len(parts[i]) /\ parts[i][1] = raw[i]
        /\ parts[i][2].kind = "fmtp" /\ parts[i][2].pt = pt
    BY <2>5 DEF Fmtp
  <2>7. \E k, l \in 1..Len(sdp) : k < l /\ sdp[k] = parts[i][1] /\ sdp[l] = parts[i][2]
    <3>1. /\ i \in 1..Len(parts) /\ i \in 1..Len(parts) /\ 1 \in 1..Len(parts[i])
          /\ 2 \in 1..Len(parts[i])
          /\ (i < i \/ (i = i /\ 1 < 2))
      BY <1>1, <2>3, <2>6
    <3>2. Before(FlattenSeq(parts), parts[i][1], parts[i][2])
      BY <1>1, <3>1, FlattenInTurn
    <3> QED
      BY <1>1, <3>2 DEF Before
  <2> QED
    BY <2>3, <2>6, <2>7 DEF sdp
<1> QED
  BY <1>3, <1>4

\* Munging leaves the lines that are not its business, in their order.
LEMMA MungedOthers ==
    ASSUME NEW raw \in Seq(Line), NEW S, S = {l \in Line : ~IsForced(raw, l) /\ l.kind # "level"}
    PROVE  Filtered(MungeLocalSdp(raw), S) = Filtered(raw, S)
<1> DEFINE parts == Parts(raw)
<1>1. /\ parts \in Seq(Seq(Line)) /\ Len(parts) = Len(raw) /\ MungeLocalSdp(raw) = FlattenSeq(parts)
      /\ \A i \in 1..Len(raw) : parts[i] = Rewritten(raw, i)
      /\ Len(raw) \in Nat
  BY PartsType
<1> HIDE DEF parts
<1>2. PICK f : Sums(f, parts) /\ FlattenSeq(parts) = f[Len(parts)]
  BY <1>1, FlattenSums
<1>3. \A n \in 0..Len(raw) : f[n] \in Seq(Line)
  <2>1. \A i \in 1..Len(parts) : parts[i] \in Seq(Line)
    BY <1>1, FlattenSums
  <2> QED
    BY <1>1, <1>2, <2>1, SumsTyped
<1> DEFINE Kept(n) == Filtered(f[n], S) = Filtered(SubSeq(raw, 1, n), S)
           Good == {n \in Nat : Kept(n)}
<1>4. 0 \in Good
  <2>1. f[0] = <<>> /\ SubSeq(raw, 1, 0) = <<>>
    BY <1>1, <1>2 DEF Sums
  <2>2. Kept(0)
    BY <2>1
  <2> HIDE DEF Kept
  <2> QED
    BY <2>2
<1>5. ASSUME NEW n \in 0..(Len(raw) - 1), n \in Good
      PROVE  n + 1 \in Good
  <2> DEFINE old == f[n]
             pre == SubSeq(raw, 1, n)
             line == raw[n + 1]
             one == [line EXCEPT !.cbr = TRUE]
             new == Fmtp(line.pt)
  <2>1. /\ n + 1 \in 1..Len(raw) /\ n \in Nat /\ old \in Seq(Line) /\ pre \in Seq(Line)
        /\ line \in Line /\ SubSeq(raw, 1, n + 1) = Append(pre, line)
    BY <1>1, <1>3
  <2>2. f[n + 1] = old \o Rewritten(raw, n + 1)
    BY <1>1, <1>2, <2>1 DEF Sums, Joined
  <2>3. Filtered(old, S) = Filtered(pre, S)
    BY <1>5
  <2>4. one \in Line /\ new \in Line
    BY <2>1 DEF Line, Fmtp
  <2>5. Filtered(Append(pre, line), S) = IF line \in S THEN Append(Filtered(pre, S), line)
                                         ELSE Filtered(pre, S)
    <3> HIDE DEF pre, line
    <3> QED
      BY <2>1, FilteredAppend
  <2>6. Kept(n + 1)
    <3>0. SUFFICES Filtered(old \o Rewritten(raw, n + 1), S) = Filtered(Append(pre, line), S)
      BY <2>1, <2>2
    <3>1. CASE line.kind = "level" /\ Rewritten(raw, n + 1) = <<>>
      <4>1. line \notin S /\ old \o <<>> = old
        BY <2>1, <3>1
      <4> QED
        BY <2>3, <2>5, <3>1, <4>1, Zenon
    <3>2. CASE IsForced(raw, line) /\ Rewritten(raw, n + 1) = <<one>>
      <4>1. one \notin S /\ line \notin S
        <5>1. one.kind = line.kind /\ one.pt = line.pt
          BY <2>1 DEF Line
        <5>2. IsForced(raw, one)
          BY <3>2, <5>1 DEF IsForced
        <5> QED
          BY <3>2, <5>2
      <4> HIDE DEF old, one
      <4>2. old \o <<one>> = Append(old, one)
        BY <2>1, <2>4
      <4>3. Filtered(Append(old, one), S) = Filtered(old, S)
        BY <2>1, <2>4, <4>1, FilteredAppend
      <4> QED
        BY <2>3, <2>5, <3>2, <4>1, <4>2, <4>3, Zenon
    <3>3. CASE Lacks(raw, n + 1) /\ Rewritten(raw, n + 1) = <<line, new>>
      <4>1. new \notin S
        <5>1. line.pt \in OpusPts(raw)
          BY <2>1, <3>3, OpusMeans DEF Lacks
        <5>2. IsForced(raw, new)
          BY <5>1 DEF IsForced, Fmtp
        <5> QED
          BY <5>2
      <4> HIDE DEF old, line, new
      <4>2. old \o <<line, new>> = Append(Append(old, line), new) /\ Append(old, line) \in Seq(Line)
        BY <2>1, <2>4
      <4>3. Filtered(Append(Append(old, line), new), S) = Filtered(Append(old, line), S)
        BY <2>4, <4>1, <4>2, FilteredAppend
      <4>4. Filtered(Append(old, line), S) = IF line \in S THEN Append(Filtered(old, S), line)
                                             ELSE Filtered(old, S)
        BY <2>1, FilteredAppend
      <4> QED
        BY <2>3, <2>5, <3>3, <4>2, <4>3, <4>4, Zenon
    <3>4. CASE Rewritten(raw, n + 1) = <<line>>
      <4> HIDE DEF old, line
      <4>1. old \o <<line>> = Append(old, line)
        BY <2>1
      <4>2. Filtered(Append(old, line), S) = IF line \in S THEN Append(Filtered(old, S), line)
                                             ELSE Filtered(old, S)
        BY <2>1, FilteredAppend
      <4> QED
        BY <2>3, <2>5, <3>4, <4>1, <4>2, Zenon
    <3> HIDE DEF old, pre, one, new
    <3> QED
      BY <2>1, <3>1, <3>2, <3>3, <3>4, RewrittenCases DEF one, new
  <2> HIDE DEF Kept
  <2> QED
    BY <2>1, <2>6
<1>6. \A n \in 0..Len(raw) : n \in Good
  <2> HIDE DEF Good
  <2> QED
    BY <1>1, <1>4, <1>5, Induction
<1>7. Kept(Len(raw))
  <2> HIDE DEF Kept
  <2> QED
    BY <1>1, <1>6
<1>8. SubSeq(raw, 1, Len(raw)) = raw
  BY <1>1
<1> QED
  BY <1>1, <1>2, <1>7, <1>8

\* A munged description is munged.
LEMMA MungedAgain ==
    ASSUME NEW raw \in Seq(Line)
    PROVE  MungeLocalSdp(MungeLocalSdp(raw)) = MungeLocalSdp(raw)
<1> DEFINE sdp == MungeLocalSdp(raw)
<1>1. /\ sdp \in Seq(Line)
      /\ \A k \in 1..Len(sdp) :
            /\ sdp[k].kind # "level"
            /\ IsForced(raw, sdp[k]) => sdp[k].cbr
            /\ sdp[k].kind = "rtpmap" => \E i \in 1..Len(raw) : raw[i] = sdp[k]
  BY MungedElements
<1>2. \A pt \in OpusPts(raw) :
         \E k, l \in 1..Len(sdp) :
            /\ k < l /\ sdp[k].kind = "rtpmap" /\ sdp[k].pt = pt
            /\ sdp[l].kind = "fmtp" /\ sdp[l].pt = pt
  BY MungedHasFmtps
<1> HIDE DEF sdp
<1>3. \A pt : pt \in OpusPts(sdp) => pt \in OpusPts(raw)
  <2> TAKE pt
  <2> HAVE pt \in OpusPts(sdp)
  <2>1. PICK k \in 1..Len(sdp) : sdp[k].kind = "rtpmap" /\ sdp[k].pt = pt
    BY <1>1, OpusMeans
  <2>2. PICK i \in 1..Len(raw) : raw[i] = sdp[k]
    BY <1>1, <2>1
  <2> QED
    BY <2>1, <2>2, OpusMeans
<1>4. ASSUME NEW i \in 1..Len(sdp)
      PROVE  Rewritten(sdp, i) = <<sdp[i]>>
  <2>1. sdp[i] \in Line
    BY <1>1
  <2>2. CASE IsForced(sdp, sdp[i])
    <3>1. sdp[i].cbr
      BY <1>1, <1>3, <2>2 DEF IsForced
    <3>2. PICK one : one = [sdp[i] EXCEPT !.cbr = TRUE]
      OBVIOUS
    <3>3. one = sdp[i]
      BY <2>1, <3>1, <3>2 DEF Line
    <3>4. ~Lacks(sdp, i)
      BY <2>2 DEF IsForced, Lacks
    <3>5. Rewritten(sdp, i) = <<one>>
      BY <1>1, <2>2, <3>2, <3>4, RewrittenCases
    <3> QED
      BY <3>3, <3>5
  <2>3. CASE sdp[i].kind = "rtpmap"
    <3>1. sdp[i].pt \in OpusPts(raw)
      BY <1>1, <1>3, <2>3, OpusMeans
    <3>2. PICK k \in 1..Len(sdp), l \in 1..Len(sdp) :
            /\ k < l /\ sdp[k].kind = "rtpmap" /\ sdp[k].pt = sdp[i].pt
            /\ sdp[l].kind = "fmtp" /\ sdp[l].pt = sdp[i].pt
      BY <1>2, <3>1
    <3>3. DOMAIN sdp = 1..Len(sdp)
      BY <1>1
    <3>4. sdp[i].pt \in FmtpPts(sdp)
      BY <3>2, <3>3 DEF FmtpPts, Rtpmaps
    <3>5. ~Lacks(sdp, i) /\ ~IsForced(sdp, sdp[i])
      BY <2>3, <3>4 DEF Lacks, IsForced
    <3> QED
      BY <1>1, <3>5, RewrittenCases
  <2>4. CASE ~IsForced(sdp, sdp[i]) /\ sdp[i].kind # "rtpmap"
    <3>1. ~Lacks(sdp, i) /\ sdp[i].kind # "level"
      BY <1>1, <2>4 DEF Lacks
    <3> QED
      BY <1>1, <2>4, <3>1, RewrittenCases
  <2> QED
    BY <2>2, <2>3, <2>4
<1>5. DOMAIN sdp = 1..Len(sdp)
  BY <1>1
<1>6. Parts(sdp) = [i \in 1..Len(sdp) |-> <<sdp[i]>>]
  BY <1>4, <1>5 DEF Parts
<1>7. MungeLocalSdp(sdp) = FlattenSeq(Parts(sdp))
  BY <1>1, PartsType
<1>8. FlattenSeq([i \in 1..Len(sdp) |-> <<sdp[i]>>]) = sdp
  BY <1>1, FlattenSingles
<1> QED
  BY <1>6, <1>7, <1>8, Zenon DEF sdp

----------------------------------------------------------------------------
(* Picking servers.                                                        *)

\* A sequence of n different elements of T.
Different(q, T, n) == /\ q \in Seq(T) /\ Len(q) = n
                      /\ \A a, b \in 1..n : a # b => q[a] # q[b]

LEMMA SwappedDiffer ==
    ASSUME NEW T, NEW n \in Nat, NEW q, Different(q, T, n), NEW i \in 1..n, NEW j \in 1..n
    PROVE  Different(Swapped(q, i, j), T, n)
<1>1. q \in Seq(T) /\ Len(q) = n /\ q \in [1..n -> T] /\ \A a \in 1..n : q[a] \in T
  BY DEF Different
<1> DEFINE r == Swapped(q, i, j)
<1>2. r \in [1..n -> T]
  BY <1>1 DEF Swapped
<1>3. r \in Seq(T) /\ Len(r) = n
  BY <1>2
<1>4. \A a \in 1..n : r[a] = IF a = j THEN q[i] ELSE IF a = i THEN q[j] ELSE q[a]
  BY <1>1 DEF Swapped
<1> HIDE DEF r
<1>5. ASSUME NEW a \in 1..n, NEW b \in 1..n, a # b PROVE r[a] # r[b]
  BY <1>4, <1>5 DEF Different
<1> QED
  BY <1>3, <1>5 DEF Different, r

\* g[k] is what the first k swaps make of the hosts.
Swaps(g, hosts, picks, n) ==
    /\ g[0] = hosts
    /\ \A k \in 0..(n - 1) :
          g[k + 1] = Swapped(g[k], Len(hosts) - k, picks[Len(hosts) - k])

LEMMA SwapsExist ==
    ASSUME NEW hosts, NEW picks, NEW N \in Nat
    PROVE  \E g : Swaps(g, hosts, picks, N)
<1> DEFINE Good == {n \in Nat : \E g : Swaps(g, hosts, picks, n)}
<1>1. 0 \in Good
  <2>1. Swaps([i \in 0..0 |-> hosts], hosts, picks, 0)
    BY DEF Swaps
  <2> QED
    BY <2>1
<1>2. ASSUME NEW n \in Nat, n \in Good
      PROVE  n + 1 \in Good
  <2>1. PICK f : Swaps(f, hosts, picks, n)
    BY <1>2
  <2> DEFINE last == Swapped(f[n], Len(hosts) - n, picks[Len(hosts) - n])
             g == [i \in 0..(n + 1) |-> IF i = n + 1 THEN last ELSE f[i]]
  <2>2. (\A i \in 0..n : g[i] = f[i]) /\ g[n + 1] = last
    OBVIOUS
  <2> HIDE DEF g
  <2>3. ASSUME NEW k \in 0..n
        PROVE  g[k + 1] = Swapped(g[k], Len(hosts) - k, picks[Len(hosts) - k])
    <3>1. CASE k = n
      BY <2>2, <3>1
    <3>2. CASE k \in 0..(n - 1)
      <4>1. g[k] = f[k] /\ g[k + 1] = f[k + 1]
        BY <2>2, <3>2
      <4> QED
        BY <2>1, <3>2, <4>1 DEF Swaps
    <3> QED
      BY <3>1, <3>2
  <2>4. g[0] = hosts
    BY <2>1, <2>2 DEF Swaps
  <2>5. (n + 1) - 1 = n
    OBVIOUS
  <2>6. Swaps(g, hosts, picks, n + 1)
    BY <2>3, <2>4, <2>5 DEF Swaps
  <2> QED
    BY <2>6
<1> HIDE DEF Good
<1>3. \A n \in 0..N : n \in Good
  BY <1>1, <1>2, Induction
<1> QED
  BY <1>3 DEF Good

\* Whatever the random source gives, two different hosts are picked.
LEMMA TwoPicked ==
    ASSUME NEW T, NEW hosts, NEW n \in Nat, n >= 2, Different(hosts, T, n), NEW picks \in Picks(n)
    PROVE  Different(PickTurnServers(hosts, picks), T, 2)
<1> DEFINE Body(f) == [i \in 2..(n + 1) |-> IF i > n THEN hosts ELSE Swapped(f[i + 1], i, picks[i])]
           h == CHOOSE f : f = Body(f)
<1>1. Len(hosts) = n
  BY DEF Different
<1>2. PICK g : Swaps(g, hosts, picks, n - 1)
  BY SwapsExist
<1> DEFINE f == [i \in 2..(n + 1) |-> g[(n + 1) - i]]
<1>3. f = Body(f)
  <2>1. ASSUME NEW i \in 2..(n + 1)
        PROVE  g[(n + 1) - i] = IF i > n THEN hosts ELSE Swapped(f[i + 1], i, picks[i])
    <3>1. CASE i > n
      <4>1. (n + 1) - i = 0
        BY <3>1
      <4> QED
        BY <1>2, <3>1, <4>1 DEF Swaps
    <3>2. CASE ~(i > n)
      <4>1. /\ n - i \in 0..((n - 1) - 1) /\ (n - i) + 1 = (n + 1) - i /\ n - (n - i) = i
            /\ i + 1 \in 2..(n + 1) /\ (n + 1) - (i + 1) = n - i
        BY <3>2
      <4>2. f[i + 1] = g[n - i]
        BY <4>1
      <4>3. g[(n - i) + 1] = Swapped(g[n - i], n - (n - i), picks[n - (n - i)])
        BY <1>1, <1>2, <4>1 DEF Swaps
      <4> HIDE DEF f
      <4> QED
        BY <3>2, <4>1, <4>2, <4>3
    <3> QED
      BY <3>1, <3>2
  <2>2. Body(f) = [i \in 2..(n + 1) |-> g[(n + 1) - i]]
    <3> HIDE DEF f
    <3> QED
      BY <2>1
  <2> QED
    BY <2>2, Zenon
<1> HIDE DEF f
<1>4. h = Body(h)
  <2> HIDE DEF Body
  <2> QED
    BY <1>3
<1>5. PickTurnServers(hosts, picks) = SubSeq(h[2], 1, 2)
  BY <1>1 DEF PickTurnServers
<1> HIDE DEF h
<1>6. \A i \in 2..(n + 1) : h[i] = IF i > n THEN hosts ELSE Swapped(h[i + 1], i, picks[i])
  BY <1>4
<1> HIDE DEF Body
<1> DEFINE Good == {k \in Nat : Different(h[(n + 1) - k], T, n)}
<1>7. 0 \in Good
  <2>1. h[n + 1] = hosts /\ (n + 1) - 0 = n + 1
    BY <1>6
  <2> QED
    BY <2>1
<1>8. ASSUME NEW k \in 0..((n - 1) - 1), k \in Good
      PROVE  k + 1 \in Good
  <2>1. PICK i \in 2..n : i = n - k
    OBVIOUS
  <2>2. i + 1 = (n + 1) - k /\ i = (n + 1) - (k + 1) /\ ~(i > n) /\ i \in 2..(n + 1) /\ i \in 1..n
    BY <2>1
  <2>3. Different(h[i + 1], T, n)
    BY <1>8, <2>2
  <2>4. picks[i] \in 1..n
    BY <2>1 DEF Picks
  <2>5. Different(Swapped(h[i + 1], i, picks[i]), T, n)
    BY <2>2, <2>3, <2>4, SwappedDiffer
  <2>6. h[i] = Swapped(h[i + 1], i, picks[i])
    BY <1>6, <2>2
  <2> QED
    BY <2>2, <2>5, <2>6
<1>9. \A k \in 0..(n - 1) : k \in Good
  <2> HIDE DEF Good
  <2>1. n - 1 \in Nat
    OBVIOUS
  <2> QED
    BY <1>7, <1>8, <2>1, Induction
<1>10. Different(h[2], T, n)
  <2>1. n - 1 \in 0..(n - 1) /\ (n + 1) - (n - 1) = 2
    OBVIOUS
  <2>2. n - 1 \in Good
    BY <1>9, <2>1
  <2> QED
    BY <2>1, <2>2
<1>11. PICK q : q = h[2]
  OBVIOUS
<1>12. q \in Seq(T) /\ Len(q) = n /\ q[1] # q[2]
  BY <1>10, <1>11 DEF Different
<1>13. /\ SubSeq(q, 1, 2) \in Seq(T) /\ Len(SubSeq(q, 1, 2)) = 2
       /\ SubSeq(q, 1, 2)[1] = q[1] /\ SubSeq(q, 1, 2)[2] = q[2]
  BY <1>12
<1>14. Different(SubSeq(q, 1, 2), T, 2)
  BY <1>12, <1>13 DEF Different
<1> QED
  BY <1>5, <1>11, <1>14

\* What werift is given for a host.
Asked(host) == [scheme |-> "turn", host |-> host, port |-> FALSE]
TurnServer(host) == [Asked(host) EXCEPT !.port = TRUE]

LEMMA OfTwo ==
    ASSUME NEW T, NEW q, Different(q, T, 2)
    PROVE  DOMAIN q = 1..2 /\ q[1] \in T /\ q[2] \in T /\ q[1] # q[2]
<1>1. q \in Seq(T) /\ Len(q) = 2
  BY DEF Different
<1>2. DOMAIN q = 1..2
  BY <1>1
<1>3. q[1] \in T /\ q[2] \in T
  BY <1>1, SMTT(30)
<1>4. 1 \in 1..2 /\ 2 \in 1..2 /\ 1 # 2
  OBVIOUS
<1>5. q[1] # q[2]
  BY <1>4 DEF Different
<1> QED
  BY <1>2, <1>3, <1>5

LEMMA TurnServerIs ==
    ASSUME NEW host \in STRING
    PROVE  TurnServer(host).host = host /\ TurnServer(host).port
<1>1. Asked(host) \in [scheme : {"turn"}, host : STRING, port : BOOLEAN] /\ Asked(host).host = host
  BY DEF Asked
<1> QED
  BY <1>1 DEF TurnServer

LEMMA ServersAre ==
    ASSUME NEW picks \in Picks(Len(Hosts))
    PROVE  \E q : Different(q, STRING, 2) /\ Servers(picks) = <<TurnServer(q[1]), TurnServer(q[2])>>
<1>1. Hosts \in Seq(STRING) /\ Len(Hosts) \in Nat /\ Len(Hosts) >= 2
      /\ Different(Hosts, STRING, Len(Hosts))
  BY SetupAssumption DEF Different
<1>2. PICK q : q = PickTurnServers(Hosts, picks)
  OBVIOUS
<1>3. Different(q, STRING, 2)
  BY <1>1, <1>2, TwoPicked
<1> DEFINE given == [i \in DOMAIN q |-> [urls |-> <<Asked(q[i])>>]]
           t == <<TurnServer(q[1]), TurnServer(q[2])>>
<1>4. Servers(picks) = ToWeriftIceServers(given)
  BY <1>2 DEF Servers, Asked
<1>5. DOMAIN q = 1..2 /\ q[1] \in STRING /\ q[2] \in STRING
  BY <1>3, OfTwo
<1>6. ASSUME NEW i \in 1..2
      PROVE  [k \in DOMAIN given[i].urls |->
                LET url == given[i].urls[k]
                IN  [url EXCEPT !.port = url.port \/ url.scheme \in {"turn", "turns", "stun", "stuns"}]]
             = <<TurnServer(q[i])>>
  <2>1. given[i].urls = <<Asked(q[i])>>
    BY <1>5
  <2> HIDE DEF given
  <2>2. DOMAIN given[i].urls = 1..1 /\ given[i].urls[1] = Asked(q[i])
    BY <2>1
  <2>3. [Asked(q[i]) EXCEPT !.port = Asked(q[i]).port \/ Asked(q[i]).scheme \in {"turn", "turns", "stun", "stuns"}]
          = TurnServer(q[i])
    <3>1. Asked(q[i]).port = FALSE /\ Asked(q[i]).scheme = "turn"
      BY DEF Asked
    <3>2. (Asked(q[i]).port \/ Asked(q[i]).scheme \in {"turn", "turns", "stun", "stuns"}) = TRUE
      BY <3>1
    <3>3. [Asked(q[i]) EXCEPT !.port = TRUE] = TurnServer(q[i])
      BY Zenon DEF TurnServer
    <3> QED
      BY <3>2, <3>3, Zenon
  <2>4. [k \in 1..1 |-> TurnServer(q[i])] = <<TurnServer(q[i])>>
    OBVIOUS
  <2> QED
    BY <2>2, <2>3, <2>4
<1>7. DOMAIN given = 1..2
  BY <1>5
<1> HIDE DEF given
<1>8. ToWeriftIceServers(given) = FlattenSeq([i \in 1..2 |-> <<TurnServer(q[i])>>])
  BY <1>6, <1>7, Zenon DEF ToWeriftIceServers
<1>9. /\ t \in Seq({TurnServer(q[1]), TurnServer(q[2])}) /\ Len(t) = 2
      /\ \A i \in 1..2 : t[i] = TurnServer(q[i])
  OBVIOUS
<1> HIDE DEF t
<1>10. FlattenSeq([i \in 1..Len(t) |-> <<t[i]>>]) = t
  BY <1>9, FlattenSingles
<1>11. [i \in 1..Len(t) |-> <<t[i]>>] = [i \in 1..2 |-> <<TurnServer(q[i])>>]
  BY <1>9
<1> QED
  BY <1>3, <1>4, <1>8, <1>10, <1>11, Zenon DEF t

\* The servers of a session are picked, and its description is munged.
SetInv ==
    /\ DOMAIN setup = Session
    /\ \A s \in Session :
          /\ DOMAIN setup[s] = {"raw", "sdp", "servers"}
          /\ setup[s].raw \in Seq(Line) /\ setup[s].sdp = MungeLocalSdp(setup[s].raw)
          /\ media[s].made => \E p \in Picks(Len(Hosts)) : setup[s].servers = Servers(p)

LEMMA SetInit == Init => SetInv
<1> SUFFICES ASSUME Init PROVE SetInv
  OBVIOUS
<1>1. MungeLocalSdp(<<>>) = <<>> /\ <<>> \in Seq(Line)
  <2>1. <<>> \in Seq(Line) /\ Len(<<>>) = 0
    OBVIOUS
  <2>2. Parts(<<>>) = <<>>
    BY DEF Parts
  <2>3. FlattenSeq(<<>>) = <<>>
    BY DEF FlattenSeq
  <2> QED
    BY <2>1, <2>2, <2>3, PartsType
<1>2. \A s \in Session : ~media[s].made
  BY DEF Init, SessionsInit, NewMedia
<1>3. setup = [s \in Session |-> [raw |-> <<>>, sdp |-> <<>>, servers |-> <<>>]]
  BY DEF Init
<1> QED
  BY <1>1, <1>2, <1>3 DEF SetInv

\* No media session is made.
NoneMade == \A t \in Session : media'[t].made => media[t].made

LEMMA ClosesNone ==
    ASSUME Types, NEW s,
           media' \in {media, [media EXCEPT ![s] = Closed(media[s])]}
    PROVE  NoneMade
BY DEF NoneMade, Closed, Types, SessionTypes, MediaType

LEMMA EndsNone ==
    ASSUME Types, NEW s, EndCall(s) \/ FailCall(s)
    PROVE  NoneMade
BY ClosesNone DEF EndCall, FailCall

Reset(s) == \/ setup' = setup
            \/ \E raw \in Seq(Line) : setup' = [setup EXCEPT ![s].raw = raw, ![s].sdp = MungeLocalSdp(raw)]

LEMMA PicksGiven ==
    ASSUME NEW e, NEW s, ServersGiven(e, s)
    PROVE  \E p \in Picks(Len(Hosts)) : setup' = [setup EXCEPT ![s].servers = Servers(p)]
<1>1. Len(Hosts) \in Nat
  BY SetupAssumption
<1>2. [i \in 2..Len(Hosts) |-> i] \in Picks(Len(Hosts))
  BY <1>1 DEF Picks
<1> QED
  BY <1>2, Zenon DEF ServersGiven, Vary

\* Either nothing is made, or one session, for which servers are picked.
LEMMA SetupMoves ==
    ASSUME Types, [Next]_vars
    PROVE  \/ NoneMade /\ \E s \in Session : Reset(s)
           \/ \E s \in Session, p \in Picks(Len(Hosts)) :
                 /\ setup' = [setup EXCEPT ![s].servers = Servers(p)]
                 /\ \A t \in Session \ {s} : media'[t] = media[t]
<1>0. "caller" \in End /\ "callee" \in End /\ <<"caller", 1>> \in Session
      /\ \A e \in End : contexts[e] \in Nat /\ made[e] \in Nat /\ contexts[e] <= MaxContexts
      /\ MaxContexts \in Nat /\ DOMAIN media = Session
  <2>1. MaxContexts \in Nat /\ 1 \in 1..MaxContexts
    BY CallMediaAssumption
  <2> QED
    BY <2>1, NumberedSession DEF End, Types, ContextTypes, SessionTypes
<1>a. media' = media => NoneMade
  BY DEF NoneMade
<1>b. setup' = setup => \E s \in Session : Reset(s)
  BY <1>0 DEF Reset
<1> DEFINE Quiet == NoneMade /\ \E s \in Session : Reset(s)
           New == \E s \in Session, p \in Picks(Len(Hosts)) :
                     /\ setup' = [setup EXCEPT ![s].servers = Servers(p)]
                     /\ \A t \in Session \ {s} : media'[t] = media[t]
<1>c. ASSUME NEW e, NEW s \in Session, NEW k, ServersGiven(e, s), media' = [media EXCEPT ![s] = k]
      PROVE  New
  <2>1. PICK p \in Picks(Len(Hosts)) : setup' = [setup EXCEPT ![s].servers = Servers(p)]
    BY <1>c, PicksGiven
  <2>2. \A t \in Session \ {s} : media'[t] = media[t]
    BY <1>0, <1>c
  <2> QED
    BY <2>1, <2>2
<1> SUFFICES Quiet \/ New
  OBVIOUS
<1> HIDE DEF New
<1>1. ASSUME UNCHANGED vars PROVE Quiet
  BY <1>1, <1>a, <1>b DEF vars, sessionVars, callVars
<1>2. ASSUME Call PROVE New
  BY <1>0, <1>2, <1>c DEF Call
<1>3. ASSUME Accept \/ OnPreOffer \/ OnAnswer PROVE Quiet
  BY <1>3, <1>a, <1>b DEF Accept, OnPreOffer, OnAnswer, sessionVars
<1>4. ASSUME Ignore PROVE Quiet
  <2>1. PICK s : s = Current("callee")
    OBVIOUS
  <2>2. media' = [media EXCEPT ![s] = Closed(media[s])] /\ setup' = setup
    BY <1>4, <2>1 DEF Ignore
  <2>3. media' \in {media, [media EXCEPT ![s] = Closed(media[s])]}
    BY <2>2
  <2>4. NoneMade
    BY <2>3, ClosesNone
  <2> QED
    BY <1>b, <2>2, <2>4
<1>5. ASSUME OnOffer PROVE Quiet \/ New
  <2>1. CASE media' = media /\ setup' = setup
    BY <1>a, <1>b, <2>1
  <2>2. CASE /\ Has("callee")
             /\ \E k : media' = [media EXCEPT ![Current("callee")] = k]
             /\ ServersGiven("callee", Current("callee"))
    <3>1. Current("callee") \in Session
      BY <1>0, <2>2, CurrentType
    <3> QED
      BY <1>c, <2>2, <3>1
  <2>3. CASE /\ ~Has("callee") /\ made["callee"] < MaxContexts
             /\ \E k : media' = [media EXCEPT ![<<"callee", made["callee"] + 1>>] = k]
             /\ ServersGiven("callee", <<"callee", made["callee"] + 1>>)
    <3>1. <<"callee", made["callee"] + 1>> \in Session
      <4>1. made["callee"] + 1 \in 1..MaxContexts
        BY <1>0, <2>3
      <4> QED
        BY <1>0, <4>1, NumberedSession
    <3> QED
      BY <1>c, <2>3, <3>1
  <2> QED
    BY <1>5, <2>1, <2>2, <2>3, Zenon DEF OnOffer, NewContext
<1>6. ASSUME NEW e \in End, User(e) \/ Flush(e) PROVE Quiet
  <2>1. NoneMade
    <3>1. CASE Leave(e) \/ Flush(e)
      BY <1>a, <3>1 DEF Leave, Flush, sessionVars
    <3>2. CASE CallFails(e)
      BY <3>2, EndsNone DEF CallFails
    <3>3. CASE Dispose(e)
      <4>1. PICK s : s = Current(e)
        OBVIOUS
      <4>2. media' = media \/ media' = [media EXCEPT ![s] = Closed(media[s])]
        BY <3>3, <4>1, Zenon DEF Dispose
      <4> QED
        BY <4>2, ClosesNone
    <3> QED
      BY <1>6, <3>1, <3>2, <3>3 DEF User
  <2>2. setup' = setup
    BY <1>6 DEF User, Leave, CallFails, Dispose, Flush
  <2> QED
    BY <1>b, <2>1, <2>2
<1>7. ASSUME NEW e \in End, Receive(e) PROVE Quiet
  <2>1. CASE OnEndCall(e)
    BY <1>a, <1>b, <2>1, EndsNone DEF OnEndCall
  <2>2. CASE OnIceCandidates(e)
    <3>1. \/ media' = media
          \/ \E s, cs : media' = [media EXCEPT ![s] = AddRemoteCandidates(media[s], cs)]
      BY <2>2, Zenon DEF OnIceCandidates
    <3>2. NoneMade
      <4>1. ASSUME NEW s, NEW cs, media' = [media EXCEPT ![s] = AddRemoteCandidates(media[s], cs)],
                   NEW t \in Session
            PROVE  media'[t].made = media[t].made
        BY <4>1 DEF AddRemoteCandidates, Types, SessionTypes, MediaType
      <4> QED
        BY <1>a, <3>1, <4>1 DEF NoneMade
    <3> QED
      BY <1>b, <2>2, <3>2 DEF OnIceCandidates
  <2> QED
    BY <1>7, <2>1, <2>2 DEF Receive
<1>8. ASSUME NEW s \in Session, OnHangupHint(s) \/ Gather(s) \/ \E what : MediaRejects(s, what) PROVE Quiet
  BY <1>8, <1>a, <1>b, EndsNone DEF OnHangupHint, Gather, MediaRejects, sessionVars, callVars
<1>9. ASSUME NEW s \in Session, Described(s) PROVE Quiet
  <2>1. Reset(s)
    <3>1. Sdps \subseteq Seq(Line) /\ <<>> \in Seq(Line)
      <4>1. <<>> \in Seq(Line)
        OBVIOUS
      <4> QED
        BY <4>1, SetupAssumption, Zenon
    <3>2. \A raw \in Vary(s[1], "sdps", Sdps, <<>>) : raw \in Seq(Line)
      BY <3>1 DEF Vary
    <3> QED
      BY <1>9, <3>1, <3>2, Zenon DEF Described, Reset
  <2>2. media' = [media EXCEPT ![s].described = TRUE]
    BY <1>9 DEF Described
  <2>3. NoneMade
    BY <2>2 DEF NoneMade, Types, SessionTypes, MediaType
  <2> QED
    BY <2>1, <2>3
<1>10. ASSUME NEW s \in Session, RemoteSet(s) PROVE Quiet
  <2>1. NoneMade
    BY <1>10 DEF RemoteSet, RemoteDescribed, NoneMade, Types, SessionTypes, MediaType
  <2> QED
    BY <1>10, <1>b, <2>1 DEF RemoteSet
<1>11. ASSUME NEW s \in Session, Media(s) PROVE Quiet
  <2>1. setup' = setup
    BY <1>11 DEF Media, WithLoad, Free, callVars
  <2> QED
    BY <1>11, <1>a, <1>b, <2>1, MediaMovesAudio
<1>12. ASSUME NEW x \in sends, Store(x) \/ Resolve(x) \/ RejectSend(x) PROVE Quiet
  <2>1. NoneMade
    BY <1>12, <1>a, EndsNone DEF Store, Resolve, RejectSend, sessionVars
  <2> QED
    BY <1>12, <1>b, <2>1 DEF Store, Resolve, RejectSend
<1> HIDE DEF Quiet
<1> QED
  BY <1>1, <1>2, <1>3, <1>4, <1>5, <1>6, <1>7, <1>8, <1>9, <1>10, <1>11, <1>12 DEF Next

LEMMA SetStep ==
    ASSUME Types, SetInv, [Next]_vars
    PROVE  SetInv'
<1>1. CASE NoneMade /\ \E s \in Session : Reset(s)
  <2>1. PICK s \in Session : Reset(s)
    BY <1>1
  <2>2. CASE setup' = setup
    BY <1>1, <2>2 DEF SetInv, NoneMade
  <2>3. ASSUME NEW raw \in Seq(Line),
               setup' = [setup EXCEPT ![s].raw = raw, ![s].sdp = MungeLocalSdp(raw)]
        PROVE  SetInv'
    <3>1. DOMAIN setup' = Session
      BY <2>3 DEF SetInv
    <3>2. ASSUME NEW t \in Session
          PROVE  /\ DOMAIN setup'[t] = {"raw", "sdp", "servers"}
                 /\ setup'[t].raw \in Seq(Line) /\ setup'[t].sdp = MungeLocalSdp(setup'[t].raw)
                 /\ setup'[t].servers = setup[t].servers
      BY <2>3 DEF SetInv
    <3> QED
      BY <1>1, <3>1, <3>2 DEF SetInv, NoneMade
  <2> QED
    BY <2>1, <2>2, <2>3 DEF Reset
<1>2. ASSUME NEW s \in Session, NEW p \in Picks(Len(Hosts)),
             setup' = [setup EXCEPT ![s].servers = Servers(p)],
             \A t \in Session \ {s} : media'[t] = media[t]
      PROVE  SetInv'
  <2>1. DOMAIN setup' = Session
    BY <1>2 DEF SetInv
  <2>2. ASSUME NEW t \in Session
        PROVE  /\ DOMAIN setup'[t] = {"raw", "sdp", "servers"}
               /\ setup'[t].raw \in Seq(Line) /\ setup'[t].sdp = MungeLocalSdp(setup'[t].raw)
               /\ setup'[t].servers = IF t = s THEN Servers(p) ELSE setup[t].servers
    BY <1>2 DEF SetInv
  <2>3. ASSUME NEW t \in Session, media'[t].made
        PROVE  \E k \in Picks(Len(Hosts)) : setup'[t].servers = Servers(k)
    BY <1>2, <2>2, <2>3 DEF SetInv
  <2> QED
    BY <2>1, <2>2, <2>3 DEF SetInv
<1> QED
  BY <1>1, <1>2, SetupMoves

\* The munging of media/sdp.ts:18-77 and the picking of policy.ts:226-240, for every
\* description and everything the random source may give.
THEOREM MediaSetUpRight == Spec => []SetUpRight
<1> DEFINE Inv == Types /\ SetInv
<1>1. Init => Inv
  BY TypesInit, SetInit
<1>2. Inv /\ [Next]_vars => Inv'
  BY TypesStep, SetStep
<1>3. Inv => SetUpRight
  <2> SUFFICES ASSUME SetInv PROVE SetUpRight
    OBVIOUS
  <2>2. ASSUME NEW s \in Session, media[s].made
        PROVE  LET two == setup[s].servers
               IN  Len(two) = 2 /\ two[1].host # two[2].host /\ two[1].port /\ two[2].port
    <3>1. PICK p \in Picks(Len(Hosts)) : setup[s].servers = Servers(p)
      BY <2>2 DEF SetInv
    <3>2. PICK q : Different(q, STRING, 2) /\ setup[s].servers = <<TurnServer(q[1]), TurnServer(q[2])>>
      BY <3>1, ServersAre
    <3>3. q[1] # q[2]
      BY <3>2, OfTwo
    <3>4. q[1] \in STRING /\ q[2] \in STRING
      BY <3>2, OfTwo
    <3>5. /\ TurnServer(q[1]).host = q[1] /\ TurnServer(q[1]).port
          /\ TurnServer(q[2]).host = q[2] /\ TurnServer(q[2]).port
      BY <3>4, TurnServerIs
    <3>6. PICK two : two = setup[s].servers
      OBVIOUS
    <3>7. Len(two) = 2 /\ two[1] = TurnServer(q[1]) /\ two[2] = TurnServer(q[2])
      BY <3>2, <3>6
    <3>8. Len(two) = 2 /\ two[1].host # two[2].host /\ two[1].port /\ two[2].port
      BY <3>3, <3>5, <3>7
    <3> QED
      BY <3>6, <3>8
  <2>3. ASSUME NEW s \in Session
        PROVE  LET raw == setup[s].raw
                   sdp == setup[s].sdp
                   others == {l \in Line : ~IsForced(raw, l) /\ l.kind # "level"}
               IN  /\ Filtered(sdp, others) = Filtered(raw, others)
                   /\ \A i \in DOMAIN sdp : /\ sdp[i].kind # "level"
                                            /\ IsForced(raw, sdp[i]) => sdp[i].cbr
                   /\ \A pt \in OpusPts(raw) : \E i \in DOMAIN sdp : IsForced(raw, sdp[i]) /\ sdp[i].pt = pt
                   /\ MungeLocalSdp(sdp) = sdp
    <3>1. PICK raw : raw = setup[s].raw
      OBVIOUS
    <3>2. PICK sdp : sdp = setup[s].sdp
      OBVIOUS
    <3>3. PICK others : others = {l \in Line : ~IsForced(raw, l) /\ l.kind # "level"}
      OBVIOUS
    <3>4. /\ Filtered(sdp, others) = Filtered(raw, others)
          /\ \A i \in DOMAIN sdp : /\ sdp[i].kind # "level"
                                   /\ IsForced(raw, sdp[i]) => sdp[i].cbr
          /\ \A pt \in OpusPts(raw) : \E i \in DOMAIN sdp : IsForced(raw, sdp[i]) /\ sdp[i].pt = pt
          /\ MungeLocalSdp(sdp) = sdp
      <4>1. raw \in Seq(Line) /\ sdp = MungeLocalSdp(raw)
        BY <3>1, <3>2 DEF SetInv
      <4>2. /\ sdp \in Seq(Line)
            /\ \A k \in 1..Len(sdp) : /\ sdp[k].kind # "level"
                                      /\ IsForced(raw, sdp[k]) => sdp[k].cbr
        BY <4>1, MungedElements
      <4>3. DOMAIN sdp = 1..Len(sdp)
        BY <4>2
      <4>4. ASSUME NEW pt \in OpusPts(raw)
            PROVE  \E i \in DOMAIN sdp : IsForced(raw, sdp[i]) /\ sdp[i].pt = pt
        <5>1. \E i \in 1..Len(sdp) : sdp[i].kind = "fmtp" /\ sdp[i].pt = pt
          BY <4>1, MungedHasFmtps
        <5> QED
          BY <4>3, <5>1 DEF IsForced
      <4>5. Filtered(sdp, others) = Filtered(raw, others)
        BY <3>3, <4>1, MungedOthers
      <4>6. MungeLocalSdp(sdp) = sdp
        BY <4>1, MungedAgain
      <4> QED
        BY <4>2, <4>3, <4>4, <4>5, <4>6
    <3> QED
      BY <3>1, <3>2, <3>3, <3>4, Zenon
  <2> QED
    BY <2>2, <2>3 DEF SetUpRight, IsForced
<1> QED
  BY <1>1, <1>2, <1>3, PTL DEF Spec
=============================================================================
