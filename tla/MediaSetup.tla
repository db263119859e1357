------------------------------ MODULE MediaSetup ------------------------------
(***************************************************************************)
(* What a media session is set up with: the local description as munged by *)
(* media/sdp.ts, and the TURN servers picked by policy.ts.                 *)
(*                                                                         *)
(* A line of a description is what the munging looks at: an Opus rtpmap or *)
(* an fmtp with its payload type, whether an fmtp asks for a constant bit  *)
(* rate, an audio-level extmap, or any other line.                         *)
(***************************************************************************)
EXTENDS Naturals, Sequences, SequencesExt

Line == [kind : {"rtpmap", "fmtp", "level", "other"}, pt : Nat, cbr : BOOLEAN]

Fmtp(pt) == [kind |-> "fmtp", pt |-> pt, cbr |-> TRUE]

Rtpmaps(sdp, pt) == {i \in DOMAIN sdp : sdp[i].kind = "rtpmap" /\ sdp[i].pt = pt}

\* Pass 1: the payload types of Opus, and those whose fmtp comes after their rtpmap.
OpusPts(sdp) == {pt \in {sdp[i].pt : i \in DOMAIN sdp} : Rtpmaps(sdp, pt) # {}}
FmtpPts(sdp) == {sdp[j].pt : j \in {k \in DOMAIN sdp :
                    /\ sdp[k].kind = "fmtp"
                    /\ \E i \in Rtpmaps(sdp, sdp[k].pt) : i < k}}

\* Pass 2: what line i becomes.
Rewritten(sdp, i) ==
    LET line == sdp[i]
    IN  CASE line.kind = "level" -> <<>>
          [] line.kind = "fmtp" /\ line.pt \in OpusPts(sdp) -> <<[line EXCEPT !.cbr = TRUE]>>
          [] /\ line.kind = "rtpmap"
             /\ line.pt \notin FmtpPts(sdp)
             /\ \A h \in Rtpmaps(sdp, line.pt) : h >= i -> <<line, Fmtp(line.pt)>>
          [] OTHER -> <<line>>

\* Mutant: an fmtp is only appended to, never made.
MungeExistingFmtp(sdp) ==
    FlattenSeq([i \in DOMAIN sdp |->
                  IF sdp[i].kind = "rtpmap" THEN <<sdp[i]>> ELSE Rewritten(sdp, i)])

MungeLocalSdp(sdp) == FlattenSeq([i \in DOMAIN sdp |-> Rewritten(sdp, i)])

----------------------------------------------------------------------------
Swapped(hosts, i, j) == [hosts EXCEPT ![i] = hosts[j], ![j] = hosts[i]]

\* pickTurnServers: a Fisher-Yates shuffle from the last host down to the second,
\* picks[i] being what the random source gives for the i-th, and the first two taken.
PickTurnServers(hosts, picks) ==
    LET shuffled[i \in 2..(Len(hosts) + 1)] ==
            IF i > Len(hosts) THEN hosts ELSE Swapped(shuffled[i + 1], i, picks[i])
    IN  SubSeq(shuffled[2], 1, 2)

\* Servers with several URLs become one each; werift cannot do without a port.
ToWeriftIceServers(servers) ==
    FlattenSeq([i \in DOMAIN servers |->
                  [k \in DOMAIN servers[i].urls |->
                     LET url == servers[i].urls[k]
                     IN  [url EXCEPT !.port = url.port \/ url.scheme \in {"turn", "turns", "stun", "stuns"}]]])

Picks(n) == {p \in [2..n -> 1..n] : \A i \in 2..n : p[i] <= i}
=============================================================================
