------------------------------- MODULE OneLine -------------------------------
(***************************************************************************)
(* What a CallManager promises its user: one telephone line per device.    *)
(* The line is free, or held by one call that is being set up, open (its   *)
(* media has been connected once) or closing (hung up, the END_CALL still  *)
(* on its way).  A call never goes back to setup, a closing call never     *)
(* reopens, and another call gets the line only after it was free.         *)
(***************************************************************************)
CONSTANTS Device, Uuid

VARIABLE line

Free         == [call |-> 0, phase |-> "free"]
Hold(u, p)   == [call |-> u, phase |-> p]
IsHeld(d)    == line[d].phase # "free"
Turn(d, now) == line' = [line EXCEPT ![d] = now]

Init == line = [d \in Device |-> Free]

Seize(d, u) == line[d] = Free /\ Turn(d, Hold(u, "setup"))
Open(d)     == line[d].phase = "setup" /\ Turn(d, Hold(line[d].call, "open"))
Close(d)    == line[d].phase \in {"setup", "open"} /\ Turn(d, Hold(line[d].call, "closing"))
Release(d)  == IsHeld(d) /\ Turn(d, Free)

Next == \E d \in Device : \/ \E u \in Uuid : Seize(d, u)
                          \/ Open(d) \/ Close(d) \/ Release(d)

Spec == Init /\ [][Next]_line
=============================================================================
