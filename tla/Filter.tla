--------------------------------- MODULE Filter ---------------------------------
(***************************************************************************)
(* Array.prototype.filter.  External: it is JavaScript's.                  *)
(***************************************************************************)
EXTENDS Naturals, Sequences

\* Those elements of s that are in S, in their order.
Filtered(s, S) ==
    LET kept[i \in 0..Len(s)] ==
            IF i = 0 THEN <<>>
            ELSE IF s[i] \in S THEN Append(kept[i - 1], s[i])
            ELSE kept[i - 1]
    IN  kept[Len(s)]
=============================================================================
