------------------------------- MODULE MCSending -------------------------------
(***************************************************************************)
(* Instances of Sending: who calls what, and what goes wrong meanwhile.    *)
(***************************************************************************)
EXTENDS SendingProperties

CONSTANTS a1, a2, b1, Alice, Bob, s1, s2, n1, n2, n3

Owner == [d \in {a1, a2, b1} |-> IF d = b1 THEN Bob ELSE Alice]
Swarms0 == [a \in {Alice, Bob} |-> IF a = Alice THEN {n1, n2} ELSE {n2, n3}]

Load(p1, p2, q1, fails, moves) ==
    [calls   |-> [d \in {a1, a2, b1} |-> CASE d = a1 -> p1 [] d = a2 -> p2 [] d = b1 -> q1],
     trouble |-> [fails |-> fails, moves |-> moves]]

\* Two operations of a Session at a time, answers lost and nodes leaving under them.
Troubled == {Load(<<"message", "message">>, <<>>, <<>>, 1, 1),
             Load(<<"message", "message">>, <<>>, <<>>, 0, 2),
             Load(<<"message", "poll">>, <<>>, <<>>, 2, 1),
             Load(<<"message">>, <<>>, <<>>, 3, 1)}

\* What is sent is received, answered and deleted.
Conversations == {Load(<<"message">>, <<"poll">>, <<"poll", kind>>, 0, 0) : kind \in {"reaction", "unreact"}}
    \cup {Load(<<"message", "poll">>, <<>>, <<"poll", kind>>, 0, 0) : kind \in {"read", "mediaSaved"}}
    \cup {Load(<<"message", "delete">>, <<>>, <<"poll">>, 1, 0),
          Load(<<"message", "message", "delete">>, <<>>, <<>>, 0, 0),
          Load(<<"call", "screenshot">>, <<>>, <<"poll">>, 0, 0),
          Load(<<"typing">>, <<"accept">>, <<"poll">>, 0, 0)}

\* Polls overlap, listeners throw and the process ends, while messages are marked and told.
Polls == {Load(<<"message">>, <<>>, <<"poll", "poll">>, 0, 0),
          Load(<<"message", "call">>, <<>>, <<"poll">>, 1, 0),
          Load(<<"message">>, <<>>, <<"poll", "restart", "poll">>, 0, 0)}

\* A device changes its profile and starts again, and a linked one changes it too.
Profiles == {Load(<<"avatar", "restart", "poll">>, <<"rename">>, <<>>, 0, 0),
             Load(<<"rename", "avatar", "restart", "poll">>, <<>>, <<>>, 0, 0),
             Load(<<"avatar", "restart", "poll", "restart">>, <<>>, <<>>, 0, 0),
             Load(<<"avatar", "rename", "poll", "restart">>, <<>>, <<>>, 1, 0)}

Deletion == {Load(<<"message", "delete">>, <<>>, <<"poll">>, 0, 0)}

AllLoads == Troubled \cup Conversations \cup Polls \cup Profiles
=============================================================================
