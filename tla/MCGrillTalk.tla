---------------------------- MODULE MCGrillTalk ----------------------------
EXTENDS GrillTalk

\* An interview without a panel and one nobody watches; the interviewer against one
\* challenger, with a follow-up or over two rounds; a panel of three that argues once.
Solo   == [challengers |-> {}, rounds |-> 0, ahead |-> FALSE, gestures |-> 2, calls |-> 2]
Ahead  == [Solo EXCEPT !.ahead = TRUE, !.calls = 1]
Two    == [Solo EXCEPT !.challengers = {"x"}, !.rounds = 1, !.gestures = 1]
Long   == [Two EXCEPT !.rounds = 2, !.calls = 1]
Three  == [Long EXCEPT !.challengers = {"x", "y"}, !.rounds = 1, !.gestures = 0]

Interviews == {Solo, Ahead, Two, Long, Three}
Asking     == [parts : {{1}, {1, 2}}, rec : {{1}}]
=============================================================================
