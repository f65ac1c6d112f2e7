------------------------------ MODULE MCDrain ------------------------------
(* Drain on two tickets, or on an epic and one of its sub-issues. *)
EXTENDS Drain

CONSTANTS a, b, c

TwoTickets == {a, b}
Three      == {a, b, c}
EpicAndC   == [i \in Three |-> IF i = a THEN {b} ELSE {}]
NoBlocks   == [i \in Three |-> {}]
Flat       == [i \in TwoTickets |-> {}]
BUnderA    == [i \in TwoTickets |-> IF i = a THEN {b} ELSE {}]

Resuming   == [noResume |-> FALSE, onFault |-> "halt"]
Restarting == [noResume |-> TRUE, onFault |-> "skip"]
Plain      == {Resuming}
Both       == {Resuming, Restarting}
=============================================================================
