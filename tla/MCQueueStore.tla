---------------------------- MODULE MCQueueStore ----------------------------
(* QueueStore on an epic and its one sub-issue, with two batches and a skip.  *)
EXTENDS QueueStore

CONSTANTS epic, a

Tickets  == {epic, a}
AUnderIt == [i \in Tickets |-> IF i = epic THEN {a} ELSE {}]

Resuming   == [noResume |-> FALSE, onFault |-> "halt"]
Restarting == [noResume |-> TRUE, onFault |-> "halt"]
BothStarts == {Resuming, Restarting}
=============================================================================
