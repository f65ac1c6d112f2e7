----------------------------- MODULE Checkpoint -----------------------------
(***************************************************************************)
(* The vocabulary of a ticket's checkpoint (internal/state/state.go): its  *)
(* phases and their ranks, and the questions the resume scan, the operator *)
(* commands and the hub ask of a row.  Constant-level: no state of its own.*)
(***************************************************************************)
EXTENDS Integers, FiniteSets

None == ""   \* the phase of a ticket without a checkpoint

\* The rank of a phase; unknown and empty phases rank 0.
Rank == [building |-> 1, built |-> 2, handed_off |-> 3, verified |-> 4, pr_open |-> 5,
         releasing |-> 6, merged |-> 7, quarantined |-> 9]

Phase == {None} \cup DOMAIN Rank

Idx(phase) == IF phase \in DOMAIN Rank THEN Rank[phase] ELSE 0

Terminal(phase) == Idx(phase) >= 7

\* What the resume scan takes: some attempt is under way and not released yet.
InFlight(phase) == Idx(phase) \in 1..5

\* The phase that records the step running from `phase` as finished, if any.
AdvancedPhase(phase) ==
  CASE phase = "building"   -> "built"
    [] phase = "built"      -> "handed_off"
    [] phase = "handed_off" -> "verified"
    [] OTHER                -> None

Reconcilable(phase) == Idx(phase) \notin {0, 7}

StaleCheckpoint(phase, trackerDone) == trackerDone /\ Reconcilable(phase)

FailureMark == {"", "paused", "faulted", "stopped"}

\* How a surface classifies a row: the phase first, then the stored mark.
FailureClass(phase, mark) ==
  CASE phase = "quarantined" -> "gave_up"
    [] phase = "merged"      -> ""
    [] OTHER                 -> mark
=============================================================================
