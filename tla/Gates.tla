------------------------------- MODULE Gates -------------------------------
(***************************************************************************)
(* The merge, test and QA gates of internal/pipeline, as functions of what *)
(* the agents and the forge answered: how a CI poll reads a PR's checks,   *)
(* when a PR without checks is let through, how the verify panel turns     *)
(* verdicts into one, and what a refused push means.                       *)
(* Constant-level: Pipeline applies them to what its environment offers.   *)
(***************************************************************************)
EXTENDS Integers, FiniteSets

(* ------------------------------- CI checks ----------------------------- *)

Bucket == {"pass", "skipping", "pending", "fail", "cancel"}

\* `checks` is a set of [name, bucket]; `expected` the names the repo demands.
HasGreenNamed(checks, wanted) ==
  \E c \in checks : c.bucket \in {"pass", "skipping"} /\ c.name = wanted

EvalChecks(checks, expected) ==
  IF \E c \in checks : c.bucket \in {"fail", "cancel"} THEN "failed"
  ELSE IF expected # {}
       THEN IF \A w \in expected : HasGreenNamed(checks, w) THEN "green" ELSE "waiting"
  ELSE IF checks = {} \/ \E c \in checks : c.bucket = "pending" THEN "waiting"
  ELSE "green"

\* `ci` is what the repo's own configuration shows of its pull-request CI:
\* "filtered" every pipeline is path-filtered, "covers" one targets the base,
\* "elsewhere" pipelines exist for other bases only, "nothing" none was found.
\* `waited` is how long the PR has stayed checkless: "grace" or "timeout".
ChecklessByDesign(ci, requireCI, waited) ==
  \/ ci = "filtered"
  \/ requireCI # "on" /\ ci = "elsewhere"
  \/ requireCI # "on" /\ ci = "nothing" /\ waited = "timeout"

\* How the wait on a PR's checks ends, the PR having shown `checks` at the last.
PollCI(checks, expected, ci, requireCI) ==
  LET seen == EvalChecks(checks, expected)
  IN  IF requireCI = "off" THEN "green"
      ELSE IF seen # "waiting" THEN seen
      ELSE IF checks = {} /\ expected = {} /\ ChecklessByDesign(ci, requireCI, "timeout")
           THEN "green"
      ELSE "timeout"

(* ------------------------------- Verdicts ------------------------------ *)

PanelPasses(policy, passes, total) ==
  /\ total # 0
  /\ CASE policy = "majority" -> passes * 2 > total
       [] policy = "any-pass" -> passes > 0
       [] OTHER               -> passes = total

\* `yes` are the members of the panel whose gated verdict passed.
MergeVerdicts(policy, members, yes) ==
  PanelPasses(policy, Cardinality(yes), Cardinality(members))

(* -------------------------- Pushes and merges -------------------------- *)

\* What the probe of a refused push answered, and what that makes of the push.
ClassifyPush(probe) ==
  CASE probe = "accepted"        -> "local-hook"
    [] probe = "remote-rejected" -> "remote-rejected"
    [] probe = "non-ff"          -> "non-ff"
    [] probe = "network"         -> "transient"
    [] OTHER                     -> "deterministic"

RepairablePush(outcome) == outcome \in {"local-hook", "remote-rejected"}
=============================================================================
