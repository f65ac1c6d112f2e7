---------------------------- MODULE MCIssueSync -----------------------------
(* Instances of IssueSync for TLC; what each repository goes through is in its cfg. *)
EXTENDS IssueSync

Apart == {{"queue", "relabel", "move", "crash"}, {"edit", "move", "resync", "crash"},
          {"edit", "queue", "retire", "manual"}, {"move", "retarget", "resync"}}
=============================================================================
