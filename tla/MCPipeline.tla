----------------------------- MODULE MCPipeline -----------------------------
(* Instances of Pipeline for TLC; the gestures each one plays are in its cfg. *)
EXTENDS Pipeline

HandsOff == [remote |-> "github", autoMerge |-> TRUE, browser |-> "never", members |-> {1},
             policy |-> "unanimous", ci |-> "auto", skips |-> {}]
Bucketed == [HandsOff EXCEPT !.remote = "bitbucket", !.browser = "always",
                             !.members = {1, 2, 3}, !.policy = "majority"]
Watched  == [HandsOff EXCEPT !.autoMerge = FALSE, !.ci = "on"]
Offline  == [HandsOff EXCEPT !.remote = "none"]
Handmade == [HandsOff EXCEPT !.remote = "none", !.autoMerge = FALSE, !.skips = {"verify", "ci"}]

Kept     == {Bucketed, Watched, Offline, Handmade}
=============================================================================
