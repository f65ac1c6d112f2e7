---------------------------- MODULE MCFolderRun ----------------------------
(* Values for checking FolderRun: two children, and the forges and bases    *)
(* they may have.                                                           *)
EXTENDS FolderRun

KidsC   == 1..2
On(forge, auto, shared) == [forge |-> forge, autoMerge |-> auto, shared |-> shared]
SetupsC == {On("github", TRUE, KidsC), On("github", FALSE, {1}), On("bitbucket", TRUE, {1}), On("none", TRUE, KidsC)}
TroublesC == {"unread", "park", "stray", "agent", "refused", "git", "hub", "forge", "ci"}
GesturesC == {"rerun", "runonce", "reset", "requeue", "kill", "wip", "tidy", "elsewhere", "merge", "close"}
=============================================================================
