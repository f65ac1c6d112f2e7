----------------------------- MODULE MCRelease -----------------------------
(* Values for checking Release: two children and the forges and delivery     *)
(* shapes an epic may ship through.                                          *)
EXTENDS Release

KidsC      == 1..2
On(shape, auto, keeps) == [shape |-> shape, autoMerge |-> auto, keeps |-> keeps]
SetupsC    == {On("classic", TRUE, FALSE), On("classic", FALSE, TRUE), On("local", TRUE, FALSE),
               On("stacked", TRUE, FALSE), On("stacked", FALSE, FALSE)}
TroublesC  == {"agent", "remote", "conflict", "ci", "forge", "tracker"}
GesturesC  == {"start", "kill", "stop", "mergekid", "closekid", "closepr", "drift", "mergeepic", "closeepic", "base"}
=============================================================================
