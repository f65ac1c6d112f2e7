---------------------------- MODULE MCGrillApply ----------------------------
(* GrillApply on a breakdown of two slices, the second blocked by the first. *)
EXTENDS GrillApply

TwoSlices == {1, 2}
InOrder   == {<<1, 2>>}

Anywhere == {"tracker", "internal"}
Whole    == {{1, 2}}
Edited   == {{1}, {1, 2}}
Flat     == {{}}
On(d, o, e, p) == [disp |-> d, on |-> o, edits |-> e, dests |-> p]

Kinds ==
  {On("create", "none", Edited, Anywhere), On("create", "tracker", Whole, {"internal"}),
   On("split", "tracker", Whole, Anywhere), On("split", "internal", Whole, {"internal"}),
   On("split", "none", Whole, {"tracker"}), On("create", "none", Flat, Anywhere),
   On("research", "none", Flat, {"tracker"}), On("no_change", "tracker", Flat, {"tracker"})}
  \cup {On(d, "tracker", Flat, Anywhere) : d \in {"rewrite", "fix", "needs_split", "research"}}
=============================================================================
