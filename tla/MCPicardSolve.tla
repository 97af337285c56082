--------------------------- MODULE MCPicardSolve ---------------------------
(* Instances of PicardSolve for TLC. *)
EXTENDS PicardSolve

\* A corridor that reaches further down than up
NarrowWindow == [lo |-> -3, hi |-> 1]

\* A seed on either side, the degenerate one, and one outside of the corridor
AnySeed == {-1, 0, 1, 2}

\* Both signs, two sizes and a root
SomeResiduals == {-1, 0, 2}
=============================================================================
