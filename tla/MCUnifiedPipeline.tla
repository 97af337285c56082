-------------------------- MODULE MCUnifiedPipeline --------------------------
(* Instances of UnifiedPipeline for TLC. *)
EXTENDS UnifiedPipelineInv, TLC

CONSTANTS t1, t2, p1, p2

\* Two grid items, two points
TwoPoints == t1 :> p1 @@ t2 :> p2

(***************************************************************************)
(* Everything works; the full or the slow-roll solve fails; both do; both  *)
(* work but the full path of the compaction function does not.             *)
(***************************************************************************)
Result(fi, sri, full, slow) == [fi |-> fi, sri |-> sri, full |-> full, slow |-> slow]

AllOutcomes ==
    {Result(TRUE, TRUE, TRUE, TRUE), Result(FALSE, TRUE, FALSE, TRUE),
     Result(TRUE, FALSE, TRUE, FALSE), Result(FALSE, FALSE, FALSE, FALSE),
     Result(TRUE, TRUE, FALSE, TRUE)}
=============================================================================
