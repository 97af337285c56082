-------------------------- MODULE InstantonLedger --------------------------
(***************************************************************************)
(* What a user of the store may rely on: every instanton of the campaign   *)
(* gets one verdict, solved or failed, which is never withdrawn, changed   *)
(* or given twice, however often the program is killed and run again.      *)
(* UnifiedPipeline implements it, once for each kind of instanton.         *)
(***************************************************************************)
CONSTANT Points

VARIABLE verdict

Verdicts == {"solved", "failed"}

Init == verdict = [p \in Points |-> "none"]

Settle(p) ==
    /\ verdict[p] = "none"
    /\ \E v \in Verdicts : verdict' = [verdict EXCEPT ![p] = v]

Next == \E p \in Points : Settle(p)

Spec == Init /\ [][Next]_verdict

=============================================================================
