--------------------------- MODULE SlowRollSolve ---------------------------
(***************************************************************************)
(* _compute_slow_roll_instanton: the search for the response field's value *)
(* at the start that takes phi to its target.  shoot(P) is known only by   *)
(* its sign, and is NaN where the integration fails.  The search keeps one *)
(* end at P = 0 and moves the other, which stands at 10 scale 2^level, to  *)
(* the side the residual at 0 calls for.                                   *)
(***************************************************************************)
EXTENDS Integers, Sequences

CONSTANTS
    MaxExpansions,  \* 20
    Levels          \* levels at which the residual is told apart: an interval around 0

VARIABLE sr
Signs == {"minus", "zero", "plus", "nan"}
Opposed(a, b) == {a, b} = {"minus", "plus"}
IdleSR == [at |-> "idle"]

Nearest(level) ==
    CHOOSE k \in Levels : \A j \in Levels : (level - k) * (level - k) <= (level - j) * (level - j)

\* The residual at the outer end; with a residual of zero at P = 0 the scale
\* is zero, and the outer end stays at 0
Shoot(s, level) == IF s.unforced = "zero" THEN "zero" ELSE s.answers[Nearest(level)]

\* The guard on H^2, then the residual at P = 0
StartSR(hsq) ==
    /\ sr.at = "idle"
    /\ \E unforced \in Signs, answers \in [Levels -> Signs] :
          sr' = IF ~hsq THEN [at |-> "failed", reason |-> "H_sq", converged |-> FALSE]
                ELSE IF unforced = "nan" THEN [at |-> "failed", reason |-> "unforced", converged |-> FALSE]
                ELSE [at |-> "bracket", unforced |-> unforced, answers |-> answers, level |-> 0,
                      outer |-> Shoot([unforced |-> unforced, answers |-> answers], 0), expansions |-> 0]

\* A failed integration halves the bracket, anything else doubles it
Move(s) == IF s.outer = "nan" THEN s.level - 1 ELSE s.level + 1

Expand ==
    /\ sr.at = "bracket" /\ sr.expansions < MaxExpansions /\ ~Opposed(sr.unforced, sr.outer)
    /\ sr' = [sr EXCEPT !.level = Move(sr), !.outer = Shoot(sr, Move(sr)),
                        !.expansions = @ + 1]

BracketingFailed ==
    /\ sr.at = "bracket" /\ sr.expansions = MaxExpansions /\ ~Opposed(sr.unforced, sr.outer)
    /\ sr' = [at |-> "failed", reason |-> "bracketing", converged |-> FALSE]

\* brentq: a root, a ValueError (NaN met inside), or no convergence in 200
\* iterations, which is a RuntimeError nobody catches
FindRoot ==
    /\ sr.at = "bracket" /\ Opposed(sr.unforced, sr.outer)
    /\ sr' \in {[sr EXCEPT !.at = "final"],
                [at |-> "failed", reason |-> "brentq", converged |-> FALSE],
                [at |-> "raised"]}

\* The trajectory is integrated again on the grid; a failure here leaves
\* diagnostics that say converged
FinalSolve ==
    /\ sr.at = "final"
    /\ sr' \in {[sr EXCEPT !.at = "solved"],
                [at |-> "failed", reason |-> "final", converged |-> TRUE]}

NextSR == Expand \/ BracketingFailed \/ FindRoot \/ FinalSolve
=============================================================================
