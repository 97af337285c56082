---------------------------- MODULE PicardSolve ----------------------------
(***************************************************************************)
(* ComputeTargets/GradientCoupledInstanton/picard.py: solve_picard, with a *)
(* spatially coupled grid.  Three loops are nested.  picard_inner sweeps   *)
(* backward and forward at a fixed lam, from the grids that were committed *)
(* last, until the sweeps settle.  _bracket_from_seed expands from the     *)
(* seed until the residual changes sign, and solve_shooting (whose choice  *)
(* of steps is ShootingSolver) searches from there; both evaluate a lam by *)
(* a call of picard_inner.  A deadline may pass at any instant and is      *)
(* noticed by each loop at its own places.                                 *)
(*                                                                         *)
(* What a sweep does to the residual at the core is left open: it depends  *)
(* on lam, on the warm start and on how many sweeps were made.             *)
(***************************************************************************)
EXTENDS Integers, Sequences

CONSTANTS
    Seeds,          \* lambda_seed: what the FullInstanton suggests
    Bounds,         \* lam_bounds: [lo, hi]
    Residuals,      \* phi(core, N_total) - phi_end
    Tol,            \* OUTER_TOL
    MaxOuter, MaxInner, MaxBacktrack,
    BracketGrowth, BracketMaxSteps,
    Required,       \* INNER_CONSECUTIVE_REQUIRED
    Patience,       \* DIVERGENCE_GROWTH_PATIENCE
    TrendWindow,    \* RESIDUAL_TREND_WINDOW
    None,
    HasDeadline     \* wallclock_budget_seconds is given

(***************************************************************************)
(* The change a sweep makes to the grids: below INNER_TOL, below           *)
(* DIVERGENCE_RESIDUAL_FLOOR, or above it, where sizes are compared.       *)
(***************************************************************************)
Calm == 0
Floor == 2
Changes == Calm .. Floor + Patience

\* How solve_shooting ends
Endings == {"converged", "exhausted", "failed", "budget_exceeded"}

ASSUME PicardAssumption ==
    /\ Seeds \subseteq Int /\ Bounds.lo \in Int /\ Bounds.hi \in Int
    /\ Bounds.lo <= 0 /\ 0 <= Bounds.hi
    /\ Residuals \subseteq Int /\ Tol \in Nat \ {0}
    /\ {MaxOuter, MaxInner, MaxBacktrack, BracketMaxSteps, Required, Patience} \subseteq Nat \ {0}
    /\ BracketGrowth \in Nat \ {0}
    /\ TrendWindow \in Nat \ {0, 1}
    /\ HasDeadline \in BOOLEAN
    /\ None \notin Endings

VARIABLES
    seed,       \* lambda_seed
    late,       \* has the deadline passed?
    hit,        \* budget_state["hit"]
    place,      \* which loop evaluates, or goes on
    call,       \* the picard_inner that is running
    answer,     \* what evaluate has returned, until it is used
    grids,      \* what commit was given last
    trend,      \* the last of outer_residual_history
    lam,        \* lam_prev of the bracket, lam of the search
    target,     \* bootstrap_target
    steps,      \* expansions of the bracket so far
    outer,      \* outer_iterations
    step,       \* the step of the search that is tried
    probes,     \* ... and how many of its halves were
    best,       \* best_eval
    pending,    \* the evaluation the search carries over
    ended       \* how the search ended: ShootingResult

inner == <<call, answer, trend, hit>>
bracket == <<target, steps>>
search == <<outer, step, probes, best, pending, ended>>
vars == <<seed, late, place, inner, grids, lam, bracket, search>>

Abs(x) == IF x < 0 THEN -x ELSE x
Sign(x) == IF x < 0 THEN -1 ELSE IF x > 0 THEN 1 ELSE 0
Half(x) == Sign(x) * (Abs(x) \div 2)

Corridor == Bounds.lo .. Bounds.hi
Clamp(x) == IF x < Bounds.lo THEN Bounds.lo ELSE IF x > Bounds.hi THEN Bounds.hi ELSE x

\* An evaluation's grids: of which lam, their residual, and whether a sweep made them
Grids(x, r, swept) == [lam |-> x, residual |-> r, swept |-> swept]
Success(g) == [ok |-> TRUE, grids |-> g]
Failure == [ok |-> FALSE]

\* evaluate(x) begins: the grids are those of the warm start
Evaluate(x) ==
    call' = [grids |-> Grids(x, grids.residual, FALSE),
             sweeps |-> 0, calm |-> 0, grown |-> 0, last |-> None]

\* The onion interpolation ends, at the core, on the FullInstanton's own residual
Init ==
    /\ seed \in Seeds
    /\ late = FALSE /\ hit = FALSE
    /\ place = "seed"
    /\ \E r \in Residuals :
          /\ grids = Grids(None, r, FALSE)
          /\ call = [grids |-> Grids(seed, r, FALSE),
                     sweeps |-> 0, calm |-> 0, grown |-> 0, last |-> None]
    /\ answer = None
    /\ trend = <<>>
    /\ lam = seed /\ target = None /\ steps = 0
    /\ outer = 0 /\ step = 0 /\ probes = 0
    /\ best = None /\ pending = None
    /\ ended = None

Deadline ==
    /\ HasDeadline /\ ~late /\ place # "end"
    /\ late' = TRUE
    /\ UNCHANGED <<seed, place, inner, grids, lam, bracket, search>>

-----------------------------------------------------------------------------
(***************************************************************************)
(* picard_inner.                                                           *)
(***************************************************************************)
Sweeping == call # None

\* The residual's size joins outer_residual_history, of which only the end is read
LastOf(s, n) == SubSeq(s, IF Len(s) > n THEN Len(s) - n + 1 ELSE 1, Len(s))
Window(s) == LastOf(s, TrendWindow)

Return(a) ==
    /\ call' = None
    /\ answer' = a
    /\ trend' = IF a.ok THEN Window(Append(trend, Abs(a.grids.residual))) ELSE trend

Elsewhere == UNCHANGED <<seed, place, grids, lam, bracket, search>>

\* Before a sweep: the grids of the sweep before, or of the warm start, will have to do
StopSweeping ==
    /\ Sweeping /\ late
    /\ hit' = TRUE
    /\ Return(Success(call.grids))
    /\ UNCHANGED late /\ Elsewhere

\* The deadline passes within a sweep: a right-hand side raises
Overtaken ==
    /\ Sweeping /\ ~late /\ HasDeadline
    /\ late' = TRUE /\ hit' = TRUE
    /\ Return(Failure)
    /\ Elsewhere

\* The backward or the forward pass does not reach its end
PassFails ==
    /\ Sweeping /\ ~late
    /\ Return(Failure)
    /\ UNCHANGED <<late, hit>> /\ Elsewhere

\* Slip: only the sweeps that settle are counted
CountCalm(c, change) == IF change = Calm THEN c.sweeps + 1 ELSE c.sweeps
CountSweep(c, change) == c.sweeps + 1

(***************************************************************************)
(* A whole sweep.  One that moved the grids more than the one before, and  *)
(* by more than the floor, Patience times in a row, is a divergence;       *)
(* Required calm ones in a row settle the matter; so do MaxInner of any.   *)
(***************************************************************************)
Sweep ==
    /\ Sweeping /\ ~late
    /\ \E change \in Changes, r \in Residuals :
          LET grows == call.last # None /\ change > call.last /\ change >= Floor
              after == [grids |-> Grids(call.grids.lam, r, TRUE),
                        sweeps |-> CountSweep(call, change),
                        calm |-> IF change = Calm THEN call.calm + 1 ELSE 0,
                        grown |-> IF grows THEN call.grown + 1 ELSE 0,
                        last |-> change]
          IN  IF after.grown = Patience THEN Return(Failure)
              ELSE IF after.calm = Required \/ after.sweeps = MaxInner
                THEN Return(Success(after.grids))
                ELSE call' = after /\ UNCHANGED <<answer, trend>>
    /\ UNCHANGED <<late, hit>> /\ Elsewhere

-----------------------------------------------------------------------------
(***************************************************************************)
(* _bracket_from_seed.                                                     *)
(***************************************************************************)
Idle(where) == place = where /\ call = None /\ answer = None
Answered(where) == place = where /\ answer # None
Used == answer' = None

\* The seed is evaluated wherever it lies; if that fails, the search starts at 0
SeedEvaluated ==
    /\ Answered("seed")
    /\ Used
    /\ IF answer.ok
         THEN place' = "bracket" /\ grids' = answer.grids /\ UNCHANGED <<lam, target>>
         ELSE place' = "outer" /\ lam' = 0 /\ target' = seed /\ UNCHANGED grids
    /\ UNCHANGED <<seed, late, call, trend, hit, steps, search>>

Expanded == Clamp(lam * BracketGrowth)

Expand ==
    /\ Idle("bracket")
    /\ IF steps = BracketMaxSteps \/ Expanded = lam
         THEN place' = "outer" /\ UNCHANGED <<call, steps>>
         ELSE Evaluate(Expanded) /\ steps' = steps + 1 /\ UNCHANGED place
    /\ UNCHANGED <<seed, late, answer, trend, hit, grids, lam, target, search>>
BracketEnds(r) == target' = answer.grids.lam /\ UNCHANGED lam

(***************************************************************************)
(* grids still is the evaluation at lam when the next one is judged.       *)
(***************************************************************************)
ExpansionEvaluated ==
    /\ Answered("bracket")
    /\ Used
    /\ \/ ~answer.ok /\ place' = "outer" /\ UNCHANGED <<grids, lam, target>>
       \/ /\ answer.ok
          /\ grids' = answer.grids
          /\ IF Sign(grids.residual) \notin {0, Sign(answer.grids.residual)}
               THEN place' = "outer" /\ BracketEnds(answer.grids.residual)
               ELSE lam' = answer.grids.lam /\ UNCHANGED <<place, target>>
    /\ UNCHANGED <<seed, late, call, trend, hit, steps, search>>

-----------------------------------------------------------------------------
(***************************************************************************)
(* solve_shooting, as far as it calls evaluate and commit.                 *)
(***************************************************************************)
Finish(how) == place' = "end" /\ ended' = how

OuterIteration ==
    /\ Idle("outer")
    /\ IF late
         THEN Finish("budget_exceeded") /\ UNCHANGED <<call, answer, outer, pending>>
         ELSE /\ outer' = outer + 1
              /\ place' = "current"
              /\ IF pending # None
                   THEN answer' = Success(pending) /\ pending' = None /\ UNCHANGED call
                   ELSE Evaluate(lam) /\ UNCHANGED <<answer, pending>>
              /\ UNCHANGED ended
    /\ UNCHANGED <<seed, late, trend, hit, grids, lam, bracket, step, probes, best>>

\* Slip: commit comes after the test
CommitLater(g) == grids' = IF Abs(g.residual) < Tol THEN grids ELSE g
Commit(g) == grids' = g

(***************************************************************************)
(* The last evaluation stays in answer when it ends the search.  Any       *)
(* target in the corridor may be the next.                                 *)
(***************************************************************************)
CurrentEvaluated ==
    /\ Answered("current")
    /\ IF ~answer.ok THEN Finish("failed") /\ UNCHANGED <<answer, grids, step, probes, best>>
       ELSE /\ Commit(answer.grids)
            /\ IF Abs(answer.grids.residual) < Tol
                 THEN Finish("converged") /\ UNCHANGED <<answer, step, probes, best>>
               ELSE IF outer = MaxOuter
                 THEN Finish("exhausted") /\ UNCHANGED <<answer, step, probes, best>>
               ELSE /\ place' = "probe"
                    /\ Used
                    /\ \E x \in Corridor : step' = x - lam
                    /\ probes' = 0 /\ best' = None
                    /\ UNCHANGED ended
    /\ UNCHANGED <<seed, late, call, trend, hit, lam, bracket, outer, pending>>

Probe ==
    /\ Idle("probe")
    /\ Evaluate(lam + step)
    /\ UNCHANGED <<seed, late, place, answer, trend, hit, grids, lam, bracket, search>>

\* Slip: a step all of whose probes failed is made all the same
GoRegardless(b) == lam + step
GoTo(b) == IF b # None THEN b.lam ELSE lam

ProbeEvaluated ==
    /\ Answered("probe")
    /\ Used
    /\ probes' = probes + 1
    /\ best' = IF answer.ok THEN answer.grids ELSE best
    /\ IF \/ answer.ok /\ Abs(answer.grids.residual) <= Abs(grids.residual)
          \/ probes + 1 = MaxBacktrack
         THEN place' = "outer" /\ lam' = GoTo(best') /\ pending' = best' /\ UNCHANGED step
         ELSE step' = Half(step) /\ UNCHANGED <<place, lam, pending>>
    /\ UNCHANGED <<seed, late, call, trend, hit, grids, bracket, outer, ended>>

Next ==
    \/ Deadline
    \/ StopSweeping \/ Overtaken \/ PassFails \/ Sweep
    \/ SeedEvaluated \/ Expand \/ ExpansionEvaluated
    \/ OuterIteration \/ CurrentEvaluated \/ Probe \/ ProbeEvaluated

Spec == Init /\ [][Next]_vars

\* The computation goes on; nobody has to set a deadline
FairSpec == Spec /\ WF_vars(Next)

-----------------------------------------------------------------------------
(***************************************************************************)
(* The result: what is reported of a search that has ended.                *)
(***************************************************************************)
Converged == ended = "converged"

OutOfBudget == ended = "budget_exceeded" \/ hit

\* Slip: a failure is a failure, whether or not the deadline made it one
BailRegardlessOfBudget == ~Converged /\ ended # "budget_exceeded" /\ outer < MaxOuter
BailIsOdeFailure == ~Converged /\ ~OutOfBudget /\ outer < MaxOuter

bailout_reason ==
    IF Converged THEN "converged"
    ELSE IF OutOfBudget THEN "wallclock_budget"
    ELSE IF BailIsOdeFailure THEN "ode_failure" ELSE "max_outer_exhausted"

\* Sizes that differ by less than RESIDUAL_TREND_RELATIVE_THRESHOLD are the same here
bailout_tag ==
    IF Converged THEN "converged"
    ELSE IF BailIsOdeFailure \/ Len(trend) < 2 THEN "blown-up"
    ELSE IF trend[Len(trend)] > trend[1] THEN "diverging"
    ELSE IF trend[Len(trend)] < trend[1] THEN "descending" ELSE "floored"

-----------------------------------------------------------------------------
(***************************************************************************)
(* The result of a converged solve hangs together: the fields that are     *)
(* stored belong to the lam that is stored, they end within the tolerance, *)
(* a sweep at that lam made them unless the deadline cut it short, and lam *)
(* is in the feasible corridor if the seed was.                            *)
(***************************************************************************)
ConvergedHangsTogether ==
    Converged =>
        /\ grids.lam = lam
        /\ Abs(grids.residual) < Tol
        /\ grids.swept \/ hit
        /\ seed \in Corridor => lam \in Corridor

(***************************************************************************)
(* The label of a solve that did not converge, which is inferred from      *)
(* counts and flags, is its story: a structural failure is one of the      *)
(* solver, in the last evaluation, and not of the clock; what the clock    *)
(* ended has the label of its residuals; and, short of the last iteration, *)
(* every failure that the clock did not cause is labelled as one.          *)
(***************************************************************************)
ReasonIsTrue ==
    place = "end" =>
        /\ bailout_reason = "ode_failure" =>
              ended = "failed" /\ answer = Failure /\ bailout_tag = "blown-up"
        /\ ended = "failed" /\ ~hit /\ outer < MaxOuter => bailout_reason = "ode_failure"
        /\ bailout_reason = "wallclock_budget" =>
              late /\ (Len(trend) >= 2 => bailout_tag # "blown-up")
        /\ bailout_reason = "max_outer_exhausted" => outer = MaxOuter

(***************************************************************************)
(* An iteration after the first starts from the fields of its own lam: the *)
(* evaluation it carries over is that of lam, and when there is none it    *)
(* evaluates lam again with the fields of lam for a warm start.            *)
(***************************************************************************)
WarmStartIsOwn ==
    place = "outer" /\ outer > 0 =>
        IF pending # None THEN pending.lam = lam ELSE grids.lam = lam

(***************************************************************************)
(* _bracket_from_seed's docstring: when a bracket has been found, lam0 is  *)
(* "the LAST point evaluated", so that the search begins with fields of    *)
(* its own lam.  The code returns the point before it, with the fields of  *)
(* the last.  (target is the seed where the seed could not be evaluated.)  *)
(***************************************************************************)
SearchStartsAtLast ==
    place = "outer" /\ outer = 0 /\ target \notin {None, seed} => grids.lam = lam

\* Whatever the sweeps do, the three loops come to an end
SolveEnds == <>(place = "end")

=============================================================================
