--------------------------- MODULE ShootingSolver ---------------------------
(***************************************************************************)
(* Numerics/ShootingSolver.py: solve_shooting, the outer loop that         *)
(* FullInstanton and the gradient-coupled instanton share.  A step comes   *)
(* from a bootstrap target, from a secant or from the escalation of a      *)
(* stall, is clipped to the trust radius and to the corridor, and is       *)
(* halved until a probe succeeds that does not make |residual| worse.      *)
(*                                                                         *)
(* lam, steps and radii are integers: multiples of a unit far below every  *)
(* tolerance, so that halving rounds towards zero.  evaluate is a map from *)
(* lam to a residual, of which only the order matters; the size of a       *)
(* secant step is left open, its sign is the code's.                       *)
(***************************************************************************)
EXTENDS Integers

CONSTANTS
    Problems,           \* residual maps: see ProblemType
    Fails,              \* the value of a residual map where evaluate has no success
    Tol,                \* |residual| < Tol is converged
    lam0,
    Bounds,             \* lam_bounds: [lo, hi]
    BootstrapTargets,   \* bootstrap_target, or None
    None,
    MaxOuter, MaxBacktrack,
    TrustRadius0, TrustRadiusMin, TrustRadiusMax,
    StallGrowth,
    HasDeadline

VARIABLES
    problem,        \* the residual map
    target,         \* bootstrap_target
    pc,
    lam, lamPrev,
    residual, residualPrev,
    trust,          \* trust_radius
    stallSign,
    guessed,        \* direction_is_guessed
    outer,          \* outer_iterations
    pending,        \* the residual of the evaluation that is carried over
    step,           \* the step being tried ...
    bestStep,       \* ... and the last one whose probe succeeded, with its residual
    bestEval,
    probes,         \* probes of this iteration so far
    committed,      \* the lam whose evaluation was committed last
    result          \* how the loop ended

loop == <<lam, lamPrev, residual, residualPrev, trust, stallSign, guessed, outer>>
search == <<step, bestStep, bestEval, probes>>
vars == <<problem, target, pc, loop, pending, search, committed, result>>

Abs(x) == IF x < 0 THEN -x ELSE x
Least(x, y) == IF x < y THEN x ELSE y
Greatest(x, y) == IF x < y THEN y ELSE x
Sign(x) == IF x < 0 THEN -1 ELSE 1
Half(x) == Sign(x) * (Abs(x) \div 2)

Corridor == Bounds.lo .. Bounds.hi

ASSUME SolverAssumption ==
    /\ Bounds.lo \in Int /\ Bounds.hi \in Int
    /\ lam0 \in Corridor
    /\ Fails \notin Int /\ None \notin Int
    /\ \A p \in Problems : \A x \in Corridor : p[x] \in Int \cup {Fails}
    /\ BootstrapTargets \subseteq Int \cup {None}
    /\ MaxOuter \in Nat \ {0} /\ MaxBacktrack \in Nat \ {0}
    /\ TrustRadius0 \in Nat /\ TrustRadiusMin \in Nat /\ TrustRadiusMax \in Nat
    /\ TrustRadiusMin <= TrustRadius0 /\ TrustRadius0 <= TrustRadiusMax
    /\ StallGrowth \in Nat \ {0}
    /\ Tol \in Nat

Init ==
    /\ problem \in Problems
    /\ target \in BootstrapTargets
    /\ pc = "outer"
    /\ lam = lam0 /\ lamPrev = None
    /\ residual = 0 /\ residualPrev = None
    /\ trust = TrustRadius0
    /\ stallSign = None
    /\ guessed = FALSE
    /\ outer = 0
    /\ pending = None
    /\ step = 0 /\ bestStep = 0 /\ bestEval = None /\ probes = 0
    /\ committed = None
    /\ result = "none"

-----------------------------------------------------------------------------
Finish(how) == pc' = "finished" /\ result' = how

\* The deadline is looked at before anything else of an outer iteration
BudgetExceeded ==
    /\ pc = "outer"
    /\ HasDeadline
    /\ Finish("budget_exceeded")
    /\ UNCHANGED <<problem, target, loop, pending, search, committed>>

(***************************************************************************)
(* The top of an outer iteration: the carried evaluation or a fresh one    *)
(* becomes the current point and is committed.                             *)
(***************************************************************************)
Outer ==
    /\ pc = "outer"
    /\ outer' = outer + 1
    /\ pending' = None
    /\ LET r == IF pending # None THEN pending ELSE problem[lam] IN
          IF r = Fails
            THEN Finish("failed") /\ UNCHANGED <<residual, committed>>
            ELSE /\ residual' = r
                 /\ committed' = lam
                 /\ IF Abs(r) < Tol THEN Finish("converged")
                    ELSE IF outer + 1 = MaxOuter THEN Finish("exhausted")
                    ELSE pc' = "propose" /\ UNCHANGED result
    /\ UNCHANGED <<problem, target, lam, lamPrev, residualPrev, trust, stallSign, guessed,
                   search>>

-----------------------------------------------------------------------------
(***************************************************************************)
(* The step.  Only at the first iteration there is no previous point; two  *)
(* residuals that cannot be told apart give no secant either.              *)
(***************************************************************************)
Secant == lamPrev # None /\ residual # residualPrev

\* The sign of -residual * (lam - lam_prev) / (residual - residual_prev)
SecantSign ==
    -Sign(residual) * Sign(lam - lamPrev) * Sign(residual - residualPrev)

\* Slip: the first step is aimed without regard to the corridor
UnclampedTarget(x) == x

Clamp(x) == Least(Greatest(x, Bounds.lo), Bounds.hi)
Capped(r) == Least(r, TrustRadiusMax)

\* The target is clipped, and the step derived from it
TryFrom(s) ==
    /\ step' = Clamp(lam + s) - lam
    /\ bestStep' = step' /\ bestEval' = None
    /\ probes' = 0
    /\ pc' = "probe"

AimAtTarget ==
    /\ lamPrev = None /\ target # None
    /\ LET s == target - lam IN
          /\ stallSign' = Sign(s)
          /\ trust' = IF Abs(s) > trust THEN Capped(Abs(s)) ELSE trust
          /\ TryFrom(s)
    /\ guessed' = TRUE

Escalate ==
    /\ ~Secant /\ (lamPrev # None \/ target = None)
    /\ trust' = Capped(trust * StallGrowth)
    /\ stallSign' = IF stallSign = None THEN -Sign(residual) ELSE stallSign
    /\ TryFrom(stallSign' * trust')
    /\ guessed' = TRUE

\* A secant that asks for more than the radius makes the radius grow, too
FollowSecant ==
    /\ Secant
    /\ \E size \in 0 .. TrustRadiusMax + 1 :
          LET clipped == Capped(Least(trust * StallGrowth, size)) IN
          /\ trust' = IF size > trust THEN clipped ELSE trust
          /\ TryFrom(SecantSign * (IF size > trust THEN clipped ELSE size))
    /\ guessed' = FALSE
    /\ UNCHANGED stallSign

Propose ==
    /\ pc = "propose"
    /\ lamPrev' = lam /\ residualPrev' = residual
    /\ AimAtTarget \/ Escalate \/ FollowSecant
    /\ UNCHANGED <<problem, target, lam, residual, outer, pending, committed, result>>

-----------------------------------------------------------------------------
(***************************************************************************)
(* Backtracking.                                                           *)
(***************************************************************************)
\* Slip: a step that went past every probe is taken instead of the last that succeeded
TakenLast == step
Taken == bestStep

\* Slip: when no probe succeeded the step is made all the same
LandingRegardless == lam + Taken
Landing == IF bestEval # None THEN lam + Taken ELSE lam

Probe ==
    /\ pc = "probe"
    /\ LET r == problem[lam + step] IN
          /\ probes' = probes + 1
          /\ bestStep' = IF r # Fails THEN step ELSE bestStep
          /\ bestEval' = IF r # Fails THEN r ELSE bestEval
          /\ IF r # Fails /\ Abs(r) <= Abs(residual)
               THEN pc' = "accept" /\ UNCHANGED step
               ELSE /\ step' = Half(step)
                    /\ pc' = IF probes + 1 = MaxBacktrack THEN "accept" ELSE "probe"
    /\ UNCHANGED <<problem, target, loop, pending, committed, result>>

(***************************************************************************)
(* The last probe that succeeded is taken and its evaluation carried over. *)
(* When none did, lam stays and a guessed direction is turned round.       *)
(***************************************************************************)
Accept ==
    /\ pc = "accept"
    /\ lam' = Landing
    /\ pending' = bestEval
    /\ stallSign' = IF bestEval = None /\ guessed /\ stallSign # None
                      THEN -stallSign ELSE stallSign
    /\ IF probes = 1 /\ bestEval # None
         THEN trust' \in {Capped(trust), Capped(trust + 1)}
         ELSE trust' = Greatest(Half(trust), TrustRadiusMin)
    /\ pc' = "outer"
    /\ UNCHANGED <<problem, target, lamPrev, residual, residualPrev, guessed, outer, search,
                   committed, result>>

Next == BudgetExceeded \/ Outer \/ Propose \/ Probe \/ Accept

Spec == Init /\ [][Next]_vars

-----------------------------------------------------------------------------
TypeOK ==
    /\ pc \in {"outer", "propose", "probe", "accept", "finished"}
    /\ lam \in Int /\ step \in Int /\ bestStep \in Int
    /\ lamPrev \in Int \cup {None}
    /\ trust \in TrustRadiusMin .. TrustRadiusMax
    /\ stallSign \in {-1, 1, None}
    /\ guessed \in BOOLEAN
    /\ outer \in 0 .. MaxOuter
    /\ probes \in 0 .. MaxBacktrack
    /\ committed \in Int \cup {None}

(***************************************************************************)
(* evaluate is never asked for a point outside of the corridor: neither a  *)
(* bootstrap target nor an escalation nor a halved step gets out of it.    *)
(***************************************************************************)
CorridorHolds ==
    /\ lam \in Corridor
    /\ pc = "probe" => lam + step \in Corridor

(***************************************************************************)
(* An evaluation that is carried over, instead of being made again, is the *)
(* one at the point the loop goes on from; and what is committed last is   *)
(* what the result is about, unless the deadline passed.                   *)
(***************************************************************************)
PendingIsCurrent ==
    /\ pending # None => pending = problem[lam]
    /\ result \in {"converged", "exhausted"} => committed = lam /\ residual = problem[lam]

(***************************************************************************)
(* Where evaluate is safe at lam0, no iteration starts from a point where  *)
(* it has no success: a step that failed at every scale is not made.       *)
(***************************************************************************)
NeverFailsAtOuter == problem[lam0] # Fails => result # "failed"

=============================================================================
