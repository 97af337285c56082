------------------------- MODULE PicardSolveProofs -------------------------
(***************************************************************************)
(* What solve_picard reports belongs together, for any number of sweeps,   *)
(* expansions, iterations and probes and whenever the deadline passes.     *)
(***************************************************************************)
EXTENDS PicardSolve, TLAPS

Typed ==
    /\ seed \in Int /\ lam \in Int /\ step \in Int
    /\ outer \in Nat
    /\ place \in {"seed", "bracket", "outer", "current", "probe", "end"}

\* The lam that is being evaluated, or was evaluated last
Aim ==
    IF place = "seed" THEN seed
    ELSE IF place = "bracket" THEN Expanded
    ELSE IF place = "probe" THEN lam + step
    ELSE lam

\* Grids that a sweep made, unless the deadline cut it short
Made(g) == g.swept \/ hit

\* One evaluation at a time, at the lam that the loop asked for
Evaluation ==
    /\ call = None \/ answer = None
    /\ call # None =>
          place \in {"seed", "bracket", "current", "probe"} /\ call.grids.lam = Aim
    /\ answer # None =>
          /\ place \in {"seed", "bracket", "current", "probe", "end"}
          /\ \/ answer = Failure
             \/ answer.ok /\ answer.grids.lam = Aim /\ Made(answer.grids)

\* The grids that were committed, and those that are carried over, are those of lam
Carried ==
    /\ place = "probe" => grids.lam = lam
    /\ place = "outer" /\ outer > 0 /\ pending = None => grids.lam = lam
    /\ place = "outer" /\ pending # None => pending.lam = lam /\ Made(pending)
    /\ place = "probe" /\ best # None => best.lam \in Int /\ Made(best)

\* A search from within the corridor stays there
Inside ==
    seed \in Corridor =>
        /\ lam \in Corridor
        /\ place = "probe" => lam + step \in Corridor
        /\ place = "probe" /\ best # None => best.lam \in Corridor

\* The iterations, the clock and the end
Story ==
    /\ hit => late
    /\ place \in {"seed", "bracket"} => outer = 0 /\ pending = None
    /\ place \in {"outer", "probe"} => outer < MaxOuter
    /\ outer <= MaxOuter
    /\ ended # None <=> place = "end"
    /\ ended # None => ended \in Endings
    /\ ended = "failed" => answer = Failure
    /\ ended = "exhausted" => outer = MaxOuter
    /\ ended = "budget_exceeded" => late
    /\ ended = "converged" =>
          grids.lam = lam /\ Abs(grids.residual) < Tol /\ Made(grids)

PicardInv == Typed /\ Evaluation /\ Carried /\ Inside /\ Story

-----------------------------------------------------------------------------
(***************************************************************************)
(* The corridor.                                                           *)
(***************************************************************************)
\* Clipping a target puts it into the corridor
LEMMA ClampIsInside ==
    ASSUME NEW x \in Int
    PROVE  Clamp(x) \in Corridor
BY PicardAssumption DEF Clamp, Corridor

LEMMA HalfIsInt ==
    ASSUME NEW s \in Int
    PROVE  Half(s) \in Int
<1>1. CASE s < 0
  BY <1>1, SMT DEF Half, Sign, Abs
<1>2. CASE ~(s < 0)
  BY <1>2, SMT DEF Half, Sign, Abs
<1> QED BY <1>1, <1>2

\* Half of a step within the corridor stays in it: the corridor is convex
LEMMA HalfStaysInside ==
    ASSUME NEW x \in Corridor, NEW s \in Int, x + s \in Corridor
    PROVE  x + Half(s) \in Corridor
<1>1. CASE s < 0
  BY <1>1, PicardAssumption, SMT DEF Half, Sign, Abs, Corridor
<1>2. CASE ~(s < 0)
  BY <1>2, PicardAssumption, SMT DEF Half, Sign, Abs, Corridor
<1> QED BY <1>1, <1>2

LEMMA ExpandedIsInside ==
    ASSUME lam \in Int
    PROVE  Expanded \in Int /\ Expanded \in Corridor
<1>1. lam * BracketGrowth \in Int
  BY PicardAssumption
<1> QED BY <1>1, ClampIsInside, PicardAssumption DEF Expanded, Corridor

-----------------------------------------------------------------------------
(***************************************************************************)
(* The invariant, action by action.                                        *)
(***************************************************************************)
LEMMA InitPicard == Init => PicardInv
<1> SUFFICES ASSUME Init PROVE PicardInv
  OBVIOUS
<1>1. Typed
  BY PicardAssumption DEF Init, Typed
<1>2. Evaluation
  BY DEF Init, Evaluation, Aim, Grids
<1>3. Carried /\ Inside
  BY DEF Init, Carried, Inside
<1>4. Story
  <2>1. ~hit /\ ended = None /\ outer = 0 /\ place = "seed" /\ pending = None
    BY DEF Init
  <2>2. 0 < MaxOuter /\ 0 <= MaxOuter /\ ended \notin Endings
    BY <2>1, PicardAssumption
  <2> QED BY <2>1, <2>2 DEF Story, Endings
<1> QED BY <1>1, <1>2, <1>3, <1>4 DEF PicardInv

\* A sweep, and what may come in its way, leaves the outer loops alone
LEMMA InnerKeeps ==
    ASSUME PicardInv, StopSweeping \/ Overtaken \/ PassFails \/ Sweep
    PROVE  PicardInv'
<1> USE DEF PicardInv
<1>a. UNCHANGED <<seed, place, grids, lam, bracket, search>> /\ call # None
  BY DEF StopSweeping, Overtaken, PassFails, Sweep, Sweeping, Elsewhere
<1>b. Aim' = Aim
  BY <1>a DEF Aim, Expanded, search
<1>c. (hit => hit') /\ (late => late') /\ (hit' => late')
  <2>1. hit => late
    BY DEF Story
  <2>2. CASE StopSweeping
    BY <2>1, <2>2 DEF StopSweeping
  <2>3. CASE Overtaken
    BY <2>1, <2>3 DEF Overtaken
  <2>4. CASE PassFails \/ Sweep
    <3>1. late' = late /\ hit' = hit
      BY <2>4 DEF PassFails, Sweep
    <3> QED BY <2>1, <3>1
  <2> QED BY <2>2, <2>3, <2>4
<1>0. /\ UNCHANGED <<seed, place, grids, lam, bracket, search>>
      /\ call # None /\ Aim' = Aim /\ (hit => hit') /\ (late => late') /\ (hit' => late')
  BY <1>a, <1>b, <1>c
<1>1. Typed'
  BY <1>0 DEF Typed, search
<1>2. Evaluation'
  <2>1. /\ place \in {"seed", "bracket", "current", "probe"} /\ call.grids.lam = Aim
        /\ answer = None
    BY <1>0 DEF Evaluation
  <2>2. CASE StopSweeping
    BY <1>0, <2>1, <2>2 DEF StopSweeping, Return, Success, Evaluation, Made
  <2>3. CASE Overtaken \/ PassFails
    BY <1>0, <2>1, <2>3 DEF Overtaken, PassFails, Return, Evaluation
  <2>4. CASE Sweep
    <3> DEFINE Grows(change) == call.last # None /\ change > call.last /\ change >= Floor
               After(change, r) ==
                   [grids |-> Grids(call.grids.lam, r, TRUE),
                    sweeps |-> CountSweep(call, change),
                    calm |-> IF change = Calm THEN call.calm + 1 ELSE 0,
                    grown |-> IF Grows(change) THEN call.grown + 1 ELSE 0,
                    last |-> change]
    <3>0. PICK change \in Changes, r \in Residuals :
             IF After(change, r).grown = Patience THEN Return(Failure)
             ELSE IF After(change, r).calm = Required \/ After(change, r).sweeps = MaxInner
               THEN Return(Success(After(change, r).grids))
               ELSE call' = After(change, r) /\ UNCHANGED <<answer, trend>>
      BY <2>4, Zenon DEF Sweep
    <3>1. \/ call' = None /\ answer' = Failure
          \/ call' = None /\ answer' = Success(Grids(call.grids.lam, r, TRUE))
          \/ call'.grids = Grids(call.grids.lam, r, TRUE) /\ answer' = answer
      <4>1. After(change, r).grids = Grids(call.grids.lam, r, TRUE)
        OBVIOUS
      <4> HIDE DEF After
      <4> QED BY <3>0, <4>1 DEF Return
    <3>2. CASE call' = None /\ answer' = Failure
      BY <1>0, <2>1, <3>2 DEF Evaluation
    <3>3. CASE call' = None /\ answer' = Success(Grids(call.grids.lam, r, TRUE))
      BY <1>0, <2>1, <3>3 DEF Evaluation, Success, Grids, Made
    <3>4. CASE call'.grids = Grids(call.grids.lam, r, TRUE) /\ answer' = answer
      BY <1>0, <2>1, <3>4 DEF Evaluation, Grids
    <3> QED BY <3>1, <3>2, <3>3, <3>4
  <2> QED BY <2>2, <2>3, <2>4
<1>3. Carried'
  BY <1>0 DEF Carried, search, Made
<1>4. Inside'
  BY <1>0 DEF Inside, search
<1>5. Story'
  <2>1. ended = None /\ ended' = ended
    BY <1>0 DEF Story, Evaluation, search
  <2> QED BY <1>0, <2>1, PicardAssumption DEF Story, search, Endings
<1> QED BY <1>1, <1>2, <1>3, <1>4, <1>5

LEMMA DeadlineKeeps ==
    ASSUME PicardInv, Deadline \/ UNCHANGED vars
    PROVE  PicardInv'
<1>1. /\ UNCHANGED <<seed, place, inner, grids, lam, bracket, search>>
      /\ late => late'
  BY DEF Deadline, vars
<1>2. UNCHANGED <<Typed, Carried, Inside, Aim>>
  BY <1>1 DEF Typed, Carried, Inside, Made, inner, bracket, search, Aim, Expanded
<1>3. Evaluation'
  BY <1>1, <1>2 DEF PicardInv, Evaluation, Made, inner
<1>4. Story'
  BY <1>1 DEF PicardInv, Story, Made, inner, search
<1> QED BY <1>2, <1>3, <1>4 DEF PicardInv

LEMMA SeedKeeps ==
    ASSUME PicardInv, SeedEvaluated
    PROVE  PicardInv'
<1> USE DEF PicardInv
<1>0. /\ place = "seed" /\ answer # None /\ call = None /\ call' = None /\ answer' = None
      /\ UNCHANGED <<seed, late, hit, search>> /\ outer = 0
      /\ \/ place' = "bracket" /\ lam' = lam
         \/ place' = "outer" /\ lam' = 0
  BY DEF SeedEvaluated, Answered, Used, Evaluation, Story, search
<1>1. Typed'
  BY <1>0 DEF Typed, search
<1>2. Evaluation'
  BY <1>0 DEF Evaluation
<1>3. pending = None /\ ended = None
  BY <1>0 DEF Story
<1>4. Carried'
  BY <1>0, <1>3 DEF Carried, search
<1>5. Inside'
  BY <1>0, PicardAssumption DEF Inside, search, Corridor
<1>6. Story'
  BY <1>0, <1>3, PicardAssumption DEF Story, search, Endings
<1> QED BY <1>1, <1>2, <1>4, <1>5, <1>6

LEMMA ExpandKeeps ==
    ASSUME PicardInv, Expand
    PROVE  PicardInv'
<1> USE DEF PicardInv
<1>0. /\ place = "bracket" /\ call = None /\ answer = None /\ answer' = answer
      /\ UNCHANGED <<seed, late, hit, grids, lam, search>>
      /\ \/ place' = "outer" /\ call' = call
         \/ place' = place /\ Evaluate(Expanded)
  BY DEF Expand, Idle
<1>1. outer = 0 /\ pending = None /\ ended = None /\ lam \in Int
  BY <1>0 DEF Story, Typed
<1>2. Typed'
  BY <1>0 DEF Typed, search
<1>3. Evaluation'
  <2>1. CASE place' = "outer" /\ call' = call
    BY <1>0, <2>1 DEF Evaluation
  <2>2. CASE place' = place /\ Evaluate(Expanded)
    <3>1. call'.grids.lam = Expanded /\ Aim' = Expanded
      BY <1>0, <2>2 DEF Evaluate, Grids, Aim, Expanded
    <3> QED BY <1>0, <2>2, <3>1 DEF Evaluation
  <2> QED BY <1>0, <2>1, <2>2
<1>4. Carried'
  BY <1>0, <1>1 DEF Carried, search
<1>5. Inside'
  BY <1>0, PicardAssumption DEF Inside, search
<1>6. Story'
  BY <1>0, <1>1, PicardAssumption DEF Story, search, Endings
<1> QED BY <1>2, <1>3, <1>4, <1>5, <1>6

LEMMA ExpansionKeeps ==
    ASSUME PicardInv, ExpansionEvaluated
    PROVE  PicardInv'
<1> USE DEF PicardInv
<1>0. /\ place = "bracket" /\ answer # None /\ call' = call /\ answer' = None
      /\ UNCHANGED <<seed, late, hit, search>>
      /\ \/ place' = "outer" /\ lam' = lam
         \/ answer.ok /\ lam' = answer.grids.lam /\ place' = place
  BY DEF ExpansionEvaluated, Answered, Used, BracketEnds
<1>1. /\ outer = 0 /\ pending = None /\ ended = None /\ call = None
      /\ lam \in Int
  BY <1>0 DEF Story, Typed, Evaluation
<1>2. answer.ok => answer.grids.lam = Expanded
  BY <1>0 DEF Evaluation, Failure, Aim
<1>3. lam' \in Int /\ (lam' = lam \/ lam' \in Corridor)
  BY <1>0, <1>1, <1>2, ExpandedIsInside
<1>4. Typed'
  BY <1>0, <1>3 DEF Typed, search
<1>5. Evaluation'
  BY <1>0, <1>1 DEF Evaluation
<1>6. Carried'
  BY <1>0, <1>1 DEF Carried, search
<1>7. Inside'
  BY <1>0, <1>3 DEF Inside, search
<1>8. Story'
  BY <1>0, <1>1, PicardAssumption DEF Story, search, Endings
<1> QED BY <1>4, <1>5, <1>6, <1>7, <1>8

LEMMA IterationKeeps ==
    ASSUME PicardInv, OuterIteration
    PROVE  PicardInv'
<1> USE DEF PicardInv
<1>0. /\ place = "outer" /\ call = None /\ answer = None
      /\ UNCHANGED <<seed, late, hit, grids, lam, step, best>>
      /\ ended = None /\ outer < MaxOuter /\ outer \in Nat /\ (hit => late)
  BY DEF OuterIteration, Idle, Story, Typed
<1>1. CASE late
  <2>1. /\ place' = "end" /\ ended' = "budget_exceeded"
        /\ UNCHANGED <<call, answer, outer, pending>>
    BY <1>1 DEF OuterIteration, Finish
  <2>2. Typed' /\ Evaluation' /\ Carried' /\ Inside'
    BY <1>0, <2>1 DEF Typed, Evaluation, Carried, Inside
  <2>3. "budget_exceeded" # None /\ late'
    BY <1>0, <1>1, PicardAssumption DEF Endings
  <2> QED BY <1>0, <2>1, <2>2, <2>3 DEF Story, Endings
<1>2. CASE ~late
  <2>1. place' = "current" /\ outer' = outer + 1 /\ ended' = ended
    BY <1>2 DEF OuterIteration
  <2>2. Typed' /\ Carried' /\ Inside'
    BY <1>0, <2>1 DEF Typed, Carried, Inside
  <2>3. Story'
    BY <1>0, <2>1, PicardAssumption DEF Story, Endings
  <2>4. Evaluation'
    <3>1. Aim' = lam
      BY <1>0, <2>1 DEF Aim
    <3>2. CASE pending # None
      <4>1. answer' = Success(pending) /\ call' = None
        BY <1>0, <1>2, <3>2 DEF OuterIteration
      <4>2. pending.lam = lam /\ (pending.swept \/ hit)
        BY <1>0, <3>2 DEF Carried, Made
      <4>3. answer'.ok /\ answer'.grids = pending
        BY <4>1 DEF Success
      <4>4. answer'.grids.swept \/ hit'
        BY <1>0, <4>2, <4>3
      <4> QED BY <2>1, <3>1, <4>1, <4>2, <4>3, <4>4 DEF Evaluation, Made
    <3>3. CASE pending = None
      <4>1. answer' = None /\ call'.grids.lam = lam
        BY <1>0, <1>2, <3>3 DEF OuterIteration, Evaluate, Grids
      <4> QED BY <2>1, <3>1, <4>1 DEF Evaluation
    <3> QED BY <3>2, <3>3
  <2> QED BY <2>2, <2>3, <2>4
<1> QED BY <1>1, <1>2

LEMMA CurrentKeeps ==
    ASSUME PicardInv, CurrentEvaluated
    PROVE  PicardInv'
<1> USE DEF PicardInv
<1>0. /\ place = "current" /\ answer # None /\ call = None /\ call' = call
      /\ UNCHANGED <<seed, late, hit, lam, outer, pending>>
      /\ ended = None /\ outer <= MaxOuter /\ outer \in Nat /\ (hit => late)
      /\ \/ answer = Failure
         \/ answer.ok /\ answer.grids.lam = lam /\ Made(answer.grids)
      /\ lam \in Int
  BY DEF CurrentEvaluated, Answered, Story, Typed, Evaluation, Aim
<1>1. MaxOuter \in Nat /\ None \notin Endings
  BY PicardAssumption
<1>2. ASSUME place' = "end", answer' = answer, step' = step
      PROVE  Typed' /\ Evaluation' /\ Carried' /\ Inside'
  <2>1. Aim' = Aim
    BY <1>0, <1>2 DEF Aim
  <2> QED BY <1>0, <1>2, <2>1 DEF Typed, Evaluation, Carried, Inside, Made
<1>3. CASE ~answer.ok
  <2>1. place' = "end" /\ ended' = "failed" /\ answer' = answer /\ step' = step
    BY <1>3 DEF CurrentEvaluated, Finish
  <2>2. answer' = Failure
    BY <1>0, <1>3, <2>1
  <2> QED BY <1>0, <1>1, <1>2, <2>1, <2>2 DEF Story, Endings
<1>4. CASE answer.ok /\ Abs(answer.grids.residual) < Tol
  <2>1. /\ place' = "end" /\ ended' = "converged" /\ answer' = answer /\ step' = step
        /\ grids' = answer.grids
    BY <1>4 DEF CurrentEvaluated, Finish, Commit
  <2>2. answer.grids.lam = lam /\ (answer.grids.swept \/ hit)
    BY <1>0, <1>4 DEF Failure, Made
  <2>3. /\ grids'.lam = lam' /\ Abs(grids'.residual) < Tol
        /\ grids'.swept \/ hit'
    BY <1>0, <1>4, <2>1, <2>2
  <2> QED BY <1>0, <1>1, <1>2, <2>1, <2>3 DEF Story, Endings, Abs, Made
<1>5. CASE answer.ok /\ ~(Abs(answer.grids.residual) < Tol) /\ outer = MaxOuter
  <2>1. place' = "end" /\ ended' = "exhausted" /\ answer' = answer /\ step' = step
    BY <1>5 DEF CurrentEvaluated, Finish
  <2> QED BY <1>0, <1>1, <1>2, <1>5, <2>1 DEF Story, Endings
<1>6. CASE answer.ok /\ ~(Abs(answer.grids.residual) < Tol) /\ outer # MaxOuter
  <2>1. PICK x \in Corridor : step' = x - lam
    BY <1>6 DEF CurrentEvaluated
  <2>2. /\ place' = "probe" /\ answer' = None /\ best' = None /\ ended' = ended
        /\ grids' = answer.grids
    BY <1>6 DEF CurrentEvaluated, Used, Commit
  <2>3. x \in Int /\ step' \in Int /\ lam + step' = x
    BY <1>0, <2>1, PicardAssumption DEF Corridor
  <2>4. answer.grids.lam = lam
    BY <1>0, <1>6 DEF Failure
  <2>5. Typed' /\ Evaluation' /\ Carried'
    BY <1>0, <2>2, <2>3, <2>4 DEF Typed, Evaluation, Carried
  <2>6. Inside'
    BY <1>0, <2>2, <2>3 DEF Inside
  <2>7. Story'
    BY <1>0, <1>1, <1>6, <2>2 DEF Story, Endings
  <2> QED BY <2>5, <2>6, <2>7
<1> QED BY <1>3, <1>4, <1>5, <1>6

LEMMA ProbeKeeps ==
    ASSUME PicardInv, Probe
    PROVE  PicardInv'
<1> USE DEF PicardInv
<1>1. /\ place = "probe" /\ answer = None /\ call'.grids.lam = lam + step
      /\ UNCHANGED <<seed, late, place, answer, hit, grids, lam, bracket, search>>
  BY DEF Probe, Idle, Evaluate, Grids
<1>2. Evaluation'
  BY <1>1 DEF Evaluation, Aim, search
<1>3. Typed' /\ Carried' /\ Inside'
  BY <1>1 DEF Typed, Carried, Inside, search, Made
<1>4. Story'
  BY <1>1 DEF Story, search, Made
<1> QED BY <1>2, <1>3, <1>4

LEMMA ProbedKeeps ==
    ASSUME PicardInv, ProbeEvaluated
    PROVE  PicardInv'
<1> USE DEF PicardInv
<1>0. /\ place = "probe" /\ answer # None /\ call = None /\ call' = call /\ answer' = None
      /\ UNCHANGED <<seed, late, hit, grids, outer, ended>>
      /\ best' = IF answer.ok THEN answer.grids ELSE best
      /\ ended = None /\ outer < MaxOuter /\ outer <= MaxOuter /\ outer \in Nat /\ (hit => late)
      /\ lam \in Int /\ step \in Int /\ grids.lam = lam
      /\ answer = Failure \/ (answer.ok /\ answer.grids.lam = lam + step /\ Made(answer.grids))
  BY DEF ProbeEvaluated, Answered, Used, Story, Typed, Evaluation, Aim, Carried
<1>1. best' # None => best'.lam \in Int /\ (best'.swept \/ hit)
  BY <1>0 DEF Carried, Failure, Made
<1>2. seed \in Corridor /\ best' # None => best'.lam \in Corridor
  BY <1>0 DEF Inside, Failure
<1>3. ASSUME place' = "outer", lam' = GoTo(best'), pending' = best', step' = step
      PROVE  PicardInv'
  <2>1. lam' \in Int
    BY <1>0, <1>1, <1>3 DEF GoTo
  <2>2. Typed' /\ Evaluation'
    BY <1>0, <1>3, <2>1 DEF Typed, Evaluation
  <2>3. Carried'
    BY <1>0, <1>1, <1>3 DEF Carried, GoTo, Made
  <2>4. Inside'
    BY <1>0, <1>2, <1>3 DEF Inside, GoTo
  <2>5. Story'
    BY <1>0, <1>3, PicardAssumption DEF Story, Endings
  <2> QED BY <2>2, <2>3, <2>4, <2>5
<1>4. ASSUME step' = Half(step), UNCHANGED <<place, lam, pending>>
      PROVE  PicardInv'
  <2>1. Typed' /\ Evaluation'
    BY <1>0, <1>4, HalfIsInt DEF Typed, Evaluation
  <2>2. Carried'
    BY <1>0, <1>1, <1>4 DEF Carried, Made
  <2>3. Inside'
    BY <1>0, <1>2, <1>4, HalfStaysInside DEF Inside
  <2>4. Story'
    BY <1>0, <1>4, PicardAssumption DEF Story, Endings
  <2> QED BY <2>1, <2>2, <2>3, <2>4
<1> QED BY <1>3, <1>4 DEF ProbeEvaluated

LEMMA PicardInvariant == Spec => []PicardInv
<1>1. PicardInv /\ [Next]_vars => PicardInv'
  BY InnerKeeps, DeadlineKeeps, SeedKeeps, ExpandKeeps, ExpansionKeeps, IterationKeeps,
     CurrentKeeps, ProbeKeeps, ProbedKeeps DEF Next
<1> QED BY <1>1, InitPicard, PTL DEF Spec

-----------------------------------------------------------------------------
(***************************************************************************)
(* The fields that a converged solve stores belong to the lam it stores,   *)
(* within the tolerance and, from a feasible seed, within the corridor.    *)
(***************************************************************************)
THEOREM ConvergedAlwaysHangsTogether == Spec => []ConvergedHangsTogether
<1>1. PicardInv => ConvergedHangsTogether
  BY DEF PicardInv, Story, Inside, Made, ConvergedHangsTogether, Converged
<1> QED BY <1>1, PicardInvariant, PTL

(***************************************************************************)
(* Every iteration after the first starts from the fields of its own lam.  *)
(***************************************************************************)
THEOREM WarmStartIsAlwaysOwn == Spec => []WarmStartIsOwn
<1>1. PicardInv => WarmStartIsOwn
  BY DEF PicardInv, Carried, WarmStartIsOwn
<1> QED BY <1>1, PicardInvariant, PTL

(***************************************************************************)
(* The label of a solve that did not converge is the story of its end,     *)
(* though it is inferred from flags and counts that three loops have set.  *)
(***************************************************************************)
THEOREM ReasonIsAlwaysTrue == Spec => []ReasonIsTrue
<1>1. PicardInv => ReasonIsTrue
  <2> SUFFICES ASSUME PicardInv, place = "end"
      PROVE  /\ bailout_reason = "ode_failure" =>
                   ended = "failed" /\ answer = Failure /\ bailout_tag = "blown-up"
             /\ ended = "failed" /\ ~hit /\ outer < MaxOuter => bailout_reason = "ode_failure"
             /\ bailout_reason = "wallclock_budget" =>
                   late /\ (Len(trend) >= 2 => bailout_tag # "blown-up")
             /\ bailout_reason = "max_outer_exhausted" => outer = MaxOuter
    BY DEF ReasonIsTrue
  <2>1. /\ ended \in Endings /\ (ended = "failed" => answer = Failure)
        /\ ended = "exhausted" => outer = MaxOuter
        /\ ended = "budget_exceeded" => late
        /\ hit => late
        /\ outer <= MaxOuter /\ outer \in Nat /\ MaxOuter \in Nat
    BY PicardAssumption DEF PicardInv, Story, Typed
  <2>2. CASE Converged
    BY <2>2 DEF bailout_reason, Converged
  <2>3. CASE ~Converged /\ OutOfBudget
    <3>1. bailout_reason = "wallclock_budget" /\ late /\ ~BailIsOdeFailure
      BY <2>1, <2>3 DEF bailout_reason, OutOfBudget, BailIsOdeFailure
    <3>2. Len(trend) >= 2 => bailout_tag # "blown-up"
      BY <2>3, <3>1 DEF bailout_tag
    <3> QED BY <2>3, <3>1, <3>2 DEF OutOfBudget
  <2>4. CASE ~Converged /\ ~OutOfBudget /\ outer < MaxOuter
    <3>1. bailout_reason = "ode_failure" /\ bailout_tag = "blown-up"
      BY <2>4 DEF bailout_reason, bailout_tag, BailIsOdeFailure
    <3>2. ended = "failed"
      BY <2>1, <2>4 DEF Converged, OutOfBudget, Endings
    <3> QED BY <2>1, <3>1, <3>2
  <2>5. CASE ~Converged /\ ~OutOfBudget /\ ~(outer < MaxOuter)
    <3>1. bailout_reason = "max_outer_exhausted" /\ outer = MaxOuter
      BY <2>1, <2>5 DEF bailout_reason, BailIsOdeFailure
    <3> QED BY <2>5, <3>1
  <2> QED BY <2>2, <2>3, <2>4, <2>5
<1> QED BY <1>1, PicardInvariant, PTL

=============================================================================
