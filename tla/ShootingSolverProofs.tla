------------------------ MODULE ShootingSolverProofs ------------------------
(***************************************************************************)
(* The shooting loop keeps to the corridor and carries the right           *)
(* evaluation, for every residual map, corridor and tuning.                *)
(***************************************************************************)
EXTENDS ShootingSolver, TLAPS

Typed ==
    /\ problem \in Problems
    /\ target \in Int \cup {None}
    /\ pc \in {"outer", "propose", "probe", "accept", "finished"}
    /\ lam \in Int /\ step \in Int /\ bestStep \in Int
    /\ lamPrev \in Int \cup {None}
    /\ residual \in Int
    /\ residualPrev \in Int \cup {None}
    /\ trust \in TrustRadiusMin .. TrustRadiusMax
    /\ stallSign \in {-1, 1, None}
    /\ guessed \in BOOLEAN
    /\ bestEval \in Int \cup {None}

\* The search goes on from a point of the corridor, to points of the corridor
Inside ==
    /\ lam \in Corridor
    /\ pc = "probe" => lam + step \in Corridor
    /\ pc \in {"probe", "accept"} => lam + bestStep \in Corridor

\* What is carried from a probe to the next iteration belongs to the step that is taken
Carried ==
    /\ pending # None => pending = problem[lam]
    /\ pc \in {"probe", "accept"} /\ bestEval # None => bestEval = problem[lam + bestStep]
    /\ result \in {"converged", "exhausted"} =>
          pc = "finished" /\ committed = lam /\ residual = problem[lam]

\* The search never stands on a point where evaluate has no success
Safe == problem[lam0] # Fails => problem[lam] # Fails /\ result # "failed"

SolverInv == Typed /\ Inside /\ Carried /\ Safe

-----------------------------------------------------------------------------
(***************************************************************************)
(* Halving a step keeps its target between where it starts and where it    *)
(* would have led: a corridor is convex.                                   *)
(***************************************************************************)
LEMMA HalfStaysInside ==
    ASSUME NEW x \in Corridor, NEW s \in Int, x + s \in Corridor
    PROVE  Half(s) \in Int /\ x + Half(s) \in Corridor
<1>1. CASE s < 0
  BY <1>1, SolverAssumption, SMT DEF Half, Sign, Abs, Corridor
<1>2. CASE ~(s < 0)
  BY <1>2, SolverAssumption, SMT DEF Half, Sign, Abs, Corridor
<1> QED BY <1>1, <1>2

\* Clipping a target puts it into the corridor
LEMMA ClampIsInside ==
    ASSUME NEW x \in Int
    PROVE  Clamp(x) \in Corridor
BY SolverAssumption DEF Clamp, Least, Greatest, Corridor

\* The trust radius that a stall leads to is again between its bounds
LEMMA GrownRadius ==
    ASSUME NEW t \in TrustRadiusMin .. TrustRadiusMax
    PROVE  Capped(t * StallGrowth) \in TrustRadiusMin .. TrustRadiusMax
<1>1. t * StallGrowth \in Int /\ t * StallGrowth >= t
  BY SolverAssumption, SMT
<1> QED BY <1>1, SolverAssumption DEF Capped, Least

-----------------------------------------------------------------------------
LEMMA InitSolver == Init => SolverInv
<1> SUFFICES ASSUME Init PROVE SolverInv
  OBVIOUS
<1>1. Typed
  <2>1. lam \in Int /\ residual \in Int /\ trust \in TrustRadiusMin .. TrustRadiusMax
    BY SolverAssumption DEF Init, Corridor
  <2>2. step \in Int /\ bestStep \in Int
    BY DEF Init
  <2>3. target \in Int \cup {None}
    BY SolverAssumption DEF Init
  <2> QED BY <2>1, <2>2, <2>3 DEF Init, Typed
<1>2. Inside
  BY SolverAssumption DEF Init, Inside
<1>3. Carried
  BY DEF Init, Carried
<1>4. Safe
  BY DEF Init, Safe
<1> QED BY <1>1, <1>2, <1>3, <1>4 DEF SolverInv

(***************************************************************************)
(* A residual map has an integer, or Fails, at every point of the          *)
(* corridor, and neither of them is None.                                  *)
(***************************************************************************)
LEMMA ResidualIsInt ==
    ASSUME SolverInv, NEW x \in Corridor
    PROVE  problem[x] # Fails => problem[x] \in Int /\ problem[x] # None
BY SolverAssumption DEF SolverInv, Typed

LEMMA BudgetSolver == SolverInv /\ BudgetExceeded => SolverInv'
<1> SUFFICES ASSUME SolverInv, BudgetExceeded PROVE SolverInv'
  OBVIOUS
<1> USE DEF BudgetExceeded, Finish, loop, search
<1>1. Typed'
  BY DEF SolverInv, Typed
<1>2. Inside'
  BY DEF SolverInv, Inside, Corridor
<1>3. Carried'
  BY DEF SolverInv, Carried
<1>4. Safe'
  BY DEF SolverInv, Safe
<1> QED BY <1>1, <1>2, <1>3, <1>4 DEF SolverInv

LEMMA OuterSolver == SolverInv /\ Outer => SolverInv'
<1> SUFFICES ASSUME SolverInv, Outer PROVE SolverInv'
  OBVIOUS
<1> DEFINE r == IF pending # None THEN pending ELSE problem[lam]
<1>1. lam \in Corridor /\ r = problem[lam]
  BY DEF SolverInv, Inside, Carried
<1>2. r # Fails => r \in Int
  BY <1>1, ResidualIsInt
<1>3. UNCHANGED <<problem, target, lam, lamPrev, residualPrev, trust, stallSign, guessed, search>>
  BY DEF Outer
<1>4. pending' = None /\ pc' \in {"propose", "finished"}
  BY DEF Outer, Finish
<1>5. CASE r = Fails
  <2>1. result' = "failed" /\ pc' = "finished" /\ UNCHANGED residual
    BY <1>5 DEF Outer, Finish
  <2>2. Typed'
    BY <1>3, <1>4, <2>1 DEF SolverInv, Typed, search
  <2>3. Inside'
    BY <1>1, <1>3, <2>1 DEF Inside, Corridor
  <2>4. Carried'
    BY <1>4, <2>1 DEF Carried
  <2>5. Safe'
    BY <1>1, <1>3, <1>5 DEF SolverInv, Safe
  <2> QED BY <2>2, <2>3, <2>4, <2>5 DEF SolverInv
<1>6. CASE r # Fails
  <2>1. residual' = r /\ committed' = lam
    BY <1>6 DEF Outer
  <2>2. pc' = "finished" \/ (pc' = "propose" /\ result' = result)
    BY <1>6 DEF Outer, Finish
  <2>3. result' # "failed" \/ result' = result
    BY <1>6 DEF Outer, Finish
  <2>4. result' = result => pc = "outer"
    BY DEF Outer
  <2>5. Typed'
    BY <1>2, <1>3, <1>4, <1>6, <2>1 DEF SolverInv, Typed, search
  <2>6. Inside'
    BY <1>1, <1>3, <1>4 DEF Inside, Corridor
  <2>7. Carried'
    BY <1>1, <1>3, <1>4, <2>1, <2>2, <2>4 DEF SolverInv, Carried
  <2>8. Safe'
    BY <1>3, <2>3 DEF SolverInv, Safe
  <2> QED BY <2>5, <2>6, <2>7, <2>8 DEF SolverInv
<1> QED BY <1>5, <1>6

(***************************************************************************)
(* Whatever step is tried, its target is clipped before the first probe.   *)
(***************************************************************************)
LEMMA TryFromSolver ==
    ASSUME SolverInv, Propose, NEW s \in Int, TryFrom(s),
           trust' \in TrustRadiusMin .. TrustRadiusMax,
           stallSign' \in {-1, 1, None}, guessed' \in BOOLEAN
    PROVE  SolverInv'
<1>1. lam \in Int /\ lam + s \in Int /\ Clamp(lam + s) \in Corridor
  BY ClampIsInside DEF SolverInv, Typed
<1>2. Clamp(lam + s) \in Int
  BY <1>1, SolverAssumption DEF Corridor
<1>3. step' = Clamp(lam + s) - lam /\ bestStep' = step' /\ bestEval' = None /\ pc' = "probe"
  BY DEF TryFrom
<1>4. UNCHANGED <<problem, target, lam, residual, pending, committed, result>>
  BY DEF Propose
<1>5. lam + step' = Clamp(lam + s) /\ step' \in Int
  BY <1>1, <1>2, <1>3
<1>6. Typed'
  BY <1>3, <1>4, <1>5 DEF SolverInv, Typed, Propose
<1>7. Inside'
  BY <1>1, <1>3, <1>4, <1>5 DEF SolverInv, Inside, Corridor
<1>8. Carried'
  BY <1>3, <1>4 DEF SolverInv, Carried, Propose
<1>9. Safe'
  BY <1>4 DEF SolverInv, Safe
<1> QED BY <1>6, <1>7, <1>8, <1>9 DEF SolverInv

LEMMA ProposeSolver == SolverInv /\ Propose => SolverInv'
<1> SUFFICES ASSUME SolverInv, Propose PROVE SolverInv'
  OBVIOUS
<1>1. lam \in Int /\ residual \in Int /\ trust \in TrustRadiusMin .. TrustRadiusMax
      /\ stallSign \in {-1, 1, None} /\ target \in Int \cup {None}
      /\ lamPrev \in Int \cup {None} /\ residualPrev \in Int \cup {None}
  BY DEF SolverInv, Typed
<1>2. CASE AimAtTarget
  <2> DEFINE s == target - lam
  <2>1. s \in Int /\ TryFrom(s) /\ guessed' = TRUE
    BY <1>1, <1>2 DEF AimAtTarget
  <2>2. stallSign' \in {-1, 1, None}
    BY <1>2 DEF AimAtTarget, Sign
  <2>3. trust' = IF Abs(s) > trust THEN Capped(Abs(s)) ELSE trust
    BY <1>2 DEF AimAtTarget
  <2>4. trust' \in TrustRadiusMin .. TrustRadiusMax
    BY <1>1, <2>1, <2>3, SolverAssumption DEF Capped, Least, Abs
  <2> HIDE DEF s
  <2> QED BY <2>1, <2>2, <2>4, TryFromSolver
<1>3. CASE Escalate
  <2>1. trust' \in TrustRadiusMin .. TrustRadiusMax
    BY <1>1, <1>3, GrownRadius DEF Escalate
  <2>2. stallSign' \in {-1, 1}
    <3>1. -Sign(residual) \in {-1, 1}
      <4>1. Sign(residual) \in Int /\ (Sign(residual) = 1 \/ Sign(residual) = -1)
        BY DEF Sign
      <4>2. \A v \in Int : v = 1 \/ v = -1 => -v = 1 \/ -v = -1
        OBVIOUS
      <4> QED BY <4>1, <4>2
    <3>2. stallSign' = IF stallSign = None THEN -Sign(residual) ELSE stallSign
      BY <1>3 DEF Escalate
    <3> QED BY <1>1, <3>1, <3>2
  <2>3. stallSign' * trust' \in Int
    <3>1. trust' \in Int
      BY <2>1, SolverAssumption
    <3>2. CASE stallSign' = 1
      BY <3>1, <3>2
    <3>3. CASE stallSign' = -1
      <4>1. \A t \in Int : -1 * t \in Int
        OBVIOUS
      <4> QED BY <3>1, <3>3, <4>1
    <3> QED BY <2>2, <3>2, <3>3
  <2> QED BY <1>3, <2>1, <2>2, <2>3, TryFromSolver DEF Escalate
<1>4. CASE FollowSecant
  <2>1. PICK size \in 0 .. TrustRadiusMax + 1 :
           LET clipped == Capped(Least(trust * StallGrowth, size)) IN
           /\ trust' = IF size > trust THEN clipped ELSE trust
           /\ TryFrom(SecantSign * (IF size > trust THEN clipped ELSE size))
    BY <1>4 DEF FollowSecant
  <2> DEFINE clipped == Capped(Least(trust * StallGrowth, size))
  <2>2. trust * StallGrowth \in Int /\ trust * StallGrowth >= trust
    BY <1>1, SolverAssumption
  <2>3. size > trust => clipped \in TrustRadiusMin .. TrustRadiusMax
    BY <1>1, <2>2, SolverAssumption DEF Capped, Least
  <2>4. trust' \in TrustRadiusMin .. TrustRadiusMax
    BY <1>1, <2>1, <2>3
  <2>5. (IF size > trust THEN clipped ELSE size) \in Int
    BY <2>1, <2>3, SolverAssumption
  <2>6. Sign(residual) \in {-1, 1} /\ Sign(lam - lamPrev) \in {-1, 1}
        /\ Sign(residual - residualPrev) \in {-1, 1}
    BY DEF Sign
  <2>7. SecantSign \in {-1, 1}
    BY <2>6 DEF SecantSign
  <2>8. SecantSign * (IF size > trust THEN clipped ELSE size) \in Int
    BY <2>5, <2>7
  <2>9. TryFrom(SecantSign * (IF size > trust THEN clipped ELSE size))
    BY <2>1
  <2>10. guessed' = FALSE /\ stallSign' \in {-1, 1, None}
    BY <1>1, <1>4 DEF FollowSecant
  <2> HIDE DEF clipped
  <2> QED BY <2>4, <2>8, <2>9, <2>10, TryFromSolver
<1> QED BY <1>2, <1>3, <1>4 DEF Propose

LEMMA ProbeSolver == SolverInv /\ Probe => SolverInv'
<1> SUFFICES ASSUME SolverInv, Probe PROVE SolverInv'
  OBVIOUS
<1> DEFINE r == problem[lam + step]
<1>1. lam \in Corridor /\ lam + step \in Corridor /\ step \in Int /\ lam \in Int
      /\ lam + bestStep \in Corridor /\ pc = "probe"
  BY DEF SolverInv, Inside, Typed, Probe
<1>2. r # Fails => r \in Int /\ r # None
  BY <1>1, ResidualIsInt
<1>3. Half(step) \in Int /\ lam + Half(step) \in Corridor
  BY <1>1, HalfStaysInside
<1>4. UNCHANGED <<problem, target, loop, pending, committed, result>>
  BY DEF Probe
<1>5. bestStep' = IF r # Fails THEN step ELSE bestStep
  BY DEF Probe
<1>6. bestEval' = IF r # Fails THEN r ELSE bestEval
  BY DEF Probe
<1>7. pc' \in {"probe", "accept"} /\ (step' = step \/ step' = Half(step))
  BY DEF Probe
<1> HIDE DEF r
<1>8. Typed'
  <2>1. step' \in Int /\ bestStep' \in Int
    BY <1>1, <1>3, <1>5, <1>7 DEF SolverInv, Typed
  <2>2. bestEval' \in Int \cup {None}
    BY <1>2, <1>6 DEF SolverInv, Typed
  <2> QED BY <1>4, <1>7, <2>1, <2>2 DEF SolverInv, Typed, loop
<1>9. Inside'
  BY <1>1, <1>3, <1>4, <1>5, <1>7 DEF Inside, Corridor, loop
<1>10. Carried'
  <2>1. bestEval' # None => bestEval' = problem[lam + bestStep']
    BY <1>1, <1>5, <1>6 DEF SolverInv, Carried, r
  <2> QED BY <1>1, <1>4, <2>1 DEF SolverInv, Carried, loop
<1>11. Safe'
  BY <1>4 DEF SolverInv, Safe, loop
<1> QED BY <1>8, <1>9, <1>10, <1>11 DEF SolverInv

LEMMA AcceptSolver == SolverInv /\ Accept => SolverInv'
<1> SUFFICES ASSUME SolverInv, Accept PROVE SolverInv'
  OBVIOUS
<1>1. pc = "accept" /\ pc' = "outer" /\ lam \in Int /\ bestStep \in Int
      /\ trust \in TrustRadiusMin .. TrustRadiusMax
      /\ lam \in Corridor /\ lam + bestStep \in Corridor
  BY DEF SolverInv, Inside, Typed, Accept
<1>2. lam' = IF bestEval # None THEN lam + bestStep ELSE lam
  BY DEF Accept, Landing, Taken
<1>3. pending' = bestEval
  BY DEF Accept
<1>4. UNCHANGED <<problem, target, lamPrev, residual, residualPrev, guessed, search, committed, result>>
  BY DEF Accept
<1>5. lam' \in Corridor /\ lam' \in Int
  BY <1>1, <1>2
<1>6. trust' \in TrustRadiusMin .. TrustRadiusMax
  <2>1. CASE probes = 1 /\ bestEval # None
    <3>1. trust' = Capped(trust) \/ trust' = Capped(trust + 1)
      BY <2>1 DEF Accept
    <3> QED BY <1>1, <3>1, SolverAssumption DEF Capped, Least
  <2>2. CASE ~(probes = 1 /\ bestEval # None)
    <3>1. trust' = Greatest(Half(trust), TrustRadiusMin)
      BY <2>2 DEF Accept
    <3> QED BY <1>1, <3>1, SolverAssumption, SMT DEF Greatest, Half, Sign, Abs
  <2> QED BY <2>1, <2>2
<1>7. stallSign' \in {-1, 1, None}
  <2>1. stallSign' = stallSign \/ (stallSign # None /\ stallSign' = -stallSign)
    BY DEF Accept
  <2> QED BY <2>1 DEF SolverInv, Typed
<1>8. Typed'
  BY <1>1, <1>4, <1>5, <1>6, <1>7 DEF SolverInv, Typed, search
<1>9. Inside'
  BY <1>1, <1>5 DEF Inside, Corridor
<1>10. Carried'
  BY <1>1, <1>2, <1>3, <1>4 DEF SolverInv, Carried
<1>11. Safe'
  <2>1. CASE bestEval # None
    <3>1. bestEval = problem[lam'] /\ bestEval \in Int
      BY <1>1, <1>2, <2>1 DEF SolverInv, Carried, Typed
    <3> QED BY <1>4, <3>1, SolverAssumption DEF SolverInv, Safe
  <2>2. CASE bestEval = None
    BY <1>2, <1>4, <2>2 DEF SolverInv, Safe
  <2> QED BY <2>1, <2>2
<1> QED BY <1>8, <1>9, <1>10, <1>11 DEF SolverInv

LEMMA SolverIsInductive == Spec => []SolverInv
<1>1. SolverInv /\ [Next]_vars => SolverInv'
  <2> SUFFICES ASSUME SolverInv, [Next]_vars PROVE SolverInv'
    OBVIOUS
  <2>1. CASE UNCHANGED vars
    BY <2>1 DEF SolverInv, Typed, Inside, Carried, Safe, Corridor, vars, loop, search
  <2> QED BY <2>1, BudgetSolver, OuterSolver, ProposeSolver, ProbeSolver, AcceptSolver DEF Next
<1> QED BY <1>1, InitSolver, PTL DEF Spec

-----------------------------------------------------------------------------
(***************************************************************************)
(* evaluate is never asked for a point outside lam_bounds, whatever the    *)
(* bootstrap target, the escalation or the halving asks for.               *)
(***************************************************************************)
THEOREM CorridorSafety == Spec => []CorridorHolds
<1>1. SolverInv => CorridorHolds
  BY DEF SolverInv, Inside, CorridorHolds
<1> QED BY <1>1, SolverIsInductive, PTL

(***************************************************************************)
(* The evaluation that is carried over is the one at lam, and a loop that  *)
(* ends by itself has committed the point it returns.                      *)
(***************************************************************************)
THEOREM PendingSafety == Spec => []PendingIsCurrent
<1>1. SolverInv => PendingIsCurrent
  BY DEF SolverInv, Carried, PendingIsCurrent
<1> QED BY <1>1, SolverIsInductive, PTL

(***************************************************************************)
(* A solve that started from a point where evaluate succeeds never ends    *)
(* because evaluate has no success at the point an iteration starts from.  *)
(***************************************************************************)
THEOREM OuterSafety == Spec => []NeverFailsAtOuter
<1>1. SolverInv => NeverFailsAtOuter
  BY DEF SolverInv, Safe, NeverFailsAtOuter
<1> QED BY <1>1, SolverIsInductive, PTL

=============================================================================
