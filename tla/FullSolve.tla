----------------------------- MODULE FullSolve -----------------------------
(***************************************************************************)
(* _compute_full_instanton: for each terminal multiplier that the shooting *)
(* solver (ShootingSolver) tries, backward and forward integrations sweep  *)
(* until the field settles or MAX_INNER sweeps have been made; an inner    *)
(* iteration that did not settle is handed on all the same.                *)
(***************************************************************************)
EXTENDS Integers, Sequences

CONSTANTS
    MaxInner,       \* MAX_INNER
    MaxEvaluations  \* evaluations of one solve (the solver's max_outer, max_backtrack)

VARIABLE fs
IdleFS == [at |-> "idle"]

\* A pair of fields: whether it meets the final condition, whether the inner
\* iteration that made it settled, and whether both of its integrations succeeded
Field(met, settled, genuine) == [met |-> met, settled |-> settled, genuine |-> genuine]
Inner(iterations, committed) ==
    [at |-> "inner", sweeps |-> 0, iterations |-> iterations, committed |-> committed]
Ended(at, iterations, committed) == [at |-> at, iterations |-> iterations, committed |-> committed]

\* The background guess: its failure is the solve's
StartFS ==
    /\ fs.at = "idle"
    /\ fs' \in {Ended("failed", <<>>, Field(FALSE, FALSE, FALSE)), Inner(<<>>, Field(FALSE, FALSE, TRUE))}

Judged(s, n, ok, field) ==
    [at |-> "judge", iterations |-> Append(s.iterations, n), committed |-> s.committed, ok |-> ok, field |-> field]

\* Slip: a sweep whose integration failed hands on the arrays it started from
SweepIgnoringFailure(s) ==
    LET n == s.sweeps + 1 IN
    {Judged(s, n, TRUE, Field(met, TRUE, genuine)) : met, genuine \in BOOLEAN}
      \union IF n < MaxInner THEN {[s EXCEPT !.sweeps = n]} ELSE {}

\* picard_inner: one sweep.  It ends the evaluation when an integration fails,
\* when the field settled, or as the last one
Sweep(s) ==
    LET n == s.sweeps + 1 IN
    {Judged(s, n, FALSE, s.committed)}
      \union {Judged(s, n, TRUE, Field(met, TRUE, TRUE)) : met \in BOOLEAN}
      \union IF n < MaxInner THEN {[s EXCEPT !.sweeps = n]}
             ELSE {Judged(s, n, TRUE, Field(met, FALSE, TRUE)) : met \in BOOLEAN}

SweepOnce == fs.at = "inner" /\ fs' \in Sweep(fs)

\* The outer solver: it commits the evaluation that becomes current, and stops
\* at one that meets the tolerance.  Otherwise it tries another, keeping this
\* one or not, or gives up; one that failed is never kept
Judge ==
    /\ fs.at = "judge"
    /\ LET kept == {fs.committed} \union IF fs.ok THEN {fs.field} ELSE {} IN
       fs' \in IF fs.ok /\ fs.field.met THEN {Ended("solved", fs.iterations, fs.field)}
               ELSE {Ended("failed", fs.iterations, fs.committed)}
                    \union {Inner(fs.iterations, c) : c \in IF Len(fs.iterations) < MaxEvaluations THEN kept ELSE {}}

NextFS == SweepOnce \/ Judge
=============================================================================
