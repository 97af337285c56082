--------------------------- MODULE ComputeTarget ---------------------------
(***************************************************************************)
(* One grid point through its four compute targets, in the order of a      *)
(* campaign: the full and the slow-roll instanton, the compaction function *)
(* of the two, the gradient-coupled instanton seeded by the full one.      *)
(* For each: the object is built, computed on a worker, given the result,  *)
(* stored, validated, and fetched again for those that come after it.      *)
(*                                                                         *)
(* E-folds are integers: Step is the spacing of the shared grid, one unit  *)
(* the rounding of a product of floats.                                    *)
(***************************************************************************)
EXTENDS SlowRollSolve, FullSolve, TargetTables, TLC

CONSTANTS
    Step,           \* 1 / samples_per_N
    N_end,          \* of the background trajectory
    Tasks,          \* grid points: [N_init, N_final, delta_Nstar, up], up the rounding of the last multiple
    Shapes,         \* values of C along a profile, inner edge first
    Nodes,          \* number of collocation nodes
    MaxRestarts     \* bound on the kills of the driver

ASSUME ConstantsAssumption ==
    /\ Step \in Nat \ {0, 1} /\ Nodes \in Nat \ {0, 1} /\ MaxInner \in Nat \ {0}
    /\ C_threshold \in Nat \ {0} /\ Unit \in Nat \ {0} /\ NULL \notin Int
    /\ \A t \in Tasks : /\ t.N_init \in Int /\ t.N_final \in Int /\ t.N_init > t.N_final
                       /\ t.delta_Nstar \in Nat /\ t.up \in {0, 1}
    /\ \A s \in Shapes : s \in Seq(Int) /\ Len(s) >= 2 * Nodes - 1

VARIABLES
    task,       \* the grid point, and store_full_values
    turn,       \* the kind at work: an index of Kinds, or Len(Kinds) + 1
    phase,      \* of the object at work
    target,     \* the object at work
    rows,       \* kind -> its rows in the store
    restarts,   \* kills of the driver so far
    proxies,    \* kind -> what later targets are handed: the object fetched again, or NULL
    cache       \* times at which the fetched gradient-coupled profile was reconstructed

vars == <<task, turn, phase, target, rows, restarts, proxies, cache, sr, fs>>
kind == Kinds[turn]

---------------------------------------------------------------------------
(* _build_N_sample: multiples of the step, and N_total unless the last     *)
(* multiple is N_total up to rounding.  A token keeps the number it was    *)
(* asked for.                                                              *)

N_total(t) == (t.N_init - t.N_final) + t.delta_Nstar
Multiple(t, i) == i * Step + IF i * Step = N_total(t) THEN t.up ELSE 0
SharedPoints(t) == [k \in 1 .. N_total(t) \div Step + 1 |-> Multiple(t, k - 1)]
BuildNSample(t) ==
    LET last == Multiple(t, N_total(t) \div Step)
        off == IF last > N_total(t) THEN last - N_total(t) ELSE N_total(t) - last
    IN  SharedPoints(t) \o IF off > 1 THEN <<N_total(t)>> ELSE <<>>

\* Slip: the first point is left out
OutputOpen(sample, total) == SelectSeq(sample, LAMBDA n : 0 < n /\ n <= total)

\* Of the first k points, those between the ends
Within(sample, total) ==
    LET within[k \in 0 .. Len(sample)] ==
          IF k = 0 THEN <<>>
          ELSE IF 0 <= sample[k] /\ sample[k] <= total THEN Append(within[k - 1], sample[k])
          ELSE within[k - 1]
    IN  within

\* "Output sample" of the workers; [0, N_total] if no point is left
Output(sample, total) ==
    LET points == Within(sample, total)[Len(sample)]
    IN  IF points = <<>> THEN <<0, total>> ELSE points

\* _populate_from_result of the homogeneous instantons pairs the object's own
\* points with the result's columns, in order, as far as both go
PairedValues(sample, out) ==
    [i \in 1 .. (IF Len(out) < Len(sample) THEN Len(out) ELSE Len(sample)) |-> [N |-> sample[i], at |-> out[i]]]

\* that of the gradient-coupled one looks each column's number up
KeyedValues(sample, out) ==
    [i \in DOMAIN out |-> [N |-> sample[CHOOSE k \in DOMAIN sample : sample[k] = out[i]], at |-> out[i]]]

---------------------------------------------------------------------------
(* Results *)

FailureResult(diagnostics) ==
    [failure |-> TRUE, scalars |-> NULL, values |-> <<>>, profile |-> <<>>, diagnostics |-> diagnostics]

FullDiagnostics == [converged |-> fs.at = "solved",
                    max_picard_iterations |-> IF fs.iterations = <<>> THEN NULL ELSE Maximum(fs.iterations),
                    settled |-> fs.at = "solved" /\ fs.committed.settled,
                    genuine |-> fs.at = "solved" /\ fs.committed.genuine]

\* The noise of a field is None where its diffusion vanishes; the massless
\* decoupled model has none for the second field
InstantonScalars(t) == [N_total |-> N_total(t), msr_action |-> "action", noise_phi1 |-> "noise", noise_phi2 |-> NULL]
ASSUME NullIsNoScalars == \A t \in Tasks : InstantonScalars(t) # NULL

FullResult ==
    IF fs.at = "failed" THEN FailureResult(FullDiagnostics)
    ELSE [failure |-> FALSE, scalars |-> InstantonScalars(task.point), profile |-> <<>>, diagnostics |-> FullDiagnostics,
          values |-> PairedValues(BuildNSample(task.point), Output(BuildNSample(task.point), N_total(task.point)))]

SlowRollResult ==
    IF sr.at = "failed" THEN FailureResult([converged |-> sr.converged])
    ELSE [failure |-> FALSE, scalars |-> InstantonScalars(task.point), profile |-> <<>>, diagnostics |-> [converged |-> TRUE],
          values |-> PairedValues(BuildNSample(task.point), Output(BuildNSample(task.point), N_total(task.point)))]

\* The samples of both paths; a failed path has none
CompactionResult(paths) ==
    LET scalars(p) == IF PathFailed(p) THEN NoPath ELSE PathScalars(p)
        samples(p) == IF PathFailed(p) THEN <<>> ELSE p.r
        reason(p) == IF p = NULL THEN NULL ELSE IF p.failure THEN p.reason ELSE "none"
        diagnostics == [full |-> reason(paths.full), slow_roll |-> reason(paths.slow_roll)]
    IN  IF PathFailed(paths.full) /\ PathFailed(paths.slow_roll) THEN FailureResult(diagnostics)
        ELSE [failure |-> FALSE, profile |-> <<>>, diagnostics |-> diagnostics,
              scalars |-> [full |-> scalars(paths.full), slow_roll |-> scalars(paths.slow_roll)],
              values |-> samples(paths.full) \o samples(paths.slow_roll)]

\* Step 3b: a seed is taken from an instanton that has samples
Seeded(proxy) == IF proxy = NULL THEN FALSE ELSE proxy.failure # TRUE /\ proxy.values # <<>>

\* Steps 4 to 10.  The result has no key C_bar, so that the stored one is None
\* throughout; samples are interpolated only if they are to be stored
GradientResult(solved, matched, raw, dense) ==
    LET scales == AssignScales(ExtractZeta(matched), raw, dense)
        diagnostics == [seeded |-> Seeded(proxies["FullInstanton"]), scaled |-> solved /\ ~scales.failure]
        sample == BuildNSample(task.point)
    IN  IF ~solved \/ scales.failure THEN FailureResult(diagnostics)
        ELSE [failure |-> FALSE, diagnostics |-> diagnostics,
              scalars |-> ProfileScalars(scales) @@ [N_total |-> N_total(task.point), msr_action |-> "action"],
              profile |-> [j \in DOMAIN scales.r_phys |-> [r |-> scales.r_phys[j], C |-> scales.C[j], C_bar |-> NULL]],
              values |-> IF target.full THEN KeyedValues(sample, Output(sample, N_total(task.point))) ELSE <<>>]

---------------------------------------------------------------------------
\* An object is what is known of the result, with store_full_values and whether
\* it can represent a query only
Object(result, full, query) ==
    [failure |-> result.failure, scalars |-> result.scalars, values |-> result.values,
     profile |-> result.profile, diagnostics |-> result.diagnostics, full |-> full, query |-> query]

Fresh(full) == Object(NoResult, full, FALSE)

Init ==
    /\ task \in [point : Tasks, full : BOOLEAN]
    /\ turn = 1 /\ phase = "built" /\ target = Fresh(task.full)
    /\ rows = [k \in KindSet |-> {}] /\ restarts = 0 /\ proxies = [k \in KindSet |-> NULL] /\ cache = {}
    /\ sr = IdleSR /\ fs = IdleFS

\* build without samples: the object can only represent a query, and an attempt
\* to compute it raises.  The program then asks again, with samples
AskFirst ==
    /\ phase = "built" /\ IsInstanton(kind) /\ ~target.query
    /\ target' = [target EXCEPT !.query = TRUE]
    /\ UNCHANGED <<task, turn, phase, rows, restarts, proxies, cache, sr, fs>>

\* The bounds on the transition, checked for a gradient-coupled instanton only
OutOfBounds == N_end - task.point.N_init < 0 \/ N_end - task.point.N_init + N_total(task.point) > N_end

\* What a compute hands to a worker
FullCompute == StartFS /\ UNCHANGED sr
SlowRollCompute == (\E hsq \in BOOLEAN : StartSR(hsq)) /\ UNCHANGED fs
CompactionCompute == UNCHANGED <<sr, fs>>
GradientCompute == ~OutOfBounds /\ UNCHANGED <<sr, fs>>

\* compute: an object can be computed once, with its sample points
Compute ==
    /\ phase = "built" /\ target.failure = NULL /\ (IsInstanton(kind) => target.query)
    /\ \/ kind = "GradientCoupledInstanton" /\ OutOfBounds /\ phase' = "raised" /\ UNCHANGED <<sr, fs>>
       \/ /\ phase' = "computing"
          /\ CASE kind = "FullInstanton" -> FullCompute
               [] kind = "SlowRollInstanton" -> SlowRollCompute
               [] kind = "CompactionFunction" -> CompactionCompute
               [] kind = "GradientCoupledInstanton" -> GradientCompute
    /\ UNCHANGED <<task, turn, target, rows, restarts, proxies, cache>>

SolverStep ==
    /\ phase = "computing"
    /\ \/ kind = "FullInstanton" /\ NextFS /\ UNCHANGED sr
       \/ kind = "SlowRollInstanton" /\ NextSR /\ UNCHANGED fs
    /\ UNCHANGED <<task, turn, phase, target, rows, restarts, proxies, cache>>

\* store, _populate_from_result: the worker's result is fetched and taken over.
\* An exception of the worker surfaces here
TakeOver(result) == phase' = "populated" /\ target' = Object(result, target.full, target.query)

FullTakeOver == fs.at \in {"solved", "failed"} /\ TakeOver(FullResult)

SlowRollTakeOver ==
    \/ sr.at \in {"solved", "failed"} /\ TakeOver(SlowRollResult)
    \/ sr.at = "raised" /\ phase' = "raised" /\ UNCHANGED target

\* The samples an instanton has, with whether their density is met on the background
Densities(proxy, unmatched) ==
    IF proxy = NULL THEN NULL
    ELSE [i \in DOMAIN proxy.values |-> [N |-> proxy.values[i].N, matched |-> i \notin unmatched]]

\* Of either path the integration from its end point may not reach the end of inflation
Downflows == [full : BOOLEAN, slow_roll : BOOLEAN]

CompactionTakeOver ==
    \E downflow \in Downflows, shape \in Shapes, unmatched \in {{}, {1}, 1 .. Len(BuildNSample(task.point)) - 1} :
        TakeOver(CompactionResult(CompactionPaths(Densities(proxies["FullInstanton"], unmatched),
                    Densities(proxies["SlowRollInstanton"], unmatched), task.point.N_init, downflow, shape)))

GradientTakeOver ==
    \E solved \in BOOLEAN, lost \in {{}, {1}}, raw, dense \in Shapes :
        TakeOver(GradientResult(solved, [j \in 1 .. Nodes |-> j \notin lost], raw, dense))

Store ==
    /\ phase = "computing"
    /\ CASE kind = "FullInstanton" -> FullTakeOver
         [] kind = "SlowRollInstanton" -> SlowRollTakeOver
         [] kind = "CompactionFunction" -> CompactionTakeOver
         [] kind = "GradientCoupledInstanton" -> GradientTakeOver
    /\ sr' = IdleSR /\ fs' = IdleFS
    /\ UNCHANGED <<task, turn, rows, restarts, proxies, cache>>

\* persist: the factory's store
Persist ==
    /\ phase = "populated"
    /\ rows' = [rows EXCEPT ![kind] = @ \union {Stored(kind, target)}]
    /\ phase' = "stored"
    /\ UNCHANGED <<task, turn, target, restarts, proxies, cache, sr, fs>>

Validate ==
    /\ phase = "stored"
    /\ LET row == Stored(kind, target) IN
       rows' = [rows EXCEPT ![kind] = (@ \ {row}) \union {Validated(kind, target, row)}]
    /\ phase' = "validated"
    /\ UNCHANGED <<task, turn, target, restarts, proxies, cache, sr, fs>>

\* The next target is handed the object itself, as the pipelines do, or what a
\* fetch makes of its row
HandOn ==
    /\ phase = "validated"
    /\ \E handed \in {target} \union {Fetched(kind, rows[kind], mode) : mode \in Modes(kind)} :
          IF handed = NULL THEN phase' = "raised" /\ UNCHANGED <<turn, target, proxies>>
          ELSE /\ proxies' = [proxies EXCEPT ![kind] = Object(handed, task.full, FALSE)]
               /\ turn' = turn + 1 /\ target' = Fresh(task.full)
               /\ phase' = IF turn = Len(Kinds) THEN "done" ELSE "built"
    /\ UNCHANGED <<task, rows, restarts, cache, sr, fs>>

\* The driver is killed, and started again with --prune-unvalidated or without:
\* an object not yet validated is asked for and computed again
Restart ==
    /\ phase \in {"computing", "populated", "stored"} /\ restarts < MaxRestarts
    /\ restarts' = restarts + 1
    /\ rows' \in {rows, Pruned(rows)}
    /\ phase' = "built" /\ target' = Fresh(task.full) /\ sr' = IdleSR /\ fs' = IdleFS
    /\ UNCHANGED <<task, turn, proxies, cache>>

\* zeta_C_r_at_time on the fetched gradient-coupled instanton: an answer is kept
\* per sample token
AtTime(n) ==
    /\ phase = "done" /\ n \notin cache
    /\ IF proxies["GradientCoupledInstanton"].values = <<>> THEN phase' = "raised" /\ UNCHANGED cache
       ELSE cache' = cache \union {n} /\ UNCHANGED phase
    /\ UNCHANGED <<task, turn, target, rows, restarts, proxies, sr, fs>>

Finished == phase \in {"done", "raised"} /\ UNCHANGED vars

Next ==
    \/ AskFirst \/ Compute \/ SolverStep \/ Store \/ Persist \/ Validate \/ HandOn \/ Restart
    \/ \E n \in {0, N_total(task.point)} : AtTime(n)
    \/ Finished

Spec == Init /\ [][Next]_vars

---------------------------------------------------------------------------
(* Properties *)

InstantonRows == rows["FullInstanton"] \union rows["SlowRollInstanton"] \union rows["GradientCoupledInstanton"]

\* A stored sample holds what was computed at its own e-fold: the homogeneous
\* instantons pair their points with the worker's columns by position, after the
\* worker has left points out
ValuesWhereComputed == \A row \in InstantonRows : \A i \in DOMAIN row.values : row.values[i].N = row.values[i].at

\* A fetch of a validated row with its samples raises or gives the object that was
\* stored: never a success whose samples are silently missing
FetchGivesTheResult ==
    phase = "validated" =>
        LET obj == Fetched(kind, rows[kind], "full") IN
        obj # NULL =>
            /\ obj.values = target.values /\ obj.profile = target.profile
            /\ IsInstanton(kind) /\ ~target.failure => obj.scalars = target.scalars
            /\ ~IsInstanton(kind) => obj.failure = target.failure

\* What is stored as a success rests on successes: a full instanton on integrations
\* that all succeeded, with the sweeps of one that did not settle showing it; a path
\* of a compaction function, and the seed of a gradient-coupled instanton, on an
\* instanton that is stored as a success
SuccessOnSuccess ==
    LET solved(k) == \E row \in rows[k] : row.validated /\ row.scalars # NULL IN
    /\ \A row \in rows["FullInstanton"] : row.scalars # NULL =>
          /\ row.diagnostics.converged /\ row.diagnostics.genuine
          /\ ~row.diagnostics.settled => row.diagnostics.max_picard_iterations = MaxInner
    /\ \A row \in rows["CompactionFunction"] :
          /\ ~row.scalars.full.failure => solved("FullInstanton")
          /\ ~row.scalars.slow_roll.failure => solved("SlowRollInstanton")
    /\ \A row \in rows["GradientCoupledInstanton"] : row.diagnostics.seeded => solved("FullInstanton")

\* The radii and the masses of a path agree: the outermost radius over the threshold
\* exists exactly if its mass does, and the peak lies within it
MassesFollowRadii ==
    \A row \in rows["CompactionFunction"] : \A p \in {row.scalars.full, row.scalars.slow_roll} :
        ~p.failure =>
            /\ (p.r_max = NULL) <=> (p.M_max = NULL)
            /\ p.M_peak # NULL => p.M_max # NULL /\ p.r_peak <= p.r_max /\ p.M_peak <= p.M_max

\* What _build_N_sample says of the samples: the last one is the exact end of the
\* transition, where the radial profile starts
EndpointKept ==
    \A row \in InstantonRows : row.values # <<>> => Last(row.values).N >= N_total(task.point)
=============================================================================
