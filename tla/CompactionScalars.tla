------------------------- MODULE CompactionScalars -------------------------
(***************************************************************************)
(* What is read off a profile: ComputeTargets/compaction_scalars.py, the   *)
(* path computation of ComputeTargets/CompactionFunction.py, and the       *)
(* extraction and scale assignment of the gradient-coupled solver.         *)
(*                                                                         *)
(* Values of C are integers; so are radii, scales and masses, by their     *)
(* logarithms, in which the code's dense grids are uniform.  Where the     *)
(* code computes a number from a spline or a root (zeta, C, C_bar, a       *)
(* downflow), the number is part of the data a caller chooses; what the    *)
(* code then decides with it is modelled.                                  *)
(***************************************************************************)
EXTENDS Integers, Sequences, SequencesExt, FiniteSetsExt

CONSTANTS
    NULL,
    C_threshold,    \* in the unit of the values of C
    Unit            \* the value of C that stands for 1

Maximum(s) == Max(ToSet(s))

\* Slip: the scan starts at the inner edge
ClassifyRadiiInner(r, C, threshold) ==
    LET over == {i \in DOMAIN C : C[i] >= threshold}
        peak == Min({i \in DOMAIN C : C[i] = Maximum(C)})
    IN  [r_max |-> IF over = {} THEN NULL ELSE r[Min(over)],
         r_peak |-> r[peak],
         r_max_at_grid_edge |-> Len(C) \in over, r_peak_at_grid_edge |-> peak = Len(C)]

\* classify_radii: two scans of one profile, r ascending
ClassifyRadii(r, C, threshold) ==
    LET over == {i \in DOMAIN C : C[i] >= threshold}
        peak == Min({i \in DOMAIN C : C[i] = Maximum(C)})
    IN  [r_max |-> IF over = {} THEN NULL ELSE r[Max(over)],
         r_peak |-> r[peak],
         r_max_at_grid_edge |-> Len(C) \in over, r_peak_at_grid_edge |-> peak = Len(C)]

ClassifyCMin(C) ==
    LET C_min == Min(ToSet(C))
    IN  [C_min |-> C_min, compensated |-> C_min < 0, type_II |-> C_min < -Unit]

\* pbh_mass: the logarithm of (1 + C_max) r^2, in which C_max stands for the term it
\* grows with
PbhMass(C_max, r, threshold) ==
    IF r = NULL \/ C_max < threshold THEN NULL ELSE C_max + 2 * r

\* densify_zeta_profile: the radii of the dense grid lie between the outermost
\* samples; at least one is added between two neighbours
Densify(r) == [k \in 1 .. 2 * Len(r) - 1 |->
                 IF k % 2 = 1 THEN r[(k + 1) \div 2] ELSE (r[k \div 2] + r[k \div 2 + 1]) \div 2]

\* compute_C_bar: one value per sample; the cumulative integral is the data's
CBar(r, cumulative) == [i \in DOMAIN r |-> cumulative[i]]

\* ln_k_phys_Mpc, ln r = ln 2 pi - ln k: the later the exit, the smaller the scale
PhysicalScale(N_before_end) == N_before_end

(***************************************************************************)
(* _compute_instanton_path.  A sample is a number of e-folds and whether   *)
(* its density is met on the background; downflow says whether the         *)
(* integration from the end point ends inflation, and shape what C comes   *)
(* out at the samples that survive, its last value at all that follow.     *)
(***************************************************************************)
Failed(reason) == [failure |-> TRUE, reason |-> reason]

\* A path that is not computed, or failed, as an object keeps it
NoPath == Failed("not_computed")

\* Step B, C: samples without a zeta or a scale are left out, then sorted by r:
\* place counts the samples that come no later
ScaledSamples(values, N_init) ==
    LET valid == {i \in DOMAIN values : values[i].matched}
        r == [i \in valid |-> PhysicalScale(N_init - values[i].N)]
        place(i) == Cardinality({j \in valid : r[j] < r[i] \/ (r[j] = r[i] /\ j <= i)})
    IN  [k \in 1 .. Cardinality(valid) |-> r[CHOOSE i \in valid : place(i) = k]]

InstantonPath(values, N_init, downflow, shape) ==
    LET r == ScaledSamples(values, N_init) IN
    IF values = <<>> THEN Failed("no_samples")
    ELSE IF ~downflow THEN Failed("downflow")
    ELSE IF r = <<>> THEN Failed("no_scales")
    ELSE IF Len(r) < 2 THEN Failed("too_few_scales")
    ELSE [failure |-> FALSE, r |-> r, C |-> [i \in DOMAIN r |-> shape[Min({i, Len(shape)})]], n_valid |-> Len(r)]

\* Steps E, F: the scalars of a path that did not fail
PathScalars(path) ==
    LET radii == ClassifyRadii(path.r, path.C, C_threshold)
        C_max == Maximum(path.C)
        least == ClassifyCMin(path.C)
    IN  [failure |-> FALSE, r_max |-> radii.r_max, r_peak |-> radii.r_peak, C_peak |-> C_max,
         M_max |-> PbhMass(C_max, radii.r_max, C_threshold),
         M_peak |-> PbhMass(C_max, radii.r_peak, C_threshold),
         C_min |-> least.C_min, compensated |-> least.compensated, type_II |-> least.type_II]

\* _compute_compaction_function: each path whose proxy is available; a proxy of
\* an instanton that is not stored gives no path
CompactionPaths(full, slow_roll, N_init, downflow, shape) ==
    [full |-> IF full = NULL THEN NULL ELSE InstantonPath(full, N_init, downflow.full, shape),
     slow_roll |-> IF slow_roll = NULL THEN NULL ELSE InstantonPath(slow_roll, N_init, downflow.slow_roll, shape)]

PathFailed(path) == IF path = NULL THEN TRUE ELSE path.failure

(***************************************************************************)
(* The gradient-coupled profile.  Node 1 is the outer edge, the last node  *)
(* the core.                                                               *)
(***************************************************************************)
\* extract_zeta_profile: a node without a downflow or a match is NaN, alone
ExtractZeta(nodes) == [j \in DOMAIN nodes |-> IF nodes[j] THEN j ELSE NULL]

\* assign_scales: one NaN node fails the whole profile; C at the nodes is the
\* collocation derivative's, the radii are classified on the dense grid
AssignScales(zeta, raw, dense) ==
    IF \E j \in DOMAIN zeta : zeta[j] = NULL THEN Failed("nan_nodes")
    ELSE LET r_phys == [j \in DOMAIN zeta |-> 2 * (Len(zeta) - j) + 1]
             grid == Densify(Reverse(r_phys))
         IN  [failure |-> FALSE, r_phys |-> r_phys, C |-> [j \in DOMAIN zeta |-> raw[j]],
              C_bar |-> CBar(r_phys, raw),
              radii |-> ClassifyRadii(grid, [k \in DOMAIN grid |-> dense[k]], C_threshold)]

\* Step 7b of _compute_gradient_coupled_instanton: C_peak and the masses come
\* from the raw nodes, the radii from the dense grid
ProfileScalars(scales) ==
    LET C_max == Maximum(scales.C) IN
    [r_max |-> scales.radii.r_max, r_peak |-> scales.radii.r_peak, C_peak |-> C_max,
     M_max |-> PbhMass(C_max, scales.radii.r_max, C_threshold),
     M_peak |-> PbhMass(C_max, scales.radii.r_peak, C_threshold)] @@ ClassifyCMin(scales.C)
=============================================================================
