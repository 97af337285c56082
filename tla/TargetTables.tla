---------------------------- MODULE TargetTables ----------------------------
(***************************************************************************)
(* The tables of the four compute targets, as their factories under        *)
(* Datastore/SQL/ObjectFactories use them: the columns, the columns a      *)
(* lookup compares, how an object becomes a row with child rows, what a    *)
(* validation counts and a startup prunes, and what a fetch makes of the   *)
(* row again.  Units are divided out on the way in and multiplied on the   *)
(* way out; a number stands for itself.                                    *)
(*                                                                         *)
(* An object is [failure, scalars, values, profile, full, diagnostics]:    *)
(* failure is NULL until a result is known; values are the samples in e-   *)
(* folds (of a compaction function: in radius, per path), profile the      *)
(* radial samples of a gradient-coupled instanton.                         *)
(***************************************************************************)
EXTENDS CompactionScalars

Kinds == <<"FullInstanton", "SlowRollInstanton", "CompactionFunction", "GradientCoupledInstanton">>
KindSet == ToSet(Kinds)
IsInstanton(kind) == kind # "CompactionFunction"

NoResult == [failure |-> NULL, scalars |-> NULL, values |-> <<>>, profile |-> <<>>, diagnostics |-> NULL]

(***************************************************************************)
(* register, inventory_spec and the WHERE of build: the serials a row has, *)
(* those a copy of the store is compared by, those a lookup compares.  A   *)
(* noise stands for its least, mean and greatest value                     *)
(***************************************************************************)
Ends == {"N_init", "N_final", "delta_Nstar"}
Tolerances == {"atol", "rtol"}
Diffusion == {"diffusion_serial", "diffusion_type"}
RadialScalars == {"C_peak", "C_bar_peak", "C_min", "compensated", "type_II", "r_max", "r_peak", "M_max", "M_peak",
                  "V_end_downflow", "N_end_downflow"}

FullTable == [serials |-> {"trajectory"} \union Ends \union Tolerances \union Diffusion,
              numbers |-> {"n_fields", "N_total", "msr_action", "noise_phi1", "noise_phi2"},
              children |-> {"FullInstantonValue"}]
SlowRollTable == [serials |-> {"trajectory"} \union Ends \union Tolerances \union Diffusion,
                  numbers |-> {"n_fields", "N_total", "msr_action", "noise_phi1", "noise_phi2"},
                  children |-> {"SlowRollInstantonValue"}]
CompactionTable == [serials |-> {"trajectory", "full_instanton", "slow_roll_instanton", "delta_Nstar", "cosmo"} \union Tolerances,
                    numbers |-> {"C_threshold"}, of_each_path |-> {"failure"} \union RadialScalars,
                    children |-> {"CompactionFunctionSamples"}]
GradientTable == [serials |-> {"trajectory", "n_collocation_points", "alpha_regularization", "cosmo"}
                                \union Ends \union Tolerances \union Diffusion,
                  numbers |-> {"n_fields", "N_total", "msr_action", "noise_field", "noise_mom"} \union RadialScalars,
                  children |-> {"GradientCoupledInstantonValue", "GradientCoupledInstantonProfile"}]

FullInventory == {"trajectory", "diffusion_type", "diffusion_serial"} \union Ends \union Tolerances
SlowRollInventory == {"trajectory", "diffusion_type", "diffusion_serial"} \union Ends \union Tolerances
CompactionInventory == {"trajectory", "full_instanton", "slow_roll_instanton", "delta_Nstar", "cosmo"} \union Tolerances
GradientInventory == {"trajectory", "n_collocation_points", "alpha_regularization", "diffusion_type",
                      "diffusion_serial", "cosmo"} \union Ends \union Tolerances

FullMatched == {"trajectory"} \union Ends \union Tolerances \union Diffusion
SlowRollMatched == {"trajectory"} \union Ends \union Tolerances \union Diffusion
CompactionMatched == {"trajectory", "delta_Nstar", "cosmo", "full_instanton", "slow_roll_instanton"} \union Tolerances
GradientMatched == {"trajectory", "n_collocation_points", "alpha_regularization", "cosmo"}
                     \union Ends \union Tolerances \union Diffusion

\* Two stores are compared by what a lookup compares, and that is every serial of a
\* row.  The threshold of a compaction function is a column that nothing compares
ASSUME IdentityIsMatched ==
    /\ FullTable.serials = FullMatched /\ FullInventory = FullMatched
    /\ SlowRollTable.serials = SlowRollMatched /\ SlowRollInventory = SlowRollMatched
    /\ CompactionTable.serials = CompactionMatched /\ CompactionInventory = CompactionMatched
    /\ GradientTable.serials = GradientMatched /\ GradientInventory = GradientMatched
    /\ "C_threshold" \in CompactionTable.numbers \ CompactionMatched

(***************************************************************************)
(* store                                                                   *)
(***************************************************************************)
\* Slip: the marker is written for full-fidelity rows only
MarkerOnFull(obj) == obj.failure = FALSE /\ obj.full

\* A success stored without its samples says so in its diagnostics
Marker(obj) == obj.failure = FALSE /\ ~obj.full

Row(obj, scalars, values, profile) ==
    [scalars |-> scalars, marked |-> Marker(obj), diagnostics |-> obj.diagnostics,
     values |-> values, profile |-> profile, validated |-> FALSE]

\* One insertion per sample: unique per parent and e-fold token, or per source and radius
FullValueRows(obj) == IF obj.full /\ ~obj.failure THEN obj.values ELSE <<>>
SlowRollValueRows(obj) == IF obj.full /\ ~obj.failure THEN obj.values ELSE <<>>
CompactionSampleRows(obj) == IF obj.full /\ ~obj.failure THEN obj.values ELSE <<>>
GradientValueRows(obj) == IF obj.full /\ ~obj.failure THEN obj.values ELSE <<>>
GradientProfileRows(obj) == IF obj.failure THEN <<>> ELSE obj.profile   \* whatever the flag says

FullStored(obj) == Row(obj, IF obj.failure THEN NULL ELSE obj.scalars, FullValueRows(obj), <<>>)
SlowRollStored(obj) == Row(obj, IF obj.failure THEN NULL ELSE obj.scalars, SlowRollValueRows(obj), <<>>)
GradientStored(obj) ==
    Row(obj, IF obj.failure THEN NULL ELSE obj.scalars, GradientValueRows(obj), GradientProfileRows(obj))

\* One failure column per path; the booleans of a failed path are stored as false
PathColumns(path) ==
    IF path.failure THEN [failure |-> TRUE, r_max |-> NULL, r_peak |-> NULL, M_max |-> NULL, M_peak |-> NULL,
                          C_peak |-> NULL, C_min |-> NULL, compensated |-> FALSE, type_II |-> FALSE]
    ELSE path
CompactionStored(obj) ==
    LET paths == IF obj.failure THEN [full |-> NoPath, slow_roll |-> NoPath] ELSE obj.scalars
    IN  Row(obj, [full |-> PathColumns(paths.full), slow_roll |-> PathColumns(paths.slow_roll)],
            CompactionSampleRows(obj), <<>>)

Stored(kind, obj) ==
    CASE kind = "FullInstanton" -> FullStored(obj)
      [] kind = "SlowRollInstanton" -> SlowRollStored(obj)
      [] kind = "CompactionFunction" -> CompactionStored(obj)
      [] kind = "GradientCoupledInstanton" -> GradientStored(obj)

(***************************************************************************)
(* validate: the children of a success are counted                         *)
(***************************************************************************)
Counted(obj, row) == Len(row.values) = IF obj.full THEN Len(obj.values) ELSE 0
FullCounted(obj, row) == obj.failure \/ Counted(obj, row)
SlowRollCounted(obj, row) == obj.failure \/ Counted(obj, row)
CompactionCounted(obj, row) == obj.failure \/ Counted(obj, row)
GradientCounted(obj, row) == obj.failure \/ (Counted(obj, row) /\ Len(row.profile) = Len(obj.profile))

Validated(kind, obj, row) ==
    [row EXCEPT !.validated =
        CASE kind = "FullInstanton" -> FullCounted(obj, row)
          [] kind = "SlowRollInstanton" -> SlowRollCounted(obj, row)
          [] kind = "CompactionFunction" -> CompactionCounted(obj, row)
          [] kind = "GradientCoupledInstanton" -> GradientCounted(obj, row)]

(***************************************************************************)
(* build on a validated row.  The failure of an instanton is not restored, *)
(* that of a compaction function is: both paths failed                     *)
(***************************************************************************)
Restored(row, failure) ==
    [failure |-> failure, scalars |-> row.scalars, values |-> <<>>, profile |-> <<>>,
     diagnostics |-> row.diagnostics]

\* _populate, _populate_profile: the children, by e-fold or by radius
FullPopulated(obj, row) == [obj EXCEPT !.values = row.values]
SlowRollPopulated(obj, row) == [obj EXCEPT !.values = row.values]
CompactionPopulated(obj, row) == [obj EXCEPT !.values = row.values]
GradientPopulated(obj, row) == [obj EXCEPT !.values = row.values]
ProfilePopulated(obj, row) == [obj EXCEPT !.profile = row.profile]

\* A fetch in a mode; NULL: it raises, for the samples of a row that has none
FullFetched(row, mode) ==
    CASE mode = "scalars" -> Restored(row, NULL)
      [] mode = "full" -> IF row.marked THEN NULL ELSE FullPopulated(Restored(row, NULL), row)
SlowRollFetched(row, mode) ==
    CASE mode = "scalars" -> Restored(row, NULL)
      [] mode = "full" -> IF row.marked THEN NULL ELSE SlowRollPopulated(Restored(row, NULL), row)
CompactionFetched(row, mode) ==
    LET obj == Restored(row, row.scalars.full.failure /\ row.scalars.slow_roll.failure) IN
    CASE mode = "scalars" -> obj
      [] mode = "full" -> IF row.marked THEN NULL ELSE CompactionPopulated(obj, row)
GradientFetched(row, mode) ==
    CASE mode = "scalars" -> Restored(row, NULL)
      [] mode = "profile" -> ProfilePopulated(Restored(row, NULL), row)
      [] mode = "full" -> IF row.marked THEN NULL
                          ELSE ProfilePopulated(GradientPopulated(Restored(row, NULL), row), row)

\* Only a gradient-coupled instanton can be fetched with its profile alone
Modes(kind) == {"scalars", "full"} \union IF kind = "GradientCoupledInstanton" THEN {"profile"} ELSE {}

Fetched(kind, table, mode) ==
    LET row == CHOOSE r \in table : r.validated IN
    CASE kind = "FullInstanton" -> FullFetched(row, mode)
      [] kind = "SlowRollInstanton" -> SlowRollFetched(row, mode)
      [] kind = "CompactionFunction" -> CompactionFetched(row, mode)
      [] kind = "GradientCoupledInstanton" -> GradientFetched(row, mode)

(***************************************************************************)
(* validate_on_startup                                                     *)
(***************************************************************************)
FullPruned(table) == {row \in table : row.validated}
SlowRollPruned(table) == {row \in table : row.validated}
CompactionPruned(table) == {row \in table : row.validated}
GradientPruned(table) == {row \in table : row.validated}
Pruned(tables) ==
    [FullInstanton |-> FullPruned(tables.FullInstanton), SlowRollInstanton |-> SlowRollPruned(tables.SlowRollInstanton),
     CompactionFunction |-> CompactionPruned(tables.CompactionFunction),
     GradientCoupledInstanton |-> GradientPruned(tables.GradientCoupledInstanton)]
=============================================================================
