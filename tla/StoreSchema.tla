---------------------------- MODULE StoreSchema ----------------------------
(***************************************************************************)
(* What the driver tells the datastore layer about its tables              *)
(* (config/datastore.py, config/sharding.py): which tables name rows of    *)
(* which, which are copied to every shard, and which go together when      *)
(* --drop removes a group of them.                                         *)
(***************************************************************************)
EXTENDS Naturals, FiniteSets

Replicated ==
    {"version", "store_tag", "tolerance", "efold_value", "delta_Nstar", "N_init", "N_final",
     "n_collocation_points", "alpha_regularization", "inflaton_mass", "quartic_coupling",
     "phi_value", "pi_value", "QuadraticPotential", "QuarticPotential",
     "MasslessDecoupledDiffusion", "IntegrationSolver", "InflatonTrajectory",
     "InflatonTrajectoryValue", "CosmologicalParams"}

DropGroups ==
    [group \in {"inflaton-trajectory", "full-instanton", "slow-roll-instanton",
                "compaction-function", "gradient-coupled-instanton"} |->
        CASE group = "inflaton-trajectory" -> {"InflatonTrajectoryValue", "InflatonTrajectory"}
          [] group = "full-instanton"      -> {"FullInstantonValue", "FullInstanton"}
          [] group = "slow-roll-instanton" -> {"SlowRollInstantonValue", "SlowRollInstanton"}
          [] group = "compaction-function" -> {"CompactionFunctionSamples", "CompactionFunction"}
          [] group = "gradient-coupled-instanton" ->
                {"GradientCoupledInstantonValue", "GradientCoupledInstantonProfile",
                 "GradientCoupledInstanton"}]

Droppable == UNION {DropGroups[g] : g \in DOMAIN DropGroups}

\* The foreign keys and the parents the factories declare, among the tables
\* that can be dropped: <<a, b>> when rows of a name rows of b
Names ==
    {<<"InflatonTrajectoryValue", "InflatonTrajectory">>,
     <<"FullInstanton", "InflatonTrajectory">>, <<"SlowRollInstanton", "InflatonTrajectory">>,
     <<"CompactionFunction", "InflatonTrajectory">>,
     <<"GradientCoupledInstanton", "InflatonTrajectory">>,
     <<"FullInstantonValue", "FullInstanton">>, <<"CompactionFunction", "FullInstanton">>,
     <<"SlowRollInstantonValue", "SlowRollInstanton">>,
     <<"CompactionFunction", "SlowRollInstanton">>,
     <<"CompactionFunctionSamples", "CompactionFunction">>,
     <<"GradientCoupledInstantonValue", "GradientCoupledInstanton">>,
     <<"GradientCoupledInstantonProfile", "GradientCoupledInstanton">>}

Tables(groups) == UNION {DropGroups[g] : g \in groups}

\* Every table left naming, directly or not, a row of the tables (datastorekit's
\* dependent_tables)
Dependents(tables) ==
    LET reached[n \in Nat] ==
            IF n = 0 THEN tables
            ELSE LET before == reached[n - 1] IN
                 before \union {t \in Droppable : \E d \in before : <<t, d>> \in Names}
    IN  reached[Cardinality(Droppable)] \ tables

\* Slip: a known group may always be dropped, whatever names its rows
MayDropUnchecked(groups) == groups \subseteq DOMAIN DropGroups

\* A drop that would leave a table naming dropped rows is refused before
\* anything is opened
MayDrop(groups) == Dependents(Tables(groups)) = {}

\* What that comes to, over all sets of groups: where nothing depends on the
\* tables dropped, none of them is emptied under one that names its rows
ASSUME DropsFollowNames ==
    \A groups \in SUBSET DOMAIN DropGroups : Dependents(Tables(groups)) = {} =>
        \A n \in Names : n[2] \in Tables(groups) => n[1] \in Tables(groups)
=============================================================================
