---------------------------- MODULE TokenTables ----------------------------
(***************************************************************************)
(* The small tables that name the numbers a computation is made of         *)
(* (Datastore/SQL/ObjectFactories), replicated on every shard.  A factory's *)
(* build() looks a value up and inserts it when it finds none, so the      *)
(* identity of everything else in the store - rows cite these tokens by    *)
(* serial - rests on which stored number counts as the number asked for.   *)
(*                                                                         *)
(* A table is a set of records [serial, key].  Numbers are integers on a   *)
(* grid fine enough to tell apart what the look-ups tell apart; 1 / Rel is *)
(* the relative precision of config/defaults.py.                           *)
(***************************************************************************)
EXTENDS Integers, FiniteSets

CONSTANTS
    EfoldRel,       \* 1 / DEFAULT_EFOLD_RELATIVE_PRECISION, also that of alpha
    QuantityRel     \* 1 / DEFAULT_DIMENSION(LESS|FUL)_QUANTITY_RELATIVE_PRECISION

Abs(x) == IF x < 0 THEN -x ELSE x

\* Slip: the floats themselves are compared
NearExact(rel, stored, asked) == stored = asked

\* The queries' filter: relative to the number ASKED for (so it is neither
\* symmetric nor transitive), and absolute, which the grid makes equality, at 0
Near(rel, stored, asked) ==
    IF asked = 0 THEN stored = 0 ELSE Abs(stored - asked) * rel < Abs(asked)

(***************************************************************************)
(* One operator per factory: does the stored key answer the key asked for? *)
(***************************************************************************)
efold_value(stored, asked)          == Near(EfoldRel, stored, asked)
N_init(stored, asked)               == Near(EfoldRel, stored, asked)
N_final(stored, asked)              == Near(EfoldRel, stored, asked)
delta_Nstar(stored, asked)          == Near(EfoldRel, stored, asked)
alpha_regularization(stored, asked) == Near(EfoldRel, stored, asked)
DimensionfulQuantity(stored, asked) == Near(QuantityRel, stored, asked)
DimensionlessQuantity(stored, asked) == Near(QuantityRel, stored, asked)
redshift(stored, asked) ==     \* at 0 the comparison is inside abs(): no lower edge
    IF asked = 0 THEN stored <= 0 ELSE Near(QuantityRel, stored, asked)

\* absolute, on the logarithm, whose values are whole numbers (pipeline_setup)
tolerance(stored, asked)            == stored = asked
n_collocation_points(stored, asked) == stored = asked
\* by name alone: the parameters stored under the name are not compared
CosmologicalParams(stored, asked)   == stored.name = asked.name
\* by the serial of the mass, or of the coupling, that an earlier look-up gave
QuadraticPotential(stored, asked)   == stored = asked
QuarticPotential(stored, asked)     == stored = asked
\* the table holds at most one row: whatever is there answers
MasslessDecoupledDiffusion(stored, asked) == TRUE
store_tag(stored, asked)            == stored = asked
version(stored, asked)              == stored = asked
IntegrationSolver(stored, asked) ==
    /\ stored.label = asked.label
    /\ stored.stepping >= (IF asked.stepping < 0 THEN 0 ELSE asked.stepping)

\* config.datastore.factories: the factory of each replicated class
Answers(cls, stored, asked) ==
    CASE cls = "efold_value"          -> efold_value(stored, asked)
      [] cls = "N_init"               -> N_init(stored, asked)
      [] cls = "N_final"              -> N_final(stored, asked)
      [] cls = "delta_Nstar"          -> delta_Nstar(stored, asked)
      [] cls = "alpha_regularization" -> alpha_regularization(stored, asked)
      [] cls \in {"phi_value", "pi_value", "inflaton_mass"} -> DimensionfulQuantity(stored, asked)
      [] cls = "quartic_coupling"     -> DimensionlessQuantity(stored, asked)
      [] cls = "tolerance"            -> tolerance(stored, asked)
      [] cls = "n_collocation_points" -> n_collocation_points(stored, asked)
      [] cls = "CosmologicalParams"   -> CosmologicalParams(stored, asked)
      [] cls = "QuadraticPotential"   -> QuadraticPotential(stored, asked)
      [] cls = "QuarticPotential"     -> QuarticPotential(stored, asked)
      [] cls = "MasslessDecoupledDiffusion" -> MasslessDecoupledDiffusion(stored, asked)
      [] cls = "redshift"             -> redshift(stored, asked)
      [] cls = "store_tag"            -> store_tag(stored, asked)
      [] cls = "version"              -> version(stored, asked)
      [] cls = "IntegrationSolver"    -> IntegrationSolver(stored, asked)

\* The classes whose query ends in .scalar(), which takes the first of several
\* rows; the others end in one_or_none(), which raises on a second row
FirstRowOf == {"store_tag", "version", "IntegrationSolver"}

Hits(table, cls, asked) == {r \in table : Answers(cls, r.key, asked)}

Refuses(table, cls, asked) == cls \notin FirstRowOf /\ Cardinality(Hits(table, cls, asked)) > 1

\* What is written when nothing answers: a negative stepping is stored as 0
Written(cls, asked) ==
    IF cls = "IntegrationSolver" /\ asked.stepping < 0 THEN [asked EXCEPT !.stepping = 0]
    ELSE asked
=============================================================================
