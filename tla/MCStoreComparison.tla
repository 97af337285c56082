------------------------- MODULE MCStoreComparison -------------------------
\* Two shards, an instanton with one value on each; the instantons differ in what
\* they name and in their action
EXTENDS StoreComparison

Token(n, x) == [serial |-> n, timestamp |-> "then", N |-> x]
Instanton(n, x) ==
    [serial |-> n, timestamp |-> "then", label |-> "then", N_init |-> n, diffusion |-> 1, diffusion_type |-> 1,
     msr_action |-> x, diagnostics |-> [iterations |-> Integer(0), residual |-> Float(0), compute_time |-> "then"]]
Value(n) == [serial |-> n, timestamp |-> "then", instanton |-> n, phi |-> 0]
Shard(n, redshifts) ==
    [N_init |-> {Token(1, 0), Token(2, 1)}, MasslessDecoupledDiffusion |-> {[serial |-> 1, timestamp |-> "then"]},
     FullInstanton |-> {Instanton(n, 0)}, FullInstantonValue |-> {Value(n)}, redshift |-> redshifts]
MCInitialRows == <<Shard(1, {[serial |-> 1, timestamp |-> "then", z |-> 0]}), Shard(2, {})>>
MCNumbers == {0, 1}
MCSerials == 1 .. 3
=============================================================================
