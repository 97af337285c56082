----------------------------- MODULE PlotFetch -----------------------------
(***************************************************************************)
(* How the plotting drivers read a store (plotting/fetch.py, the adapters, *)
(* plot_InstantonSolutions.py, plot_GradientCoupledSolutions.py): the      *)
(* objects of a list of grid items are fetched shard by shard, put back at *)
(* the items' places, paired with the compaction function that cites them, *)
(* and flattened into one line per point.                                  *)
(*                                                                         *)
(* An item is [point, combo]; the shard is that of the point's delta_Nstar. *)
(* A fetched object is its row, or NULL where there is none.  A scalar is  *)
(* the serial of the instanton it was computed from.                       *)
(***************************************************************************)
EXTENDS InstantonStore, Sequences, SequencesExt

FI == "FullInstanton"
SRI == "SlowRollInstanton"
CF == "CompactionFunction"
GCI == "GradientCoupledInstanton"

Available(obj) == obj # NULL

\* The flag of an instanton is not among what the factories restore ...
Failure(obj) == FALSE

\* ... that of a compaction function is: neither path produced a result
CFFailure(cf) == ~cf.full /\ ~cf.slow

SerialOf(obj) == IF Available(obj) THEN obj.serial ELSE NULL
ObjectIn(rows) == IF rows = {} THEN NULL ELSE CHOOSE r \in rows : TRUE

-----------------------------------------------------------------------------
(***************************************************************************)
(* fetch_over_grid, _cf_adapters_over_grid: items are binned by shard key. *)
(***************************************************************************)
ShardKey(item) == item.point.delta_Nstar

\* Slip: a bin keeps its last item only
BinLast(items, key) ==
    LET all == SelectSeq([i \in DOMAIN items |-> i], LAMBDA i : ShardKey(items[i]) = key)
    IN  IF all = <<>> THEN all ELSE <<all[Len(all)]>>

Bin(items, key) ==
    SelectSeq([i \in DOMAIN items |-> i], LAMBDA i : ShardKey(items[i]) = key)

\* The keys in the order in which they are met
BinKeys(items) ==
    LET First(i) == \A j \in 1 .. i - 1 : ShardKey(items[j]) # ShardKey(items[i])
        firsts == SelectSeq([i \in DOMAIN items |-> i], First)
    IN  [b \in DOMAIN firsts |-> ShardKey(items[firsts[b]])]

\* _cf_vectorized_fetch: the positions at which either instanton is available
ValidIndices(fetched, indices) ==
    SelectSeq(indices, LAMBDA i : Available(fetched[FI][i]) \/ Available(fetched[SRI][i]))

\* The positions of a bin for which a look-up is submitted
Submitted(cls, items, fetched, key) ==
    IF cls = CF THEN ValidIndices(fetched, Bin(items, key)) ELSE Bin(items, key)

\* _instanton_key_payload, _gci_key_payload, _cf_key_payload
RowsFor(cls, table, item, fi, sri) ==
    CASE cls = CF  -> MatchingCompaction(table[CF], SerialOf(fi), SerialOf(sri))
      [] cls = GCI -> Matching(table[GCI], <<item.point, item.combo>>)
      [] OTHER     -> Matching(table[cls], item.point)

\* The rows each of the submitted look-ups selects, in their order
Selected(cls, table, items, fetched, key) ==
    LET at == Submitted(cls, items, fetched, key) IN
    [l \in DOMAIN at |->
        RowsFor(cls, table, items[at[l]],
                IF cls = CF THEN fetched[FI][at[l]] ELSE NULL,
                IF cls = CF THEN fetched[SRI][at[l]] ELSE NULL)]

FetchRaises(selected, populate) ==
    \E l \in DOMAIN selected :
        Ambiguous(selected[l]) \/ (populate /\ CannotPopulate(selected[l]))

\* Slip: the answers are laid out over the whole bin
PlacesBin(cls, items, fetched, key) == Bin(items, key)

\* Where the answers go: local index to global index
Places(cls, items, fetched, key) == Submitted(cls, items, fetched, key)

\* The list of a class after the answers of one bin have come in
Scatter(list, places, selected) ==
    [i \in DOMAIN list |->
        IF \E l \in DOMAIN places : places[l] = i /\ l \in DOMAIN selected
          THEN ObjectIn(selected[CHOOSE l \in DOMAIN places : places[l] = i])
          ELSE list[i]]

-----------------------------------------------------------------------------
(***************************************************************************)
(* The classes a driver asks for, in order, and the rounds in which it     *)
(* does: the look-ups <<class, shard key>> of a round are in flight        *)
(* together, and the next round waits for all of them.                     *)
(***************************************************************************)
full_sr_class_specs == <<FI, SRI>>

compare_class_specs(compare) == SelectSeq(<<FI, SRI>>, LAMBDA c : c \in compare)

build_class_specs(compare) == <<GCI>> \o compare_class_specs(compare)

\* CFFetchSpec: paired only when both instantons are asked for
PairsCompactions(specs) == {FI, SRI} \subseteq ToSet(specs)

\* fetch_adapters_over_grid: class after class, then the compaction functions
\* shard after shard
AdapterRounds(specs, items) ==
    [s \in DOMAIN specs |-> {specs[s]} \X ToSet(BinKeys(items))]
        \o IF PairsCompactions(specs)
             THEN [b \in DOMAIN BinKeys(items) |-> {<<CF, BinKeys(items)[b]>>}]
             ELSE <<>>

\* _generate_instanton_samples: both classes on all shards, then the
\* compaction functions on all shards
SampleRounds(items) ==
    LET keys == ToSet(BinKeys(items)) IN <<{FI, SRI} \X keys, {CF} \X keys>>

-----------------------------------------------------------------------------
(***************************************************************************)
(* InstantonAdapter.scalars(): two of them, one of the solve and one of    *)
(* its compaction function.  An item of a failed solve has NULL columns.   *)
(***************************************************************************)
NoScalars == [msr_action |-> NULL, C_peak |-> NULL]

HasCF(cf) == cf # NULL /\ ~CFFailure(cf)

FullScalars(fi, cf) ==
    [msr_action |-> IF Available(fi) /\ fi.ok THEN fi.serial ELSE NULL,
     C_peak     |-> IF HasCF(cf) /\ cf.full THEN cf.fi ELSE NULL]

SlowRollScalars(sri, cf) ==
    [msr_action |-> IF Available(sri) /\ sri.ok THEN sri.serial ELSE NULL,
     C_peak     |-> IF HasCF(cf) /\ cf.slow THEN cf.sri ELSE NULL]

GradientScalars(gci) ==
    IF ~Available(gci) \/ Failure(gci) \/ ~gci.ok THEN NoScalars
    ELSE [msr_action |-> gci.serial, C_peak |-> gci.serial]

\* The adapter of a class at position i; cf is NULL where none is paired
Scalars(cls, fetched, i) ==
    LET cf == fetched[CF][i] IN
    CASE cls = FI  -> FullScalars(fetched[FI][i], cf)
      [] cls = SRI -> SlowRollScalars(fetched[SRI][i], cf)
      [] cls = GCI -> GradientScalars(fetched[GCI][i])

\* collect_doe_scalar_points, _collect_gci_points, and the detailed samples:
\* a point where nothing is available is omitted
Collected(specs, fetched, i) == \E c \in ToSet(specs) : Available(fetched[c][i])

\* flatten_doe_points_for_csv, _flatten_gci_points_for_csv
Flattened(specs, items, fetched, i) ==
    [item |-> items[i], scalars |-> [c \in ToSet(specs) |-> Scalars(c, fetched, i)]]

\* A sweep is drawn when something in it has not failed
Drawn(specs, fetched, indices) ==
    \E i \in indices, c \in ToSet(specs) : Available(fetched[c][i]) /\ ~Failure(fetched[c][i])
=============================================================================
