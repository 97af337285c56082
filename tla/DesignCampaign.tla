--------------------------- MODULE DesignCampaign ---------------------------
(***************************************************************************)
(* A campaign: a sampling design is drawn and written to a file, main.py   *)
(* works off the grid the file names (or the axis grid), and a plotting    *)
(* driver reads the store, on the same file or on the axis grid, while     *)
(* main.py is still writing to it or afterwards.  The two processes share  *)
(* the store and nothing else; no lock keeps one from reading between two  *)
(* writes of the other.                                                    *)
(*                                                                         *)
(* A row is in the store once it is validated: until then no look-up finds *)
(* it (UnifiedPipeline and StagedRun follow the two steps, and kills).     *)
(* The passes of a plotting driver leave nothing for one another, so that  *)
(* the model follows any one of them.                                      *)
(***************************************************************************)
EXTENDS SamplingDesign, PlotFetch

CONSTANTS
    Designs,        \* options generate_lhc_grid.py is called with
    HandFiles,      \* files written by hand: [columns, numeric, rows]
    Axis,           \* the --<axis>-low/high/samples/values of each column
    Combos,         \* (n_collocation_points, alpha_regularization), in order
    MaxCombos,      \* --max-combinations
    MaxSamples,     \* --max-instanton-samples
    Compares,       \* --compare-with of the gradient driver
    MaxFailures     \* bound: solves, and paths of a compaction function, that fail

VARIABLES
    design,     \* where the grid comes from
    file,       \* what became of the sample grid
    tokens,     \* the tables of the three classes of numbers
    main,       \* the run of main.py
    table,      \* the validated rows of each kind
    plot        \* the plotting driver

vars == <<design, file, tokens, main, table, plot>>

Origins ==
    {[by |-> "generator", args |-> a] : a \in Designs}
        \cup {[by |-> "hand", file |-> f] : f \in HandFiles} \cup {[by |-> "axis"]}

Idle == [phase |-> "idle"]

Init ==
    /\ design \in Origins
    /\ file = IF design.by = "hand" THEN [verdict |-> "written", file |-> design.file]
              ELSE [verdict |-> IF design.by = "axis" THEN "none" ELSE "pending"]
    /\ tokens = [c \in Columns |-> {}]
    /\ table = [k \in {FI, SRI, CF, GCI} |-> {}]
    /\ main = Idle
    /\ plot = Idle

\* generate_lhc_grid.py
Generate ==
    /\ file.verdict = "pending"
    /\ \E s \in IF Refused(design.args) THEN {<<>>} ELSE sample_unit_cube(design.args) :
          file' = Generated(design.args, s)
    /\ UNCHANGED <<design, tokens, main, table, plot>>

-----------------------------------------------------------------------------
(***************************************************************************)
(* Both programs register the axis values first, whether or not a file     *)
(* supersedes them, and then build their grid.  The classes have a table   *)
(* each, so that it does not matter in which order their calls return.     *)
(***************************************************************************)
Raised(regs) == \E c \in Columns : regs[c].raised
TablesOf(regs) == [c \in Columns |-> regs[c].table]
SerialsOf(regs) == [c \in Columns |-> regs[c].serials]

build_pipeline_inputs(tabs) == [c \in Columns |-> object_get(c, tabs[c], axis_grid(Axis[c]))]

CsvLookups(tabs) == [c \in Columns |-> CsvTokens(c, tabs[c], file.file.rows)]

\* build_instanton_grid: the items, or NULL if reading or a look-up raised
GridOf(csv, axis, lookups) ==
    IF csv
      THEN IF ReadFails(file.file) \/ Raised(lookups) THEN NULL
           ELSE LET s == SerialsOf(lookups)
                IN  build_grid_from_csv(s["N_init"], s["N_final"], s["delta_Nstar"])
      ELSE LET s == SerialsOf(axis)
           IN  build_cartesian_grid(s["N_init"], s["N_final"], s["delta_Nstar"])

Opened(csv, axis, lookups) ==
    IF Raised(axis) THEN NULL ELSE GridOf(csv, axis, lookups)

\* What is in the tables afterwards
TokensAfter(csv, axis, lookups) ==
    IF csv /\ ~Raised(axis) /\ ~ReadFails(file.file) THEN TablesOf(lookups) ELSE TablesOf(axis)

Lookups(csv, axis) == IF csv /\ ~ReadFails(file.file) THEN CsvLookups(TablesOf(axis)) ELSE axis

NamesEachPointOnce(items) == \A i, j \in DOMAIN items : items[i] = items[j] => i = j

\* With values, a design that names a point twice is left to the scalars-only run
StartMain ==
    /\ main = Idle
    /\ file.verdict \in {"written", "none"}
    /\ LET csv == file.verdict = "written"
           axis == build_pipeline_inputs(tokens)
           lookups == Lookups(csv, axis)
           items == Opened(csv, axis, lookups)
       IN  /\ tokens' = TokensAfter(csv, axis, lookups)
           /\ IF items = NULL THEN main' = [phase |-> "raised"]
              ELSE \E noValues \in {v \in BOOLEAN : v \/ NamesEachPointOnce(items)} :
                     main' = [phase |-> "work", noValues |-> noValues, items |-> items,
                              made |-> {}, failures |-> 0]
    /\ UNCHANGED <<design, file, table, plot>>

-----------------------------------------------------------------------------
(***************************************************************************)
(* What main.py stores, and in which order: point by point without values, *)
(* otherwise kind by kind, the gradient branch last.                       *)
(***************************************************************************)
Reported == plot.phase = "pass" /\ plot.rounds = <<>>

MainItems == DOMAIN main.items
Made(k, i) == <<k, i>> \in main.made
Solved(k, i) == \E r \in table[k] : r.serial = <<k, i>> /\ r.ok

After(k, before, i) ==
    IF main.noValues THEN Made(before, i) ELSE \A j \in MainItems : Made(before, j)

Put(k, i, row, failures) ==
    /\ main.phase = "work" /\ ~Made(k, i)
    /\ main.failures + failures <= MaxFailures
    /\ table' = [table EXCEPT ![k] = @ \cup {[row EXCEPT !.validated = TRUE]}]
    /\ main' = [main EXCEPT !.made = @ \cup {<<k, i>>}, !.failures = @ + failures]
    /\ UNCHANGED <<design, file, tokens, plot>>

StoreFI(i) ==
    \E ok \in BOOLEAN :
        Put(FI, i, InstantonRow(<<FI, i>>, main.items[i], ok, main.noValues), IF ok THEN 0 ELSE 1)

StoreSRI(i) ==
    /\ After(SRI, FI, i)
    /\ \E ok \in BOOLEAN :
          Put(SRI, i, InstantonRow(<<SRI, i>>, main.items[i], ok, main.noValues),
              IF ok THEN 0 ELSE 1)

\* The foreign key of an instanton that failed is omitted without values
Cited(k, i) == IF Solved(k, i) \/ ~main.noValues THEN <<k, i>> ELSE NULL

\* Without values a point both of whose solves failed has no compaction function
Citable(i) == main.noValues => Solved(FI, i) \/ Solved(SRI, i)

StoreCF(i) ==
    /\ After(CF, SRI, i) /\ Citable(i)
    /\ \E full, slow \in BOOLEAN :
          /\ full => Solved(FI, i)
          /\ slow => Solved(SRI, i)
          /\ Put(CF, i, CompactionRow(<<CF, i>>, Cited(FI, i), Cited(SRI, i),
                                      full, slow, main.noValues),
                 Cardinality({k \in {FI, SRI} : Solved(k, i) /\ ~(IF k = FI THEN full ELSE slow)}))

HomogeneousDone == \A i \in MainItems : Made(CF, i)

\* The gradient branch, of a run with values: one without raises at its seeds (StagedRun)
StoreGCI(i, c) ==
    /\ ~main.noValues /\ HomogeneousDone
    /\ \E ok \in BOOLEAN :
          Put(GCI, <<i, c>>, InstantonRow(<<GCI, <<i, c>>>>, <<main.items[i], Combos[c]>>,
                                          ok, FALSE), IF ok THEN 0 ELSE 1)

\* The run is followed until the pass of the plotting driver is over; what it stores
\* between the driver's start and the pass it might as well have stored before
MainStores ==
    /\ main.phase = "work" /\ plot.phase \in {"idle", "pass"} /\ ~Reported
    /\ \E i \in MainItems :
          \/ StoreFI(i) \/ StoreSRI(i) \/ StoreCF(i)
          \/ \E c \in DOMAIN Combos : StoreGCI(i, c)

-----------------------------------------------------------------------------
(***************************************************************************)
(* The plotting drivers.  One is started once main.py has looked its grid  *)
(* up, with the arguments main.py was given as far as the grid goes; the   *)
(* gradient driver has no use for a file.                                  *)
(***************************************************************************)

\* The arrays the sweeps run over, from a file: every number in it once
Effective(serials) ==
    [c \in Columns |->
        LET asked == Column(file.file.rows, c)
            numbers == SetToSortSeq(ToSet(asked), <)
            First(x) == CHOOSE i \in DOMAIN asked :
                            asked[i] = x /\ \A j \in 1 .. i - 1 : asked[j] # x
        IN  [n \in DOMAIN numbers |-> serials[c][First(numbers[n])]]]

OpenPlot ==
    /\ plot = Idle /\ main.phase = "work"
    /\ \E driver \in {"homogeneous", "gradient"}, noValues \in BOOLEAN, csv \in BOOLEAN,
          compare \in Compares :
          /\ csv <=> driver = "homogeneous" /\ file.verdict = "written"
          /\ driver = "homogeneous" => compare = {FI, SRI}
          /\ LET axis == build_pipeline_inputs(tokens)
                 lookups == Lookups(csv, axis)
                 items == Opened(csv, axis, lookups)
             IN  /\ tokens' = TokensAfter(csv, axis, lookups)
                 /\ plot' = IF items = NULL THEN [phase |-> "raised"]
                            ELSE [phase |-> "open", driver |-> driver, noValues |-> noValues,
                                  compare |-> compare, points |-> items,
                                  arrays |-> IF csv THEN Effective(SerialsOf(lookups))
                                             ELSE SerialsOf(axis)]
    /\ UNCHANGED <<design, file, main, table>>

(***************************************************************************)
(* The passes: the items fetched, the classes, and the groups of them that *)
(* make a figure or a line of the table, each under the values it is       *)
(* labelled with.                                                          *)
(***************************************************************************)
Homogeneous == plot.driver = "homogeneous"

Specs == IF Homogeneous THEN full_sr_class_specs ELSE build_class_specs(plot.compare)

\* build_gradient_grid
GridItems ==
    LET pairs == Product2(plot.points, IF Homogeneous THEN <<NULL>> ELSE Combos)
    IN  [i \in DOMAIN pairs |-> [point |-> pairs[i][1], combo |-> pairs[i][2]]]

\* A sweep keeps the first of the combinations
SweepItem(point) == [point |-> point, combo |-> IF Homogeneous THEN NULL ELSE Combos[1]]

Sampling(a, b) == evenly_sample(Product2(plot.arrays[a], plot.arrays[b]), MaxCombos)

Labelled(a, x, b, y) == [c \in {a, b} |-> IF c = a THEN x ELSE y]

EachItem(items) == [i \in DOMAIN items |-> [label |-> items[i].point, indices |-> {i}]]

Pass(name, items, groups, rounds, populate) ==
    [name |-> name, items |-> items, groups |-> groups, rounds |-> rounds, populate |-> populate]

\* One call of fetch_adapters_over_grid for each pair of the fixed values
AxisSweep(swept, other, pair) ==
    LET label == Labelled(other, pair[1], "delta_Nstar", pair[2])
        values == plot.arrays[swept]
        items == [i \in DOMAIN values |->
                    SweepItem([c \in Columns |-> IF c = swept THEN values[i] ELSE label[c]])]
    IN  Pass(swept, items, <<[label |-> label, indices |-> DOMAIN items]>>,
             AdapterRounds(Specs, items), FALSE)

AxisSweeps(swept, other) ==
    {AxisSweep(swept, other, pair) : pair \in ToSet(Sampling(other, "delta_Nstar"))}

\* One call for all of them, cut into slices afterwards
DeltaNstarSweep ==
    LET pairs == Sampling("N_init", "N_final")
        dns == plot.arrays["delta_Nstar"]
        all == Product2(pairs, dns)
        items == [i \in DOMAIN all |-> SweepItem(Row(all[i][1][1], all[i][1][2], all[i][2]))]
    IN  Pass("delta_Nstar", items,
             [g \in DOMAIN pairs |->
                [label |-> Labelled("N_init", pairs[g][1], "N_final", pairs[g][2]),
                 indices |-> (g - 1) * Len(dns) + 1 .. g * Len(dns)]],
             AdapterRounds(Specs, items), FALSE)

Summary == Pass("doe", GridItems, EachItem(GridItems), AdapterRounds(Specs, GridItems), FALSE)

\* The gradient driver loads the values with the rows
Samples ==
    LET items == evenly_sample(GridItems, MaxSamples) IN
    Pass("instantons", items, EachItem(items),
         IF Homogeneous THEN SampleRounds(items)
         ELSE <<{GCI} \X ToSet(BinKeys(items))>> \o AdapterRounds(compare_class_specs(plot.compare), items),
         ~Homogeneous)

Passes ==
    AxisSweeps("N_init", "N_final") \cup AxisSweeps("N_final", "N_init")
        \cup {DeltaNstarSweep, Summary} \cup IF plot.noValues THEN {} ELSE {Samples}

\* A point whose two solves succeeded and whose compaction function is there
Settled(point) ==
    \E fi \in table[FI], sri \in table[SRI], cf \in table[CF] :
        /\ fi.point = point /\ fi.ok
        /\ sri.point = point /\ sri.ok
        /\ cf.fi = fi.serial /\ cf.sri = sri.serial

StartPass ==
    /\ plot.phase = "open"
    /\ \E p \in Passes :
          plot' = [phase |-> "pass", specs |-> Specs, pass |-> p, rounds |-> p.rounds,
                   settled |-> {q \in {p.items[i].point : i \in DOMAIN p.items} : Settled(q)},
                   fetched |-> [k \in {FI, SRI, CF, GCI} |-> [i \in DOMAIN p.items |-> NULL]]]
    /\ UNCHANGED <<design, file, tokens, main, table>>

\* One vectorised look-up on one shard; a round over, the next begins
Fetch(cls, key) ==
    /\ plot.phase = "pass" /\ plot.rounds # <<>>
    /\ <<cls, key>> \in Head(plot.rounds)
    /\ LET items == plot.pass.items
           rows == Selected(cls, table, items, plot.fetched, key)
           left == Head(plot.rounds) \ {<<cls, key>>}
       IN  plot' = IF FetchRaises(rows, plot.pass.populate) THEN [phase |-> "raised"]
                   ELSE [plot EXCEPT
                           !.fetched[cls] = Scatter(@, Places(cls, items, plot.fetched, key), rows),
                           !.rounds = IF left = {} THEN Tail(@) ELSE <<left>> \o Tail(@)]
    /\ UNCHANGED <<design, file, tokens, main, table>>

Fetches == plot.phase = "pass" /\ \E k \in UNION ToSet(plot.rounds) : Fetch(k[1], k[2])

Next == Generate \/ StartMain \/ MainStores \/ OpenPlot \/ StartPass \/ Fetches

Spec == Init /\ [][Next]_vars

-----------------------------------------------------------------------------
(***************************************************************************)
(* What may be asked of a campaign.                                        *)
(***************************************************************************)
NumberOf(c, serial) == (CHOOSE r \in tokens[c] : r.serial = serial).key
Number(i, c) == NumberOf(c, main.items[i][c])

\* What the file's decimals and the tolerance of a look-up leave open
Off(x) == Digit \div 2 + Abs(x) \div EfoldRel + 1

\* A point of --K: the perturbation, the width and N_final add up to it
AddsUp(args, i) ==
    Abs(Number(i, "N_init") + Number(i, "delta_Nstar") - args.K)
        <= Off(Number(i, "N_init")) + Off(Number(i, "delta_Nstar"))

Designed(args, i) ==
    /\ Number(i, "delta_Nstar") >= delta_nstar_min(args) - Off(delta_nstar_min(args))
    /\ IF FixedK(args) THEN AddsUp(args, i)
                           /\ Number(i, "N_final") >= args.N_final_min - Off(args.N_final_min)
       ELSE Number(i, "N_init") <= args.N_init_max + Off(args.N_init_max)

\* Every row of a sample grid becomes one grid item, whose stored numbers are those of
\* that row up to the tolerance of the look-ups, and the points main.py works on are
\* still points of the design: the constraint of --K and the thresholds survive the
\* rounding in the file and the merging of near numbers (generate_lhc_grid.py build_grid*,
\* grid_builder.py build_grid_from_csv, the factories' build).
PointsMeetTheDesign ==
    main.phase = "work" /\ file.verdict = "written" =>
        /\ Len(main.items) = Len(file.file.rows)
        /\ \A i \in MainItems, c \in Columns :
              Near(EfoldRel, Number(i, c), file.file.rows[i][c])
        /\ design.by = "generator" => \A i \in MainItems : Designed(design.args, i)

Shown(group) ==
    IF Cardinality(group.indices) = 1 /\ plot.pass.name \in {"doe", "instantons"}
      THEN \A i \in group.indices : Collected(plot.specs, plot.fetched, i)
      ELSE Drawn(plot.specs, plot.fetched, group.indices)

Groups == ToSet(plot.pass.groups)
Line(i) == Flattened(plot.specs, plot.pass.items, plot.fetched, i)
PointOf(cls, item) == IF cls = GCI THEN <<item.point, item.combo>> ELSE item.point

\* Whatever the moment a pass reads at, and in whichever order its look-ups return: the
\* figure drawn for some fixed values holds points with these values only, each action
\* is that of a solve of the very point it is shown at, and the compaction scalars next
\* to it come from the same solve (fetch.py fetch_over_grid, _cf_vectorized_fetch; the
\* slices of _sweep_delta_Nstar).
ReportHangsTogether ==
    Reported =>
        \A g \in Groups : Shown(g) =>
            \A i \in g.indices :
                /\ \A c \in DOMAIN g.label : plot.pass.items[i].point[c] = g.label[c]
                /\ \A cls \in ToSet(plot.specs) :
                      LET s == Line(i).scalars[cls] IN
                      /\ s.msr_action # NULL =>
                            \E r \in table[cls] :
                                /\ r.serial = s.msr_action
                                /\ r.point = PointOf(cls, plot.pass.items[i])
                      /\ s.C_peak # NULL => s.C_peak = s.msr_action

\* A point that was settled before a pass began is in what the pass shows, with the
\* actions of both solves and with the compaction scalars of each path that produced
\* any: nothing is lost in binning by shard, in leaving out what has no look-up, or in
\* putting the answers back (fetch.py fetch_over_grid, _cf_vectorized_fetch).
SettledPointsAreShown ==
    Reported =>
        \A g \in Groups : \A i \in g.indices :
            LET item == plot.pass.items[i]
                asked == ToSet(plot.specs) \ {GCI}
            IN  item.point \in plot.settled /\ asked # {} =>
                  /\ Shown(g)
                  /\ \A cls \in asked :
                        LET s == Line(i).scalars[cls] IN
                        /\ s.msr_action # NULL
                        /\ PairsCompactions(plot.specs) =>
                              \A cf \in table[CF] :
                                  (IF cls = FI THEN cf.fi = s.msr_action /\ cf.full
                                   ELSE cf.sri = s.msr_action /\ cf.slow) => s.C_peak # NULL
=============================================================================
