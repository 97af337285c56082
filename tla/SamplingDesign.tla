--------------------------- MODULE SamplingDesign ---------------------------
(***************************************************************************)
(* From the options of a sampling design to the grid items of a run:       *)
(* config/generate_lhc_grid.py draws the design and writes it as a CSV     *)
(* file, config/grid_builder.py reads the file back and looks its numbers  *)
(* up, config/pipeline_setup.py makes the axis grids used without a file.  *)
(*                                                                         *)
(* Numbers are integers as in TokenTables.  Options are a function whose   *)
(* domain is the options that have a value, given or by default.           *)
(***************************************************************************)
EXTENDS TokenTables, Sequences, SequencesExt

CONSTANTS
    Cube,       \* samples of the unit cube are multiples of 1 / Cube
    Digit       \* the eighth decimal, the last a CSV file keeps; odd: no ties

ASSUME DigitAssumption == Cube \in Nat \ {0} /\ Digit \in Nat /\ Digit % 2 = 1

Columns == {"N_init", "N_final", "delta_Nstar"}

Ascending(s) == SortSeq(s, <)
Given(args, option) == option \in DOMAIN args
AnyGiven(args, options) == \E o \in options : Given(args, o)

Values == {"delta_nstar_values", "delta_N_values", "N_final_values"}

FixedK(args) == Given(args, "K")
Cartesian(args) == ~FixedK(args) /\ AnyGiven(args, Values)

delta_nstar_min(args) ==
    IF Given(args, "delta_nstar_min") THEN args.delta_nstar_min ELSE args.delta_nstar_low

(***************************************************************************)
(* parser.error: nothing is generated.  --K is compared with the explicit  *)
(* values only where it is absent, so that together with it they are       *)
(* ignored and not refused.                                                *)
(***************************************************************************)
BadInterval(low, high) == low >= high

Refused(args) ==
    \/ args.n_points < 1
    \/ Cartesian(args) /\ \E o \in Values : ~Given(args, o)
    \/ /\ ~Cartesian(args)
       /\ \/ BadInterval(args.delta_nstar_low, args.delta_nstar_high)
          \/ BadInterval(args.delta_N_low, args.delta_N_high)
          \/ args.delta_N_low <= 0
    \/ /\ ~Cartesian(args) /\ ~FixedK(args)
       /\ BadInterval(args.N_final_low, args.N_final_high) \/ args.N_final_samples < 1

(***************************************************************************)
(* The sample: n points, or for a Sobol sequence the power of two nearest  *)
(* to n on the logarithmic scale.  Both methods of scipy put one point     *)
(* into each n-th part of each axis.                                       *)
(***************************************************************************)
SampleCount(args) ==
    LET n == args.n_points IN
    IF args.method = "sobol"
      THEN CHOOSE m \in {2 ^ k : k \in 0 .. n} : m * m < 2 * n * n /\ n * n < 2 * m * m
      ELSE n

UnitCube(n, axes) ==
    {s \in [1 .. n -> [axes -> 0 .. Cube - 1]] :
        \A d \in axes : {(s[i][d] * n) \div Cube : i \in 1 .. n} = 0 .. n - 1}

sample_unit_cube(args) ==
    IF Cartesian(args) THEN {<<>>}
    ELSE UnitCube(SampleCount(args),
                  IF FixedK(args) THEN {"dns", "dN"} ELSE {"dns", "dN", "nf"})

Along(low, high, u) == low + (u * (high - low)) \div Cube

Sampled(args, u) ==
    [dns |-> Along(args.delta_nstar_low, args.delta_nstar_high, u.dns),
     dN  |-> Along(args.delta_N_low, args.delta_N_high, u.dN)]

Row(nInit, nFinal, dns) == [N_init |-> nInit, N_final |-> nFinal, delta_Nstar |-> dns]

\* The physical row of one sample, kept or not
build_grid(args, samples) ==
    LET Physical(u) == LET p == Sampled(args, u)
                           nf == Along(args.N_final_low, args.N_final_high, u.nf)
                       IN  Row(nf + p.dN, nf, p.dns)
        Kept(r) == r.delta_Nstar >= delta_nstar_min(args) /\ r.N_init <= args.N_init_max
    IN  SelectSeq([i \in DOMAIN samples |-> Physical(samples[i])], Kept)

\* Slip: the perturbation is left out of what is kept constant
build_grid_fixed_K_short(args, samples) ==
    LET Physical(u) == LET p == Sampled(args, u)
                           nf == args.K - p.dN
                       IN  Row(nf + p.dN, nf, p.dns)
        Kept(r) == r.delta_Nstar >= delta_nstar_min(args) /\ r.N_final >= args.N_final_min
    IN  SelectSeq([i \in DOMAIN samples |-> Physical(samples[i])], Kept)

\* N_final + dN + delta_Nstar = K; --N-init-max does not apply
build_grid_fixed_K(args, samples) ==
    LET Physical(u) == LET p == Sampled(args, u)
                           nf == args.K - p.dN - p.dns
                       IN  Row(nf + p.dN, nf, p.dns)
        Kept(r) == r.delta_Nstar >= delta_nstar_min(args) /\ r.N_final >= args.N_final_min
    IN  SelectSeq([i \in DOMAIN samples |-> Physical(samples[i])], Kept)

\* itertools.product, the last axis varying fastest
Product3(a, b, c) ==
    FlattenSeq([i \in DOMAIN a |->
        FlattenSeq([j \in DOMAIN b |-> [k \in DOMAIN c |-> <<a[i], b[j], c[k]>>]])])

Product2(a, b) == FlattenSeq([i \in DOMAIN a |-> [j \in DOMAIN b |-> <<a[i], b[j]>>]])

cartesian_grid(args) ==
    LET Kept(r) == r.N_init <= args.N_init_max
        dns == SelectSeq(Ascending(args.delta_nstar_values), LAMBDA x : x >= delta_nstar_min(args))
        all == Product3(dns, Ascending(args.delta_N_values), Ascending(args.N_final_values))
    IN  SelectSeq([i \in DOMAIN all |-> Row(all[i][3] + all[i][2], all[i][3], all[i][1])], Kept)

\* ValueError from inside the loops: a width that is not positive is only met
\* under a perturbation that was not dropped
CartesianRaises(args) ==
    /\ \E i \in DOMAIN args.delta_nstar_values :
          args.delta_nstar_values[i] >= delta_nstar_min(args)
    /\ \E j \in DOMAIN args.delta_N_values : args.delta_N_values[j] <= 0

GridRows(args, samples) ==
    CASE FixedK(args)    -> build_grid_fixed_K(args, samples)
      [] Cartesian(args) -> cartesian_grid(args)
      [] OTHER           -> build_grid(args, samples)

(***************************************************************************)
(* The file.                                                               *)
(***************************************************************************)
Formatted(x) == ((x + Digit \div 2) \div Digit) * Digit

write_csv(rows) ==
    [columns |-> Columns, numeric |-> TRUE,
     rows |-> [i \in DOMAIN rows |-> [c \in Columns |-> Formatted(rows[i][c])]]]

\* What the program ends with: an error, nothing to write, or the file
Generated(args, samples) ==
    CASE Refused(args) -> [verdict |-> "refused"]
      [] ~Refused(args) /\ Cartesian(args) /\ CartesianRaises(args) -> [verdict |-> "raised"]
      [] OTHER ->
           LET rows == GridRows(args, samples) IN
           IF args.dry_run THEN [verdict |-> "dry run"]
           ELSE IF rows = <<>> THEN [verdict |-> "all dropped"]
           ELSE [verdict |-> "written", file |-> write_csv(rows)]

\* _read_csv: a missing column, a cell that is no number or no row at all is a ValueError
ReadFails(file) == ~(Columns \subseteq file.columns) \/ ~file.numeric \/ file.rows = <<>>

Column(rows, c) == [i \in DOMAIN rows |-> rows[i][c]]

(***************************************************************************)
(* Looking numbers up, in order, each a call of the factory's build().  A  *)
(* registration is the table afterwards, the serials in the order asked,   *)
(* and whether one of the calls raised.                                    *)
(***************************************************************************)
LookUp(cls, reg, asked) ==
    LET hits == Hits(reg.table, cls, asked)
        new == Cardinality(reg.table) + 1
    IN  IF reg.raised \/ Refuses(reg.table, cls, asked) THEN [reg EXCEPT !.raised = TRUE]
        ELSE IF hits = {} THEN
               [reg EXCEPT !.table = @ \cup {[serial |-> new, key |-> asked]},
                           !.serials = Append(@, new)]
        ELSE [reg EXCEPT !.serials = Append(@, (CHOOSE r \in hits : TRUE).serial)]

object_get(cls, table, asked) ==
    FoldLeft(LAMBDA reg, x : LookUp(cls, reg, x),
            [table |-> table, serials |-> <<>>, raised |-> FALSE], asked)

\* build_grid_from_csv: column by column
CsvTokens(cls, table, rows) == object_get(cls, table, Column(rows, cls))

\* _build_grid of pipeline_setup: explicit values, or equally spaced ones
axis_grid(axis) ==
    IF Given(axis, "values") THEN Ascending(axis.values)
    ELSE [i \in 1 .. axis.samples |->
            IF axis.samples = 1 THEN axis.low
            ELSE axis.low + ((i - 1) * (axis.high - axis.low)) \div (axis.samples - 1)]

\* Grid items: zip stops at the shortest list; an axis grid is a product
build_grid_from_csv(nInit, nFinal, dns) ==
    [i \in 1 .. (CHOOSE m \in {Len(nInit), Len(nFinal), Len(dns)} :
                    m <= Len(nInit) /\ m <= Len(nFinal) /\ m <= Len(dns)) |->
        Row(nInit[i], nFinal[i], dns[i])]

build_cartesian_grid(nInit, nFinal, dns) ==
    LET all == Product3(nInit, nFinal, dns)
    IN  [i \in DOMAIN all |-> Row(all[i][1], all[i][2], all[i][3])]

\* round(): to even at the half
RoundHalfEven(a, b) ==
    LET q == a \div b
        r == 2 * (a % b)
    IN  IF r > b \/ (r = b /\ q % 2 = 1) THEN q + 1 ELSE q

\* Up to k elements, evenly spaced by index
evenly_sample(seq, k) ==
    LET n == Len(seq) IN
    IF n <= k THEN seq
    ELSE LET idx == {IF k = 1 THEN 0 ELSE RoundHalfEven(i * (n - 1), k - 1) : i \in 0 .. k - 1}
             sorted == SetToSortSeq(idx, <)
         IN  [j \in DOMAIN sorted |-> seq[sorted[j] + 1]]
=============================================================================
