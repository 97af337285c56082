-------------------------- MODULE MCDesignCampaign --------------------------
\* Designs of two samples, one of each kind and one of each way to end without a file;
\* files written by hand; an axis grid of two points on one shard
EXTENDS DesignCampaign

Common == [n_points |-> 2, method |-> "lhc", dry_run |-> FALSE, N_init_max |-> 90]
Intervals == [delta_nstar_low |-> 12, delta_nstar_high |-> 36, delta_N_low |-> 24,
              delta_N_high |-> 48, N_final_low |-> 60, N_final_high |-> 84, N_final_samples |-> 2]
Lists(dns) == [delta_nstar_values |-> dns, delta_N_values |-> <<24>>, N_final_values |-> <<84, 60>>]

Standard == Common @@ Intervals
\* N_init is 108 or 104, which one look-up does not tell apart
ConstantK == [Standard EXCEPT !.delta_nstar_high = 20, !.delta_N_high = 36]
                @@ [K |-> 120, N_final_min |-> 75]
MCDesigns == {
    Standard,
    ConstantK,
    [Standard EXCEPT !.N_init_max = 120] @@ Lists(<<13, 6>>),       \* 6 is dropped
    [ConstantK EXCEPT !.n_points = 1] @@ Lists(<<13>>),             \* the values are ignored
    [Standard EXCEPT !.method = "sobol", !.N_init_max = 50],        \* all dropped
    [Standard EXCEPT !.dry_run = TRUE],
    [Standard EXCEPT !.delta_N_low = 0],                            \* refused
    Standard @@ [Lists(<<13>>) EXCEPT !.delta_N_values = <<-1>>]}   \* raises

Written2(a, b) == [columns |-> Columns \cup {"note"}, numeric |-> TRUE, rows |-> <<a, b>>]
MCHandFiles == {
    Written2(Row(90, 60, 12), Row(90, 60, 12)),
    \* 103 is told apart from 110 but not 110 from 103
    Written2(Row(110, 60, 12), Row(103, 60, 24)),
    \* 96 may be 91 as well as 102
    [Written2(Row(91, 60, 12), Row(102, 60, 12)) EXCEPT !.rows = Append(@, Row(96, 60, 12))],
    [columns |-> {"N_init", "N_final"}, numeric |-> TRUE, rows |-> <<>>],
    [columns |-> Columns, numeric |-> FALSE, rows |-> <<>>],
    [columns |-> Columns, numeric |-> TRUE, rows |-> <<>>]}

MCAxis == [c \in Columns |->
    CASE c = "N_init"      -> [values |-> <<150>>]
      [] c = "N_final"     -> [low |-> 40, high |-> 60, samples |-> 2]
      [] c = "delta_Nstar" -> [low |-> 12, high |-> 30, samples |-> 1]]

MCCombos == <<"small", "large">>
MCCompares == {{}, {SRI}, {FI, SRI}}

\* round(log2(n)), and what is taken evenly is in order, with its ends and not too few
ASSUME \A n \in 1 .. 16 :
    SampleCount([method |-> "sobol", n_points |-> n]) =
        CASE n = 1 -> 1 [] n = 2 -> 2 [] n \in 3 .. 5 -> 4 [] n \in 6 .. 11 -> 8 [] n \in 12 .. 16 -> 16
ASSUME \A n \in 0 .. 12, k \in 1 .. 6 :
    LET s == evenly_sample([i \in 1 .. n |-> i], k) IN
    /\ Len(s) = IF n <= k THEN n ELSE k
    /\ k > 1 /\ n > 1 => s[1] = 1 /\ s[Len(s)] = n
    /\ \A i \in 2 .. Len(s) : s[i - 1] < s[i]
=============================================================================
