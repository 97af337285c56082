--------------------------- MODULE ComputeTargetInv ---------------------------
(***************************************************************************)
(* Why ComputeTarget is right: what the object at work, the rows and what  *)
(* was handed on satisfy between any two steps.                            *)
(***************************************************************************)
EXTENDS ComputeTarget

FI == "FullInstanton"
SRI == "SlowRollInstanton"
CF == "CompactionFunction"
GCI == "GradientCoupledInstanton"

Working == {"built", "computing", "populated", "stored", "validated"}
Known == {"populated", "stored", "validated"}

(***************************************************************************)
(* The full solve: a field that is handed on is genuine, and one that did  *)
(* not settle has used up the sweeps of the iteration that made it.        *)
(***************************************************************************)
SweepCounts == Seq(1 .. MaxInner)

Sincere(field, iterations) ==
    /\ field.genuine
    /\ ~field.settled => \E i \in DOMAIN iterations : iterations[i] = MaxInner

SolveInv ==
    \/ fs.at \in {"idle", "failed"}
    \/ /\ fs.at = "inner"
       /\ fs = [at |-> "inner", sweeps |-> fs.sweeps, iterations |-> fs.iterations,
                committed |-> fs.committed]
       /\ fs.sweeps \in 0 .. MaxInner - 1 /\ fs.iterations \in SweepCounts
    \/ /\ fs.at = "judge" /\ fs.iterations \in SweepCounts
       /\ fs.ok => Sincere(fs.field, fs.iterations)
    \/ /\ fs.at = "solved" /\ fs.iterations \in SweepCounts
       /\ Sincere(fs.committed, fs.iterations)

(***************************************************************************)
(* An object with its result: what its factory and its readers rely on.    *)
(* done are the kinds that are stored as a success, for good.              *)
(***************************************************************************)
InPlace(values) ==
    /\ values \in Seq([N : Int, at : Int])
    /\ \A i \in DOMAIN values : values[i].N = values[i].at

Earned(diagnostics) ==
    /\ diagnostics.converged /\ diagnostics.genuine
    /\ ~diagnostics.settled => diagnostics.max_picard_iterations = MaxInner

Founded(scalars, done) ==
    /\ ~scalars.full.failure => FI \in done
    /\ ~scalars.slow_roll.failure => SRI \in done

\* A compaction function that has a result has it on one path at least
OnePath(scalars) ==
    /\ scalars.full.failure \in BOOLEAN /\ scalars.slow_roll.failure \in BOOLEAN
    /\ ~(scalars.full.failure /\ scalars.slow_roll.failure)

\* The radii and the masses of a path that did not fail
Follows(p) ==
    ~p.failure =>
        /\ (p.r_max = NULL) <=> (p.M_max = NULL)
        /\ p.M_peak # NULL => p.M_max # NULL /\ p.r_peak <= p.r_max /\ p.M_peak <= p.M_max

BothFollow(scalars) == Follows(scalars.full) /\ Follows(scalars.slow_roll)

Sound(k, obj, done) ==
    /\ obj.failure \in BOOLEAN
    /\ obj.failure => obj.values = <<>> /\ obj.profile = <<>>
    /\ k # GCI => obj.profile = <<>>
    /\ k # CF => InPlace(obj.values)
    /\ k \in {FI, SRI} /\ ~obj.failure => obj.scalars # NULL
    /\ k = FI /\ ~obj.failure => Earned(obj.diagnostics)
    /\ k = CF /\ ~obj.failure =>
          OnePath(obj.scalars) /\ Founded(obj.scalars, done) /\ BothFollow(obj.scalars)
    /\ k = GCI => (obj.diagnostics.seeded => FI \in done)

(***************************************************************************)
(* A row, and what is handed on from it.                                   *)
(***************************************************************************)
RowSound(k, row, done) ==
    /\ k # CF => InPlace(row.values)
    /\ k = FI => (row.scalars # NULL => Earned(row.diagnostics))
    /\ k = CF => Founded(row.scalars, done) /\ BothFollow(row.scalars)
    /\ k = GCI => (row.diagnostics.seeded => FI \in done)

Done == {k \in KindSet : \E row \in rows[k] : row.validated /\ row.scalars # NULL}

TargetSound ==
    /\ target = Object(target, task.full, target.query)
    /\ phase \in Known => Sound(kind, target, Done)

RowsSound == \A k \in KindSet : \A row \in rows[k] : RowSound(k, row, Done)

\* Samples are handed on of solved instantons only
Handed ==
    \A k \in {FI, SRI} : proxies[k] # NULL =>
        InPlace(proxies[k].values) /\ (proxies[k].values # <<>> => k \in Done)

\* A kind has no validated row before its turn, and at its end that of the object
OnTurn ==
    phase \in Working =>
        /\ turn \in 1 .. 4
        /\ \A i \in 1 .. 4 : \A row \in rows[Kinds[i]] :
              row.validated =>
                  \/ i < turn
                  \/ i = turn /\ phase = "validated" /\ row = Validated(kind, target, Stored(kind, target))
        /\ phase = "validated" => Validated(kind, target, Stored(kind, target)) \in rows[kind]

Typed ==
    /\ task \in [point : Tasks, full : BOOLEAN]
    /\ rows = [k \in KindSet |-> rows[k]] /\ proxies = [k \in KindSet |-> proxies[k]]

Inv == Typed /\ SolveInv /\ TargetSound /\ RowsSound /\ Handed /\ OnTurn
(***************************************************************************)
(* The end of the samples.  At a grid point that is Clear the last         *)
(* multiple of the step is N_total, or further from it than rounding.      *)
(***************************************************************************)
Clear(t) ==
    LET last == Multiple(t, N_total(t) \div Step)
    IN  last = N_total(t) \/ N_total(t) - last > 1

Reaches(values) == values # <<>> => Last(values).N >= N_total(task.point)

EndInv ==
    /\ phase \in Known /\ kind # CF => Reaches(target.values)
    /\ EndpointKept
=============================================================================
