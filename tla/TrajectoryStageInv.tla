------------------------- MODULE TrajectoryStageInv -------------------------
(***************************************************************************)
(* What is true of TrajectoryStage at all times, in the parts the proofs   *)
(* put together.                                                           *)
(***************************************************************************)
EXTENDS TrajectoryStage

IT == "InflatonTrajectory"

-----------------------------------------------------------------------------
(***************************************************************************)
(* Shapes.                                                                 *)
(***************************************************************************)
WorkStages == {"lookup", "compute", "mint", "persist", "validate", "done"}

\* A trajectory that did not fail is written with all the values it expects
TrajectoryRow(r) ==
    /\ r = [serial |-> r.serial, key |-> r.key, nend |-> r.nend, values |-> r.values,
            expected |-> r.expected, validated |-> r.validated]
    /\ r.nend = NULL \/ (r.values # <<>> /\ Len(r.values) = r.expected)

RowsTyped ==
    /\ rows = [s \in Shards |-> [c \in Classes |-> rows[s][c]]]
    /\ \A s \in Shards, c \in Classes : \A r \in rows[s][c] :
          r.serial \in Nat /\ (c = IT => TrajectoryRow(r))

WriteTyped(w) ==
    LET f == flight[w]
    IN  /\ f = [op |-> f.op, cls |-> f.cls, row |-> f.row, left |-> f.left]
        /\ f.op \in {"insert", "validate"} /\ f.cls \in Classes /\ f.left \subseteq Shards
        /\ f.row.serial \in Nat /\ f.row.serial < next[f.cls]
        /\ w = "driver" <=> f.cls # IT
        /\ w = "driver" => f.op = "insert"
        /\ f.cls = IT /\ f.op = "insert" => TrajectoryRow(f.row)

FlightsTyped ==
    /\ flight = [w \in Writers |-> flight[w]]
    /\ \A w \in Writers : InFlight(w) => WriteTyped(w)

WorkTyped ==
    /\ work = [m \in Models |-> work[m]]
    /\ \A m \in Models :
          /\ work[m] = [stage |-> work[m].stage, verdict |-> work[m].verdict,
                        minted |-> work[m].minted, serial |-> work[m].serial]
          /\ work[m].stage \in WorkStages /\ work[m].minted \in Seq(Nat)
          /\ work[m].stage = "validate" => /\ work[m].serial \in Nat
                                           /\ work[m].serial < next[IT]

Typed ==
    /\ next \in [Classes -> Nat] /\ got \in Seq(Nat)
    /\ FlightsTyped /\ WorkTyped /\ RowsTyped

-----------------------------------------------------------------------------
(***************************************************************************)
(* Who is writing.                                                         *)
(***************************************************************************)
\* The driver looks a number up for as long as something is wanted
DriverWrites ==
    InFlight("driver") /\ IsOpen =>
        \/ phase = "startup" /\ Len(got) < Len(Startup)
        \/ phase = "stage1" /\ Minting # {}

\* A model writes its row, then the row's flag
ModelFlights ==
    \A m \in Models : InFlight(m) =>
        IF flight[m].op = "insert" THEN work[m].stage = "persist"
        ELSE work[m].stage = "validate" /\ flight[m].row.serial = work[m].serial

\* and the branches start when all models are done
ModelWrites ==
    /\ phase = "handed" => \A m \in Models : work[m].stage = "done"
    /\ ModelFlights

Holds(m, x) ==
    \/ InFlight(m) /\ flight[m].row.serial = x
    \/ work[m].stage = "validate" /\ work[m].serial = x

SerialsApart == \A m, n \in Models : \A x \in Nat : Holds(m, x) /\ Holds(n, x) => m = n

-----------------------------------------------------------------------------
(***************************************************************************)
(* What a table is going to hold once the writes in progress are through:  *)
(* the same on every shard.                                                *)
(***************************************************************************)
Flag(r) == [r EXCEPT !.validated = TRUE]

Inserts(w, s, c) == InFlight(w) /\ flight[w].op = "insert" /\ flight[w].cls = c /\ s \in flight[w].left

Validates(w, s, x) == /\ InFlight(w) /\ flight[w].op = "validate" /\ s \in flight[w].left
                      /\ flight[w].row.serial = x

Finish(s, c, r) ==
    IF c = IT /\ \E w \in Writers : Validates(w, s, r.serial)
      THEN Flag(r) ELSE r

Settled(s, c) ==
    {Finish(s, c, r) : r \in rows[s][c]}
        \cup {flight[w].row : w \in {v \in Writers : Inserts(v, s, c)}}

SettledAgree == \A s, t \in Shards, c \in Classes : Settled(s, c) = Settled(t, c)

-----------------------------------------------------------------------------
(***************************************************************************)
(* What the models and the results rely on.                                *)
(***************************************************************************)
Shown(s, x, v) == \E r \in Trajectories(s) : r.serial = x /\ r.nend = v

Valid(s, x, v) == \E r \in Trajectories(s) : r.serial = x /\ r.nend = v /\ r.validated

ModelShown(m) ==
    /\ work[m].stage = "persist" /\ work[m].verdict # NULL =>
          work[m].minted # <<>> /\ Len(work[m].minted) = Len(SampleGrid(work[m].verdict))
    /\ InFlight(m) /\ flight[m].op = "insert" =>
          /\ flight[m].row.nend = work[m].verdict
          /\ \A s \in Shards \ flight[m].left :
                Shown(s, flight[m].row.serial, work[m].verdict)
    /\ work[m].stage = "validate" =>
          \A s \in Shards : Shown(s, work[m].serial, work[m].verdict)
    /\ InFlight(m) /\ flight[m].op = "validate" =>
          \A s \in Shards \ flight[m].left : Valid(s, work[m].serial, work[m].verdict)
    /\ work[m].stage = "done" =>
          \A s \in Shards : Valid(s, work[m].serial, work[m].verdict)

WorkShown == \A m \in Models : ModelShown(m)

ResultsShown ==
    \A x \in results : \A s \in Shards :
        \E r \in Trajectories(s) : r.serial = x /\ r.validated /\ r.nend # NULL

Inv ==
    /\ Typed /\ DriverWrites /\ ModelWrites /\ SerialsApart
    /\ SettledAgree /\ WorkShown /\ ResultsShown

-----------------------------------------------------------------------------
(***************************************************************************)
(* The tokens of a class: the classes whose look-up tells numbers apart.   *)
(***************************************************************************)
All(c) == UNION {rows[s][c] : s \in Shards}

Torn(r) == \E q \in All(IT) : q.serial = r.serial /\ q # r

Tokens == Classes \ ({IT} \cup FirstRowOf)

Measured == Rounded \cup {"efold_value"}

\* One number, as two runs may have it
Same(c, x, y) == IF c \in Measured THEN Abs(x - y) <= Spread ELSE x = y

KeysOf(c) == IF c \in DOMAIN MadeOf THEN Nat ELSE Asked(c)

\* A write that was begun is on the shards it has behind it
Landed ==
    \A w \in Writers : InFlight(w) /\ flight[w].op = "insert" =>
        /\ flight[w].left # Shards
        /\ \A s \in Shards \ flight[w].left : flight[w].row \in rows[s][flight[w].cls]

\* and is what was asked for
DriverAsks ==
    InFlight("driver") /\ IsOpen =>
        /\ Wanted # NULL /\ flight["driver"].cls = Wanted.cls
        /\ flight["driver"].row.key = Written(Wanted.cls, Wanted.key)

\* The end of inflation of a model whose samples are turned into tokens
Gridded ==
    \A m \in Models :
        /\ work[m].stage \in {"lookup", "compute"} => work[m].minted = <<>>
        /\ work[m].stage = "mint" =>
              /\ work[m].verdict # NULL
              /\ Len(work[m].minted) < Len(SampleGrid(work[m].verdict))
        /\ work[m].stage \in {"mint", "persist"} /\ work[m].verdict # NULL =>
              work[m].verdict \in Floats(NEnd[m])
        /\ work[m].stage = "persist" /\ work[m].verdict = NULL => work[m].minted = <<>>

Started ==
    /\ shift \in Shifts
    /\ phase = "startup" => \A m \in Models : work[m].stage = "lookup"
    /\ Len(got) <= Len(Startup)
    /\ phase \in {"stage1", "handed", "finished"} => Len(got) = Len(Startup)

TokensTyped ==
    \A c \in Tokens : \A r \in All(c) : r.serial < next[c] /\ r.key \in KeysOf(c)

TokensUnique ==
    \A c \in Tokens : \A q, r \in All(c) :
        q.serial = r.serial \/ Same(c, q.key, r.key) => q = r

TokenInv == Landed /\ DriverAsks /\ Gridded /\ Started /\ TokensTyped /\ TokensUnique

-----------------------------------------------------------------------------
(***************************************************************************)
(* What is cited by serial.                                                *)
(***************************************************************************)
\* On every shard the serial x is the token of the number y
Cites(c, x, y) == \A s \in Shards : \E q \in rows[s][c] : q.serial = x /\ Same(c, q.key, y)

\* The serial of a parameter is its token; that of a potential is the potential's
\* of the mass that was registered
Fits(i) ==
    IF Startup[i].cls \in DOMAIN MadeOf
    THEN Cites(Startup[i].cls, got[i], got[Startup[i].key])
    ELSE \E y \in Numbers(i) : Cites(Startup[i].cls, got[i], y)

GotFits == \A i \in 1 .. Len(got) : Startup[i].cls \in Tokens => Fits(i)

\* The samples of a grid, in their order
Samples(values, nend) ==
    \A k \in 1 .. Len(values) : /\ k \in DOMAIN SampleGrid(nend)
                                /\ Cites("efold_value", values[k], SampleGrid(nend)[k])

MintedFits ==
    \A m \in Models : work[m].stage \in {"mint", "persist"} => Samples(work[m].minted, work[m].verdict)

Whole(r) ==
    /\ r.values \in Seq(Nat)
    /\ r.nend # NULL => /\ \E m \in Models : r.nend \in Floats(NEnd[m])
                        /\ Len(r.values) = Len(SampleGrid(r.nend))
                        /\ Samples(r.values, r.nend)

TrajectoriesWhole == \A r \in All(IT) : Whole(r)

CiteInv == GotFits /\ MintedFits /\ TrajectoriesWhole

-----------------------------------------------------------------------------
(***************************************************************************)
(* Which trajectory is whose.                                              *)
(***************************************************************************)
\* Two rows of one serial differ in the flag at most, and not on one shard
TrajectoriesApart ==
    /\ \A r \in All(IT) : r.serial < next[IT] /\ r.validated \in BOOLEAN
    /\ \A q, r \in All(IT) : q.serial = r.serial => Flag(q) = Flag(r)
    /\ \A s \in Shards : \A q, r \in Trajectories(s) : q.serial = r.serial => q = r

\* A model has one validated trajectory
OneValidated ==
    \A q, r \in All(IT) : q.validated /\ r.validated /\ q.key = r.key => q.serial = r.serial

Missing(m) == \A r \in All(IT) : r.validated => r.key # TrajectoryKey(m)

ModelKeyed(m) ==
    /\ InFlight(m) /\ flight[m].op = "insert" =>
          /\ flight[m].row.key = TrajectoryKey(m)
          /\ \A r \in All(IT) : r.serial = flight[m].row.serial => r = flight[m].row
    /\ work[m].stage \in {"compute", "mint", "persist"} => Missing(m)
    /\ work[m].stage = "validate" =>
          \A r \in All(IT) : r.validated /\ r.key = TrajectoryKey(m) => r.serial = work[m].serial
    /\ work[m].stage \in {"validate", "done"} =>
          \A r \in All(IT) : r.serial = work[m].serial => r.key = TrajectoryKey(m)
    /\ work[m].stage # "lookup" => Len(got) = Len(Startup)

WorkKeyed == \A m \in Models : ModelKeyed(m)

KeyInv == TrajectoriesApart /\ OneValidated /\ WorkKeyed /\ RaisesOnFailure
=============================================================================
