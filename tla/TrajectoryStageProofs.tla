----------------------- MODULE TrajectoryStageProofs -----------------------
(***************************************************************************)
(* Proofs about TrajectoryStage for any number of shards, models, starts   *)
(* and kills, for every list of parameters and whatever the numbers: the   *)
(* copies of the replicated tables agree, results name trajectories that   *)
(* stand, a number keeps one token, trajectories load whole, and only a    *)
(* trajectory that failed makes a run raise.                               *)
(***************************************************************************)
EXTENDS TrajectoryStageInv, SequenceTheorems, FiniteSetTheorems, TLAPS

-----------------------------------------------------------------------------
LEMMA Names0 ==
    /\ IT \in Classes /\ "efold_value" \in Classes /\ IT # "efold_value"
    /\ "driver" \in Writers /\ Models \subseteq Writers /\ "driver" \notin Models
    /\ \A w \in Writers : w # "driver" => w \in Models
BY RunParameters DEF IT, Classes, Writers

(***************************************************************************)
(* The flag of a trajectory.                                               *)
(***************************************************************************)
Marked(table, x) == {IF r.serial = x THEN Flag(r) ELSE r : r \in table}

LEMMA FlagFacts ==
    ASSUME NEW r, TrajectoryRow(r)
    PROVE  /\ TrajectoryRow(Flag(r)) /\ Flag(r).validated
           /\ Flag(r).serial = r.serial /\ Flag(r).nend = r.nend
           /\ Flag(r).values = r.values
           /\ Flag(Flag(r)) = Flag(r)
<1>1. \A a, k, n, v, e, f, g :
         [[serial |-> a, key |-> k, nend |-> n, values |-> v, expected |-> e, validated |-> f]
             EXCEPT !.validated = g]
            = [serial |-> a, key |-> k, nend |-> n, values |-> v, expected |-> e, validated |-> g]
  OBVIOUS
<1>2. \A g : [r EXCEPT !.validated = g]
                = [serial |-> r.serial, key |-> r.key, nend |-> r.nend, values |-> r.values,
                   expected |-> r.expected, validated |-> g]
  BY <1>1 DEF TrajectoryRow
<1>3. Flag(r) = [serial |-> r.serial, key |-> r.key, nend |-> r.nend, values |-> r.values,
                 expected |-> r.expected, validated |-> TRUE]
  BY <1>2 DEF Flag
<1>4. Flag(Flag(r)) = Flag(r)
  <2>1. \A g : [Flag(r) EXCEPT !.validated = g]
                  = [serial |-> r.serial, key |-> r.key, nend |-> r.nend, values |-> r.values,
                     expected |-> r.expected, validated |-> g]
    BY <1>1, <1>3
  <2>2. [Flag(r) EXCEPT !.validated = TRUE] = Flag(r)
    BY <2>1, <1>3
  <2> QED BY <2>2, Zenon DEF Flag
<1> QED BY <1>3, <1>4 DEF TrajectoryRow

\* All value rows were written with the row: validating sets the flag
LEMMA ValidatedIsMarked ==
    ASSUME NEW table, NEW x, \A r \in table : TrajectoryRow(r)
    PROVE  Validated(table, x) = Marked(table, x)
<1>1. ASSUME NEW r \in table
      PROVE  [r EXCEPT !.validated = (r.nend = NULL \/ (r.values # <<>> /\ Len(r.values) = r.expected))]
                = Flag(r)
  <2>1. (r.nend = NULL \/ (r.values # <<>> /\ Len(r.values) = r.expected)) = TRUE
    BY DEF TrajectoryRow
  <2> QED BY <2>1 DEF Flag
<1> QED BY <1>1 DEF Validated, Marked

\* Rows are marked where they were; they keep their content, and the flag if they have it
LEMMA MarkedFacts ==
    ASSUME NEW table, NEW x, \A r \in table : TrajectoryRow(r)
    PROVE  /\ \A q \in Marked(table, x) : TrajectoryRow(q) /\ \E r \in table : q.serial = r.serial
           /\ \A r \in table : \E q \in Marked(table, x) :
                 /\ q.serial = r.serial /\ q.nend = r.nend
                 /\ r.validated \/ r.serial = x => q.validated
<1>1. \A r \in table : LET q == IF r.serial = x THEN Flag(r) ELSE r IN
         /\ TrajectoryRow(q) /\ q.serial = r.serial /\ q.nend = r.nend
         /\ r.validated \/ r.serial = x => q.validated
  BY FlagFacts
<1>2. \A q : q \in Marked(table, x) <=> \E r \in table : q = IF r.serial = x THEN Flag(r) ELSE r
  BY DEF Marked
<1> QED BY <1>1, <1>2

-----------------------------------------------------------------------------
(***************************************************************************)
(* What is wanted, and what a look-up delivers.                            *)
(***************************************************************************)
LEMMA WantedFacts ==
    ASSUME Typed, Wanted # NULL
    PROVE  /\ Wanted.cls \in Classes /\ Wanted.cls # IT
           /\ \/ phase = "startup" /\ Len(got) < Len(Startup)
              \/ phase = "stage1" /\ Minting # {}
<1>1. CASE phase = "startup" /\ Len(got) < Len(Startup)
  <2> DEFINE i == Len(got) + 1
  <2>1. i \in DOMAIN Startup
    <3>1. Len(got) \in Nat
      BY DEF Typed
    <3> QED BY <1>1, <3>1, RunParameters
  <2>2. /\ DOMAIN Startup[i] = {"cls", "key"} /\ Startup[i].cls # IT /\ Startup[i].cls \in Classes
    BY <2>1, RunParameters DEF IT, Classes
  <2>3. \A v : [Startup[i] EXCEPT !.key = v].cls = Startup[i].cls
    BY <2>2
  <2>4. Wanted = Parameter(i)
    BY <1>1 DEF Wanted
  <2> HIDE DEF i
  <2>5. Parameter(i).cls = Startup[i].cls
    BY <2>3 DEF Parameter
  <2> QED BY <1>1, <2>2, <2>4, <2>5
<1>2. CASE ~(phase = "startup" /\ Len(got) < Len(Startup)) /\ phase = "stage1" /\ Minting # {}
  BY <1>2, Names0 DEF Wanted
<1> QED BY <1>1, <1>2 DEF Wanted

\* What a model has after a token was delivered
Delivered(m) ==
    /\ work'[m].verdict = work[m].verdict /\ work'[m].serial = work[m].serial
    /\ \/ work'[m] = work[m]
       \/ work[m].stage = "mint" /\ work'[m].stage = "mint"
       \/ /\ work[m].stage = "mint" /\ work'[m].stage = "persist"
          /\ work'[m].minted # <<>>
          /\ Len(work'[m].minted) = Len(SampleGrid(work[m].verdict))

LEMMA DeliverFacts ==
    ASSUME Typed, NEW x \in Nat, Deliver(x), phase = "startup" \/ Minting # {}, next' \in [Classes -> Nat],
           next'[IT] = next[IT]
    PROVE  /\ got' \in Seq(Nat) /\ WorkTyped'
           /\ \A m \in Models : Delivered(m)
           /\ phase # "startup" => got' = got
<1>1. CASE phase = "startup"
  <2>0. got \in Seq(Nat) /\ got' = Append(got, x) /\ work' = work
    BY <1>1 DEF Deliver, Typed
  <2>1. got' \in Seq(Nat) /\ work' = work
    BY <2>0, AppendProperties
  <2>2. WorkTyped'
    BY <2>1 DEF Typed, WorkTyped
  <2> QED BY <1>1, <2>1, <2>2 DEF Delivered
<1>2. CASE phase # "startup"
  <2> DEFINE m == CHOOSE y \in Minting : TRUE
             minted == Append(work[m].minted, x)
             stage == IF Len(minted) = Len(SampleGrid(work[m].verdict)) THEN "persist" ELSE "mint"
  <2>1. m \in Models /\ work[m].stage = "mint"
    BY <1>2 DEF Minting
  <2>2. /\ work' = [work EXCEPT ![m].minted = minted, ![m].stage = stage]
        /\ got' = got
    BY <1>2 DEF Deliver
  <2>3. minted \in Seq(Nat) /\ minted # <<>>
    <3>1. work[m].minted \in Seq(Nat)
      BY <2>1 DEF Typed, WorkTyped
    <3>2. \A q \in Seq(Nat) : Append(q, x) \in Seq(Nat) /\ Append(q, x) # <<>>
      BY AppendProperties
    <3> QED BY <3>1, <3>2
  <2> HIDE DEF m, minted
  <2>4. /\ work = [n \in Models |-> work[n]]
        /\ work[m] = [stage |-> work[m].stage, verdict |-> work[m].verdict,
                      minted |-> work[m].minted, serial |-> work[m].serial]
    BY <2>1 DEF Typed, WorkTyped
  <2>5. /\ work' = [n \in Models |-> work'[n]]
        /\ work'[m] = [stage |-> stage, verdict |-> work[m].verdict,
                       minted |-> minted, serial |-> work[m].serial]
        /\ \A n \in Models : n # m => work'[n] = work[n]
    BY <2>1, <2>2, <2>4
  <2>6. WorkTyped'
    <3>1. stage \in WorkStages /\ stage # "validate"
      BY DEF WorkStages
    <3> HIDE DEF stage
    <3>2. ASSUME NEW n \in Models
          PROVE  /\ work'[n] = [stage |-> work'[n].stage, verdict |-> work'[n].verdict,
                                minted |-> work'[n].minted, serial |-> work'[n].serial]
                 /\ work'[n].stage \in WorkStages /\ work'[n].minted \in Seq(Nat)
                 /\ work'[n].stage = "validate" => /\ work'[n].serial \in Nat
                                                   /\ work'[n].serial < next'[IT]
      <4>1. CASE n = m
        BY <4>1, <2>3, <2>5, <3>1
      <4>2. CASE n # m
        <5>1. work'[n] = work[n]
          BY <4>2, <2>5
        <5> QED BY <5>1 DEF Typed, WorkTyped
      <4> QED BY <4>1, <4>2
    <3> QED BY <2>5, <3>2 DEF WorkTyped
  <2>7. \A n \in Models : Delivered(n)
    BY <2>1, <2>3, <2>5 DEF Delivered
  <2> QED BY <2>2, <2>6, <2>7 DEF Typed
<1> QED BY <1>1, <1>2

-----------------------------------------------------------------------------
(***************************************************************************)
(* One table of one shard is written.                                      *)
(***************************************************************************)
RowsShape == rows = [s \in Shards |-> [c \in Classes |-> rows[s][c]]]

TableWritten(s, c, V) == rows' = [rows EXCEPT ![s][c] = V]

LEMMA OneTable ==
    ASSUME RowsShape, NEW s \in Shards, NEW c \in Classes, NEW V,
           TableWritten(s, c, V)
    PROVE  /\ RowsShape' /\ rows'[s][c] = V
           /\ \A t \in Shards, d \in Classes : t # s \/ d # c => rows'[t][d] = rows[t][d]
<1>1. DOMAIN rows = Shards /\ \A t \in Shards : rows[t] = [d \in Classes |-> rows[t][d]]
  BY DEF RowsShape
<1>2. rows' = [t \in Shards |-> IF t = s THEN [rows[s] EXCEPT ![c] = V] ELSE rows[t]]
  BY <1>1 DEF TableWritten
<1>3. [rows[s] EXCEPT ![c] = V] = [d \in Classes |-> IF d = c THEN V ELSE rows[s][d]]
  BY <1>1
<1>4. rows' = [t \in Shards |-> [d \in Classes |->
                  IF t = s /\ d = c THEN V ELSE rows[t][d]]]
  BY <1>1, <1>2, <1>3
<1>5. \A t \in Shards, d \in Classes :
         rows'[t][d] = IF t = s /\ d = c THEN V ELSE rows[t][d]
  BY <1>4
<1>6. rows' = [t \in Shards |-> [d \in Classes |-> rows'[t][d]]]
  BY <1>4, <1>5
<1> QED BY <1>5, <1>6 DEF RowsShape

LEMMA OneInsert ==
    ASSUME RowsShape, NEW s \in Shards, NEW c \in Classes, NEW row, Insert(s, c, row)
    PROVE  /\ RowsShape' /\ rows'[s][c] = rows[s][c] \cup {row}
           /\ \A t \in Shards, d \in Classes : t # s \/ d # c => rows'[t][d] = rows[t][d]
<1>1. TableWritten(s, c, rows[s][c] \cup {row})
  BY DEF RowsShape, Insert, TableWritten
<1> QED BY <1>1, OneTable

\* The table of trajectories only gains rows, and its rows only gain the flag
Grows ==
    \A s \in Shards : \A r \in rows[s][IT] : \E q \in rows'[s][IT] :
        q.serial = r.serial /\ q.nend = r.nend /\ (r.validated => q.validated)

LEMMA GrowsFacts ==
    ASSUME Grows
    PROVE  /\ \A s \in Shards : \A x, v : Shown(s, x, v) => Shown(s, x, v)'
           /\ \A s \in Shards : \A x, v : Valid(s, x, v) => Valid(s, x, v)'
           /\ ResultsShown /\ results' = results => ResultsShown'
BY DEF Grows, Shown, Valid, ResultsShown, Trajectories, IT

LEMMA OthersShown ==
    ASSUME Grows, NEW m \in Models, ModelShown(m),
           UNCHANGED <<work[m], flight[m]>>
    PROVE  ModelShown(m)'
BY GrowsFacts DEF ModelShown, InFlight, SampleGrid

-----------------------------------------------------------------------------
(***************************************************************************)
(* The steps that write nothing: look-ups, answers, the ends of phases.    *)
(***************************************************************************)
\* A model moves only while it has nothing to write
Moved(m) ==
    \/ work'[m] = work[m]
    \/ /\ work[m].stage \in {"lookup", "compute", "mint"}
       /\ \/ work'[m].stage \in {"compute", "mint"}
          \/ /\ work'[m].stage = "persist"
             /\ work'[m].verdict # NULL =>
                   /\ work'[m].minted # <<>>
                   /\ Len(work'[m].minted) = Len(SampleGrid(work'[m].verdict))
          \/ /\ work'[m].stage = "done"
             /\ \A s \in Shards : Valid(s, work'[m].serial, work'[m].verdict)

\* The tables of the driver and of the models stay what they were to become
LEMMA QuietFlights ==
    ASSUME Inv, UNCHANGED <<rows, next, flight>>
    PROVE  FlightsTyped' /\ SettledAgree'
<1>1. FlightsTyped'
  BY DEF Inv, Typed, FlightsTyped, WriteTyped, InFlight, TrajectoryRow
<1>2. \A w, s, c, x : /\ Inserts(w, s, c)' = Inserts(w, s, c)
                      /\ Validates(w, s, x)' = Validates(w, s, x)
  BY DEF Inserts, Validates, InFlight
<1>3. \A s, c, r : Finish(s, c, r)' = Finish(s, c, r)
  BY <1>2 DEF Finish
<1>4. \A s, c : Settled(s, c)' = Settled(s, c)
  BY <1>2, <1>3 DEF Settled
<1> QED BY <1>1, <1>4 DEF Inv, SettledAgree

\* A flight is given to one writer
LEMMA OneFlight ==
    ASSUME FlightsTyped, NEW w \in Writers, NEW f, flight' = [flight EXCEPT ![w] = f]
    PROVE  /\ flight' = [v \in Writers |-> flight'[v]] /\ flight'[w] = f
           /\ \A v \in Writers : v # w => flight'[v] = flight[v]
<1>1. DOMAIN flight = Writers
  BY DEF FlightsTyped
<1>2. flight' = [v \in Writers |-> IF v = w THEN f ELSE flight[v]]
  BY <1>1
<1>3. \A v \in Writers : flight'[v] = IF v = w THEN f ELSE flight[v]
  BY <1>2
<1> QED BY <1>2, <1>3

\* A write that has reached every shard leaves no trace when it ends
LEMMA LandedFlights ==
    ASSUME Inv, UNCHANGED <<rows, next>>, NEW w \in Writers, flight[w].left = {},
           flight' = [flight EXCEPT ![w] = NoWrite]
    PROVE  /\ FlightsTyped' /\ SettledAgree' /\ ~InFlight(w)'
           /\ \A v \in Writers : v # w => flight'[v] = flight[v]
<1>1. /\ flight' = [v \in Writers |-> flight'[v]] /\ flight'[w] = NoWrite
      /\ \A v \in Writers : v # w => flight'[v] = flight[v]
  <2>1. FlightsTyped
    BY DEF Inv, Typed
  <2> QED BY <2>1, OneFlight
<1>2. ~InFlight(w)' /\ \A v \in Writers : v # w => InFlight(v)' = InFlight(v)
  BY <1>1 DEF InFlight, NoWrite
<1>3. FlightsTyped'
  <2>1. ASSUME NEW v \in Writers, InFlight(v)'
        PROVE  WriteTyped(v)'
    <3>1. v # w /\ WriteTyped(v) /\ flight'[v] = flight[v]
      BY <1>1, <1>2, <2>1 DEF Inv, Typed, FlightsTyped
    <3> QED BY <3>1 DEF WriteTyped, TrajectoryRow
  <2> QED BY <2>1, <1>1 DEF FlightsTyped
<1>4. \A v \in Writers, s \in Shards : \A c, x :
         /\ Inserts(v, s, c)' = Inserts(v, s, c) /\ (Inserts(v, s, c) => flight'[v].row = flight[v].row)
         /\ Validates(v, s, x)' = Validates(v, s, x)
  <2> SUFFICES ASSUME NEW v \in Writers, NEW s \in Shards, NEW c, NEW x
               PROVE  /\ Inserts(v, s, c)' = Inserts(v, s, c)
                      /\ Inserts(v, s, c) => flight'[v].row = flight[v].row
                      /\ Validates(v, s, x)' = Validates(v, s, x)
    OBVIOUS
  <2>1. CASE v = w
    BY <2>1, <1>2 DEF Inserts, Validates
  <2>2. CASE v # w
    BY <2>2, <1>1, <1>2 DEF Inserts, Validates
  <2> QED BY <2>1, <2>2
<1>5. \A s \in Shards : \A c, r : Finish(s, c, r)' = Finish(s, c, r)
  BY <1>4 DEF Finish
<1>6. ASSUME NEW s \in Shards, NEW c \in Classes
      PROVE  Settled(s, c)' = Settled(s, c)
  <2>1. {Finish(s, c, r)' : r \in rows'[s][c]} = {Finish(s, c, r) : r \in rows[s][c]}
    BY <1>5
  <2>2. {flight'[v].row : v \in {u \in Writers : Inserts(u, s, c)'}}
           = {flight[v].row : v \in {u \in Writers : Inserts(u, s, c)}}
    BY <1>4
  <2> QED BY <2>1, <2>2 DEF Settled
<1> QED BY <1>1, <1>2, <1>3, <1>6 DEF Inv, SettledAgree

LEMMA QuietStep ==
    ASSUME Inv, UNCHANGED <<rows, next>>, FlightsTyped', SettledAgree',
           \A m \in Models : flight'[m] = flight[m],
           got' \in Seq(Nat), WorkTyped', \A m \in Models : Moved(m)
    PROVE  /\ Typed' /\ ModelFlights' /\ SerialsApart' /\ SettledAgree' /\ WorkShown'
           /\ results' = results => ResultsShown'
<1>1. Typed'
  <2>1. RowsTyped'
    BY DEF Inv, Typed, RowsTyped, TrajectoryRow
  <2> QED BY <2>1 DEF Inv, Typed
<1>2. \A m \in Models : work'[m] = work[m] \/ (~InFlight(m) /\ work'[m].stage # "validate")
  <2> SUFFICES ASSUME NEW m \in Models, work'[m] # work[m]
               PROVE  ~InFlight(m) /\ work'[m].stage # "validate"
    OBVIOUS
  <2>1. work[m].stage \in {"lookup", "compute", "mint"} /\ work'[m].stage # "validate"
    BY DEF Moved
  <2> QED BY <2>1 DEF Inv, ModelWrites, ModelFlights
<1>3. ModelFlights'
  BY <1>2 DEF Inv, ModelWrites, ModelFlights, InFlight
<1>4. \A m \in Models : \A x : Holds(m, x)' => Holds(m, x)
  BY <1>2 DEF Holds, InFlight
<1>5. SerialsApart'
  BY <1>4 DEF Inv, SerialsApart
<1>7. /\ \A s \in Shards : \A x, v : Shown(s, x, v) => Shown(s, x, v)'
      /\ \A s \in Shards : \A x, v : Valid(s, x, v) => Valid(s, x, v)'
      /\ results' = results => ResultsShown'
  BY DEF Inv, Shown, Valid, Trajectories, ResultsShown
<1>8. WorkShown'
  <2> SUFFICES ASSUME NEW m \in Models PROVE ModelShown(m)'
    BY DEF WorkShown
  <2>0. SampleGrid(work[m].verdict)' = SampleGrid(work'[m].verdict) /\ flight'[m] = flight[m]
    BY DEF SampleGrid
  <2>1. CASE work'[m] = work[m]
    BY <2>0, <2>1, <1>7 DEF Inv, WorkShown, ModelShown, InFlight
  <2>2. CASE work'[m] # work[m]
    <3>1. ~InFlight(m)' /\ (work[m].stage # "validate")'
      BY <1>2, <2>0, <2>2 DEF InFlight
    <3> QED BY <2>0, <2>2, <3>1, <1>7 DEF Moved, ModelShown
  <2> QED BY <2>1, <2>2
<1> QED BY <1>1, <1>3, <1>5, <1>7, <1>8

-----------------------------------------------------------------------------
(***************************************************************************)
(* A replicated insert begins: Mint and Persist.                           *)
(***************************************************************************)
Begins(w, s, c, row) ==
    /\ ~InFlight(w) /\ row.serial = next[c] /\ Insert(s, c, row)
    /\ next' = [next EXCEPT ![c] = @ + 1]
    /\ flight' = [flight EXCEPT ![w] =
          [op |-> "insert", cls |-> c, row |-> row, left |-> Shards \ {s}]]
    /\ UNCHANGED <<results, got, work>>

LEMMA BeginStep ==
    ASSUME Inv, NEW w \in Writers, NEW s \in Shards, NEW c \in Classes, NEW row,
           Begins(w, s, c, row), w = "driver" <=> c # IT, c = IT => TrajectoryRow(row),
           w # "driver" => work[w].stage = "persist" /\ row.nend = work[w].verdict
    PROVE  /\ Typed' /\ ModelFlights' /\ SerialsApart' /\ SettledAgree' /\ WorkShown'
           /\ ResultsShown'
<1> DEFINE f == [op |-> "insert", cls |-> c, row |-> row, left |-> Shards \ {s}]
<1>1. /\ RowsShape' /\ rows'[s][c] = rows[s][c] \cup {row}
      /\ \A t \in Shards, d \in Classes : t # s \/ d # c => rows'[t][d] = rows[t][d]
  <2>1. RowsShape /\ Insert(s, c, row)
    BY DEF Inv, Typed, RowsTyped, RowsShape, Begins
  <2> QED BY <2>1, OneInsert
<1>2. /\ flight' = [v \in Writers |-> flight'[v]] /\ flight'[w] = f
      /\ \A v \in Writers : v # w => flight'[v] = flight[v]
  <2>1. FlightsTyped /\ flight' = [flight EXCEPT ![w] = f]
    BY DEF Inv, Typed, Begins
  <2> QED BY <2>1, OneFlight
<1>3. InFlight(w)' /\ \A v \in Writers : v # w => InFlight(v)' = InFlight(v)
  BY <1>2 DEF InFlight
<1>4. /\ next' \in [Classes -> Nat] /\ next[c] \in Nat /\ next'[c] = next[c] + 1
      /\ \A d \in Classes : d # c => next'[d] = next[d]
      /\ \A d \in Classes : \A x \in Nat : x < next[d] => x < next'[d]
  <2>1. next \in [Classes -> Nat] /\ next' = [next EXCEPT ![c] = @ + 1]
    BY DEF Inv, Typed, Begins
  <2>2. \A d \in Classes : next'[d] = IF d = c THEN next[d] + 1 ELSE next[d]
    BY <2>1
  <2> QED BY <2>1, <2>2
<1>5. row.serial = next[c] /\ UNCHANGED <<results, got, work>> /\ ~InFlight(w)
  BY DEF Begins
<1>6. Typed'
  <2>1. RowsTyped'
    <3>1. \A t \in Shards, d \in Classes : \A r \in rows'[t][d] :
             r.serial \in Nat /\ (d = IT => TrajectoryRow(r))
      BY <1>1, <1>4, <1>5 DEF Inv, Typed, RowsTyped
    <3> QED BY <3>1, <1>1 DEF RowsTyped, RowsShape, TrajectoryRow
  <2>2. FlightsTyped'
    <3>1. ASSUME NEW v \in Writers, InFlight(v)'
          PROVE  WriteTyped(v)'
      <4>1. CASE v = w
        BY <4>1, <1>2, <1>4, <1>5 DEF WriteTyped, TrajectoryRow
      <4>2. CASE v # w
        <5>1. WriteTyped(v) /\ flight'[v] = flight[v]
          BY <4>2, <1>2, <1>3, <3>1 DEF Inv, Typed, FlightsTyped
        <5> QED BY <5>1, <1>4 DEF WriteTyped, TrajectoryRow
      <4> QED BY <4>1, <4>2
    <3> QED BY <3>1, <1>2 DEF FlightsTyped
  <2>3. WorkTyped'
    <3>1. work' = work /\ \A x \in Nat : x < next[IT] => x < next'[IT]
      BY <1>4, <1>5, Names0
    <3> QED BY <3>1 DEF Inv, Typed, WorkTyped
  <2> QED BY <2>1, <2>2, <2>3, <1>4, <1>5 DEF Inv, Typed
<1>7. Grows
  BY <1>1, Names0 DEF Grows
<1>8. ModelFlights'
  <2> SUFFICES ASSUME NEW m \in Models, InFlight(m)'
               PROVE  (IF flight[m].op = "insert" THEN work[m].stage = "persist"
                       ELSE work[m].stage = "validate" /\ flight[m].row.serial = work[m].serial)'
    BY DEF ModelFlights
  <2>1. m \in Writers /\ m # "driver"
    BY Names0
  <2> QED BY <2>1, <1>2, <1>3, <1>5 DEF Inv, ModelWrites, ModelFlights
<1>9. SerialsApart'
  <2>1. \A m \in Models : \A x \in Nat :
           Holds(m, x)' => Holds(m, x) \/ (m = w /\ x = next[IT])
    BY <1>2, <1>3, <1>5, Names0 DEF Holds
  <2>2. \A m \in Models : \A x \in Nat : Holds(m, x) => x # next[IT]
    <3>0. next[IT] \in Nat
      BY Names0 DEF Inv, Typed
    <3>1. ASSUME NEW m \in Models, InFlight(m)
          PROVE  flight[m].row.serial < next[IT] /\ flight[m].row.serial \in Nat
      BY <3>1, Names0 DEF Inv, Typed, FlightsTyped, WriteTyped
    <3>2. \A m \in Models : work[m].stage = "validate" => work[m].serial \in Nat /\ work[m].serial < next[IT]
      BY DEF Inv, Typed, WorkTyped
    <3> QED BY <3>0, <3>1, <3>2 DEF Holds
  <2> QED BY <2>1, <2>2 DEF Inv, SerialsApart
<1>10. SettledAgree'
  <2>1. \A v \in Writers, t \in Shards : \A x : Validates(v, t, x)' = Validates(v, t, x)
    BY <1>2, <1>3, <1>5 DEF Validates
  <2>2. \A t \in Shards, d \in Classes : \A r : Finish(t, d, r)' = Finish(t, d, r)
    BY <2>1 DEF Finish
  <2>3. \A v \in Writers, t \in Shards, d \in Classes :
           Inserts(v, t, d)' <=> Inserts(v, t, d) \/ (v = w /\ d = c /\ t # s)
    BY <1>2, <1>3, <1>5 DEF Inserts
  <2>4. \A v \in Writers, t \in Shards, d \in Classes :
           Inserts(v, t, d) => flight'[v].row = flight[v].row
    BY <1>2, <1>5 DEF Inserts
  <2>5. Finish(s, c, row) = row
    <3>1. ASSUME NEW v \in Writers PROVE ~Validates(v, s, row.serial) \/ c # IT
      <4> SUFFICES ASSUME Validates(v, s, row.serial), c = IT PROVE FALSE
        OBVIOUS
      <4>1. WriteTyped(v) /\ flight[v].op = "validate" /\ flight[v].row.serial = next[IT]
        BY <1>5 DEF Inv, Typed, FlightsTyped, Validates
      <4>2. flight[v].cls = IT
        BY <4>1 DEF WriteTyped
      <4>3. flight[v].row.serial \in Nat /\ flight[v].row.serial < next[IT]
        BY <4>1, <4>2 DEF WriteTyped
      <4> QED BY <4>1, <4>3
    <3> QED BY <3>1 DEF Finish
  <2>6. \A t \in Shards, d \in Classes :
           Settled(t, d)' = IF d = c THEN Settled(t, d) \cup {row} ELSE Settled(t, d)
    <3> SUFFICES ASSUME NEW t \in Shards, NEW d \in Classes
                 PROVE  Settled(t, d)' = IF d = c THEN Settled(t, d) \cup {row} ELSE Settled(t, d)
      OBVIOUS
    <3> DEFINE A == {Finish(t, d, r) : r \in rows[t][d]}
               B == {flight[v].row : v \in {u \in Writers : Inserts(u, t, d)}}
               A1 == {Finish(t, d, r) : r \in rows'[t][d]}
               B1 == {flight'[v].row : v \in {u \in Writers : Inserts(u, t, d)'}}
    <3>1. Settled(t, d) = A \cup B /\ Settled(t, d)' = A1 \cup B1
      BY <2>2 DEF Settled
    <3>2. A1 = IF d = c /\ t = s THEN A \cup {row} ELSE A
      BY <1>1, <2>5
    <3>3. B1 = IF d = c /\ t # s THEN B \cup {row} ELSE B
      <4>1. \A v \in Writers : Inserts(v, t, d)' <=> Inserts(v, t, d) \/ (v = w /\ d = c /\ t # s)
        BY <2>3
      <4>2. flight'[w].row = row
        BY <1>2
      <4> QED BY <4>1, <4>2, <2>4
    <3> QED BY <3>1, <3>2, <3>3
  <2> QED BY <2>6 DEF Inv, SettledAgree
<1>11. WorkShown' /\ ResultsShown'
  <2>1. ResultsShown'
    BY <1>5, <1>7, GrowsFacts DEF Inv
  <2>2. ASSUME NEW m \in Models, m # w
        PROVE  ModelShown(m)'
    <3>1. ModelShown(m) /\ flight'[m] = flight[m] /\ work'[m] = work[m]
      BY <2>2, <1>2, <1>5, Names0 DEF Inv, WorkShown
    <3> QED BY <3>1, <1>7, OthersShown
  <2>3. ASSUME w \in Models
        PROVE  ModelShown(w)'
    <3>1. Shown(s, row.serial, work[w].verdict)'
      BY <2>3, <1>1, <1>5, Names0 DEF Shown, Trajectories, IT
    <3>2. work[w].stage = "persist" /\ Shards \ (Shards \ {s}) = {s} /\ work' = work
      BY <2>3, <1>5, Names0
    <3>3. /\ flight'[w].op = "insert" /\ flight'[w].row = row
          /\ \A t \in Shards \ flight'[w].left : t = s
      BY <1>2, <3>2
    <3>4. row.nend = work[w].verdict
      BY <2>3, Names0
    <3>5. ModelShown(w) /\ SampleGrid(work[w].verdict)' = SampleGrid(work[w].verdict)
      BY <2>3, <3>2 DEF Inv, WorkShown, SampleGrid
    <3> QED BY <3>1, <3>2, <3>3, <3>4, <3>5 DEF ModelShown
  <2> QED BY <2>1, <2>2, <2>3 DEF WorkShown
<1> QED BY <1>6, <1>8, <1>9, <1>10, <1>11

-----------------------------------------------------------------------------
(***************************************************************************)
(* A replica takes an insert, or a validation.                             *)
(***************************************************************************)
\* The writer w has shard s behind it
Passes(w, s) ==
    /\ flight' = [flight EXCEPT ![w].left = @ \ {s}]
    /\ UNCHANGED <<results, next, got, work>>

LEMMA PassFacts ==
    ASSUME Inv, NEW w \in Writers, InFlight(w), NEW s \in flight[w].left, Passes(w, s)
    PROVE  /\ s \in Shards /\ FlightsTyped' /\ WriteTyped(w)
           /\ flight' = [v \in Writers |-> flight'[v]]
           /\ \A v \in Writers : v # w => flight'[v] = flight[v]
           /\ flight'[w].op = flight[w].op /\ flight'[w].cls = flight[w].cls
           /\ flight'[w].row = flight[w].row /\ flight'[w].left = flight[w].left \ {s}
           /\ \A v \in Writers : InFlight(v)' = InFlight(v)
           /\ WorkTyped' /\ ModelFlights' /\ SerialsApart'
           /\ UNCHANGED <<results, next, got, work>>
<1>0. /\ FlightsTyped /\ WriteTyped(w) /\ s \in Shards
      /\ UNCHANGED <<results, next, got, work>>
  BY DEF Inv, Typed, FlightsTyped, WriteTyped, Passes
<1> DEFINE f == flight[w]
           g == [f EXCEPT !.left = @ \ {s}]
<1>1. g = [op |-> f.op, cls |-> f.cls, row |-> f.row, left |-> f.left \ {s}]
  BY <1>0 DEF WriteTyped
<1>2. /\ flight' = [v \in Writers |-> flight'[v]] /\ flight'[w] = g
      /\ \A v \in Writers : v # w => flight'[v] = flight[v]
  <2>1. flight' = [flight EXCEPT ![w] = g]
    BY DEF Passes
  <2> HIDE DEF g
  <2> QED BY <1>0, <2>1, OneFlight
<1>3. /\ flight'[w] = [op |-> f.op, cls |-> f.cls, row |-> f.row, left |-> f.left \ {s}]
      /\ flight'[w].op = f.op /\ flight'[w].cls = f.cls
      /\ flight'[w].row = f.row /\ flight'[w].left = f.left \ {s}
  BY <1>1, <1>2
<1>4. \A v \in Writers : InFlight(v)' = InFlight(v)
  BY <1>2, <1>3 DEF InFlight
<1>5. FlightsTyped'
  <2>1. ASSUME NEW v \in Writers, InFlight(v)'
        PROVE  WriteTyped(v)'
    <3>1. CASE v = w
      BY <3>1, <1>0, <1>3 DEF WriteTyped, TrajectoryRow
    <3>2. CASE v # w
      <4>1. WriteTyped(v) /\ flight'[v] = flight[v]
        BY <3>2, <1>0, <1>2, <1>4, <2>1 DEF FlightsTyped
      <4> QED BY <4>1, <1>0 DEF WriteTyped, TrajectoryRow
    <3> QED BY <3>1, <3>2
  <2> QED BY <2>1, <1>2 DEF FlightsTyped
<1>6. WorkTyped'
  BY <1>0 DEF Inv, Typed, WorkTyped
<1>7. \A v \in Writers : flight'[v].op = flight[v].op /\ flight'[v].row = flight[v].row
  BY <1>2, <1>3
<1>8. ModelFlights'
  BY <1>0, <1>4, <1>7, Names0 DEF ModelFlights, Inv, ModelWrites
<1>9. SerialsApart'
  <2>1. \A m \in Models : \A x : Holds(m, x)' => Holds(m, x)
    BY <1>0, <1>4, <1>7, Names0 DEF Holds
  <2> QED BY <2>1 DEF Inv, SerialsApart
<1> QED BY <1>0, <1>2, <1>3, <1>4, <1>5, <1>6, <1>8, <1>9

LEMMA ReplicaInserts ==
    ASSUME Inv, NEW w \in Writers, InFlight(w), flight[w].op = "insert",
           NEW s \in Shards, s \in flight[w].left, Passes(w, s),
           NEW c \in Classes, c = flight[w].cls,
           NEW row, row = flight[w].row, Insert(s, c, row)
    PROVE  /\ Typed' /\ ModelFlights' /\ SerialsApart' /\ SettledAgree' /\ WorkShown'
           /\ ResultsShown'
<1>1. /\ s \in Shards /\ FlightsTyped' /\ WriteTyped(w)
      /\ flight' = [v \in Writers |-> flight'[v]]
      /\ \A v \in Writers : v # w => flight'[v] = flight[v]
      /\ flight'[w].op = flight[w].op /\ flight'[w].cls = flight[w].cls
      /\ flight'[w].row = flight[w].row /\ flight'[w].left = flight[w].left \ {s}
      /\ \A v \in Writers : InFlight(v)' = InFlight(v)
      /\ WorkTyped' /\ ModelFlights' /\ SerialsApart'
      /\ UNCHANGED <<results, next, got, work>>
  BY PassFacts
<1>2. c \in Classes /\ row.serial \in Nat /\ (c = IT => TrajectoryRow(row))
  BY <1>1 DEF WriteTyped
<1>3. /\ RowsShape' /\ rows'[s][c] = rows[s][c] \cup {row}
      /\ \A t \in Shards, d \in Classes : t # s \/ d # c => rows'[t][d] = rows[t][d]
  <2>1. RowsShape
    BY DEF Inv, Typed, RowsTyped, RowsShape
  <2> QED BY <2>1, OneInsert
<1>4. Typed'
  <2>1. \A t \in Shards, d \in Classes : \A r \in rows'[t][d] :
           r.serial \in Nat /\ (d = IT => TrajectoryRow(r))
    BY <1>2, <1>3 DEF Inv, Typed, RowsTyped
  <2>2. RowsTyped'
    BY <2>1, <1>3 DEF RowsTyped, RowsShape, TrajectoryRow
  <2> QED BY <2>2, <1>1 DEF Inv, Typed
<1>5. Grows
  BY <1>2, <1>3, <1>1, Names0 DEF Grows
<1>6. SettledAgree'
  <2>1. \A v \in Writers, t \in Shards : \A x : Validates(v, t, x)' = Validates(v, t, x)
    BY <1>1 DEF Validates
  <2>2. \A t \in Shards, d \in Classes : \A r : Finish(t, d, r)' = Finish(t, d, r)
    BY <2>1 DEF Finish
  <2>3. \A v \in Writers, t \in Shards, d \in Classes :
           /\ Inserts(v, t, d)' <=> Inserts(v, t, d) /\ ~(v = w /\ t = s /\ d = c)
           /\ flight'[v].row = flight[v].row
    BY <1>1 DEF Inserts
  <2>4. Inserts(w, s, c)
    BY DEF Inserts
  <2>5. Finish(s, c, row) = row
    <3> SUFFICES ASSUME NEW v \in Writers, Validates(v, s, row.serial), c = IT PROVE FALSE
      BY DEF Finish
    <3>1. InFlight(v) /\ flight[v].op = "validate" /\ flight[v].row.serial = row.serial
      BY DEF Validates
    <3>2. v # w /\ w # "driver"
      BY <3>1, <1>1 DEF WriteTyped
    <3>3. v # "driver"
      BY <3>1 DEF Inv, Typed, FlightsTyped, WriteTyped
    <3>4. v \in Models /\ w \in Models
      BY <3>2, <3>3, Names0
    <3>5. Holds(v, row.serial) /\ Holds(w, row.serial)
      BY <3>1 DEF Holds
    <3> QED BY <3>2, <3>4, <3>5, <1>2 DEF Inv, SerialsApart
  <2>6. \A t \in Shards, d \in Classes : Settled(t, d)' = Settled(t, d)
    <3> SUFFICES ASSUME NEW t \in Shards, NEW d \in Classes
                 PROVE  Settled(t, d)' = Settled(t, d)
      OBVIOUS
    <3> DEFINE A == {Finish(t, d, r) : r \in rows[t][d]}
               B == {flight[v].row : v \in {u \in Writers : Inserts(u, t, d)}}
               A1 == {Finish(t, d, r) : r \in rows'[t][d]}
               B1 == {flight'[v].row : v \in {u \in Writers : Inserts(u, t, d)'}}
    <3>1. Settled(t, d) = A \cup B /\ Settled(t, d)' = A1 \cup B1
      BY <2>2 DEF Settled
    <3>2. CASE t = s /\ d = c
      <4>1. A1 = A \cup {row}
        BY <3>2, <1>3, <2>5
      <4>2. B = B1 \cup {row}
        <5>1. \A x : x \in B <=> \E u \in Writers : Inserts(u, t, d) /\ x = flight[u].row
          OBVIOUS
        <5>2. \A x : x \in B1 <=> \E u \in Writers : Inserts(u, t, d)' /\ x = flight'[u].row
          OBVIOUS
        <5>3. \A x : x \in B <=> x \in B1 \/ x = row
          BY <5>1, <5>2, <3>2, <2>3, <2>4
        <5> HIDE DEF B, B1
        <5> QED BY <5>3
      <4> HIDE DEF A, A1, B, B1
      <4> QED BY <3>1, <4>1, <4>2
    <3>3. CASE ~(t = s /\ d = c)
      <4>1. A1 = A
        BY <3>3, <1>3
      <4>2. B1 = B
        BY <3>3, <2>3
      <4> QED BY <3>1, <4>1, <4>2
    <3> QED BY <3>2, <3>3
  <2> QED BY <2>6 DEF Inv, SettledAgree
<1>7. WorkShown'
  <2>1. ASSUME NEW m \in Models, m # w
        PROVE  ModelShown(m)'
    <3>1. ModelShown(m) /\ flight'[m] = flight[m] /\ work'[m] = work[m]
      BY <2>1, <1>1, Names0 DEF Inv, WorkShown
    <3> QED BY <3>1, <1>5, OthersShown
  <2>2. ASSUME w \in Models
        PROVE  ModelShown(w)'
    <3>1. ModelShown(w) /\ work' = work /\ SampleGrid(work[w].verdict)' = SampleGrid(work[w].verdict)
      BY <2>2, <1>1 DEF Inv, WorkShown, SampleGrid
    <3>2. work[w].stage = "persist" /\ row.nend = work[w].verdict /\ c = IT
      BY <2>2, <3>1, <1>1, Names0 DEF Inv, ModelWrites, ModelFlights, ModelShown, WriteTyped
    <3>3. \A x, v : x = row.serial /\ v = row.nend => Shown(s, x, v)'
      BY <3>2, <1>3 DEF Shown, Trajectories, IT
    <3>4. \A u \in Shards \ flight'[w].left : u = s \/ u \in Shards \ flight[w].left
      BY <1>1
    <3>5. \A u \in Shards \ flight[w].left : Shown(u, row.serial, work[w].verdict)
      BY <3>1 DEF ModelShown
    <3>6. \A u \in Shards \ flight'[w].left : \A x, v : x = row.serial /\ v = work[w].verdict =>
             Shown(u, x, v)'
      BY <3>2, <3>3, <3>4, <3>5, <1>5, GrowsFacts
    <3>7. flight'[w].op = "insert" /\ flight'[w].row = row /\ work'[w] = work[w]
      BY <1>1
    <3>8. \A u \in Shards \ flight'[w].left :
             Shown(u, flight[w].row.serial, work[w].verdict)'
      BY <3>6, <3>7
    <3> QED BY <3>1, <3>2, <3>7, <3>8 DEF ModelShown
  <2> QED BY <2>1, <2>2 DEF WorkShown
<1>8. ResultsShown'
  BY <1>1, <1>5, GrowsFacts DEF Inv
<1> QED BY <1>1, <1>4, <1>6, <1>7, <1>8

\* The flag is set on one shard
LEMMA OneValidation ==
    ASSUME RowsTyped, NEW s \in Shards, NEW x,
           TableWritten(s, IT, Validated(rows[s][IT], x))
    PROVE  /\ RowsTyped' /\ rows'[s][IT] = Marked(rows[s][IT], x)
           /\ \A t \in Shards, d \in Classes : t # s \/ d # IT => rows'[t][d] = rows[t][d]
           /\ Grows /\ \A v : Shown(s, x, v) => Valid(s, x, v)'
<1>0. IT \in Classes /\ RowsShape /\ \A r \in rows[s][IT] : TrajectoryRow(r) /\ r.serial \in Nat
  BY Names0 DEF RowsTyped, RowsShape
<1>1. /\ RowsShape' /\ rows'[s][IT] = Validated(rows[s][IT], x)
      /\ \A t \in Shards, d \in Classes : t # s \/ d # IT => rows'[t][d] = rows[t][d]
  BY <1>0, OneTable
<1>2. rows'[s][IT] = Marked(rows[s][IT], x)
  BY <1>0, <1>1, ValidatedIsMarked
<1>3. /\ \A q \in Marked(rows[s][IT], x) : TrajectoryRow(q) /\ \E r \in rows[s][IT] : q.serial = r.serial
      /\ \A r \in rows[s][IT] : \E q \in Marked(rows[s][IT], x) :
            /\ q.serial = r.serial /\ q.nend = r.nend
            /\ r.validated \/ r.serial = x => q.validated
  BY <1>0, MarkedFacts
<1>4. \A t \in Shards, d \in Classes : \A r \in rows'[t][d] :
         r.serial \in Nat /\ (d = IT => TrajectoryRow(r))
  <2> SUFFICES ASSUME NEW t \in Shards, NEW d \in Classes, NEW r \in rows'[t][d]
               PROVE  r.serial \in Nat /\ (d = IT => TrajectoryRow(r))
    OBVIOUS
  <2>1. CASE t = s /\ d = IT
    BY <2>1, <1>0, <1>2, <1>3
  <2>2. CASE t # s \/ d # IT
    BY <2>2, <1>1 DEF RowsTyped
  <2> QED BY <2>1, <2>2
<1>5. RowsTyped'
  BY <1>1, <1>4 DEF RowsTyped, RowsShape, TrajectoryRow
<1>6. Grows
  <2> SUFFICES ASSUME NEW t \in Shards, NEW r \in rows[t][IT]
               PROVE  \E q \in rows'[t][IT] :
                         q.serial = r.serial /\ q.nend = r.nend /\ (r.validated => q.validated)
    BY DEF Grows
  <2>1. CASE t = s
    BY <2>1, <1>2, <1>3
  <2>2. CASE t # s
    BY <2>2, <1>0, <1>1
  <2> QED BY <2>1, <2>2
<1>7. \A v : Shown(s, x, v) => Valid(s, x, v)'
  <2>1. \A v : Shown(s, x, v) <=> \E r \in rows[s][IT] : r.serial = x /\ r.nend = v
    BY DEF Shown, Trajectories, IT
  <2>2. \A v : Valid(s, x, v)' <=> \E r \in rows'[s][IT] : r.serial = x /\ r.nend = v /\ r.validated
    BY DEF Valid, Trajectories, IT
  <2> SUFFICES ASSUME NEW v, Shown(s, x, v) PROVE Valid(s, x, v)'
    OBVIOUS
  <2>3. PICK r \in rows[s][IT] : r.serial = x /\ r.nend = v
    BY <2>1
  <2>4. PICK q \in Marked(rows[s][IT], x) : q.serial = r.serial /\ q.nend = r.nend /\ q.validated
    BY <1>3, <2>3
  <2> QED BY <2>2, <2>3, <2>4, <1>2
<1> QED BY <1>1, <1>2, <1>5, <1>6, <1>7

LEMMA ReplicaValidates ==
    ASSUME Inv, NEW w \in Writers, InFlight(w), flight[w].op # "insert",
           NEW s \in flight[w].left, Passes(w, s), NEW x, x = flight[w].row.serial,
           TableWritten(s, IT, Validated(rows[s][IT], x))
    PROVE  /\ Typed' /\ ModelFlights' /\ SerialsApart' /\ SettledAgree' /\ WorkShown'
           /\ ResultsShown'
<1>1. /\ s \in Shards /\ FlightsTyped' /\ WriteTyped(w)
      /\ flight' = [v \in Writers |-> flight'[v]]
      /\ \A v \in Writers : v # w => flight'[v] = flight[v]
      /\ flight'[w].op = flight[w].op /\ flight'[w].cls = flight[w].cls
      /\ flight'[w].row = flight[w].row /\ flight'[w].left = flight[w].left \ {s}
      /\ \A v \in Writers : InFlight(v)' = InFlight(v)
      /\ WorkTyped' /\ ModelFlights' /\ SerialsApart'
      /\ UNCHANGED <<results, next, got, work>>
  BY PassFacts
<1>2. w \in Models /\ flight[w].op = "validate" /\ x = work[w].serial
  BY <1>1, Names0 DEF WriteTyped, Inv, ModelWrites, ModelFlights
<1>3. /\ RowsTyped' /\ rows'[s][IT] = Marked(rows[s][IT], x)
      /\ \A t \in Shards, d \in Classes : t # s \/ d # IT => rows'[t][d] = rows[t][d]
      /\ Grows /\ \A v : Shown(s, x, v) => Valid(s, x, v)'
  <2>1. RowsTyped /\ s \in Shards
    BY <1>1 DEF Inv, Typed
  <2> QED BY <2>1, OneValidation
<1>4. Typed'
  BY <1>1, <1>3 DEF Inv, Typed
<1>5. SettledAgree'
  <2>1. \A v \in Writers, t \in Shards : \A y :
           Validates(v, t, y)' <=> Validates(v, t, y) /\ ~(v = w /\ t = s)
    BY <1>1 DEF Validates
  <2>2. Validates(w, s, x) /\ \A y : Validates(w, s, y) => y = x
    BY <1>2 DEF Validates
  <2>3. \A v \in Writers, t \in Shards, d \in Classes :
           Inserts(v, t, d)' = Inserts(v, t, d) /\ flight'[v].row = flight[v].row
    BY <1>1, <1>2 DEF Inserts
  <2>4. ASSUME NEW t \in Shards, NEW d \in Classes, t # s \/ d # IT
        PROVE  Settled(t, d)' = Settled(t, d)
    <3>1. \A r : Finish(t, d, r)' = Finish(t, d, r)
      BY <2>1, <2>4 DEF Finish
    <3>2. rows'[t][d] = rows[t][d]
      BY <1>3, <2>4
    <3> QED BY <3>1, <3>2, <2>3 DEF Settled
  <2>5. Settled(s, IT)' = Settled(s, IT)
    <3> DEFINE Mark(r) == IF r.serial = x THEN Flag(r) ELSE r
    <3>0. IT \in Classes /\ \A r \in rows[s][IT] : TrajectoryRow(r)
      BY <1>1, Names0 DEF Inv, Typed, RowsTyped
    <3>1. ASSUME NEW r \in rows[s][IT]
          PROVE  Finish(s, IT, Mark(r))' = Finish(s, IT, r)
      <4>1. CASE r.serial = x
        <5>1. Finish(s, IT, r) = Flag(r)
          BY <4>1, <2>2 DEF Finish
        <5>2. Flag(Flag(r)) = Flag(r)
          BY <3>0, FlagFacts
        <5> QED BY <4>1, <5>1, <5>2 DEF Finish
      <4>2. CASE r.serial # x
        <5>1. ~Validates(w, s, r.serial)
          BY <4>2, <2>2
        <5>2. \A v \in Writers : Validates(v, s, r.serial)' <=> Validates(v, s, r.serial)
          BY <5>1, <2>1, <1>1
        <5> QED BY <4>2, <5>2 DEF Finish
      <4> QED BY <4>1, <4>2
    <3>2. rows'[s][IT] = {Mark(r) : r \in rows[s][IT]}
      BY <1>3 DEF Marked
    <3> HIDE DEF Mark
    <3>3. {Finish(s, IT, q)' : q \in rows'[s][IT]} = {Finish(s, IT, r) : r \in rows[s][IT]}
      BY <3>1, <3>2
    <3> QED BY <3>0, <3>3, <2>3, <1>1 DEF Settled
  <2> QED BY <2>4, <2>5, <1>1 DEF Inv, SettledAgree
<1>6. WorkShown'
  <2>1. ASSUME NEW m \in Models, m # w
        PROVE  ModelShown(m)'
    <3>1. ModelShown(m) /\ flight'[m] = flight[m] /\ work'[m] = work[m]
      BY <2>1, <1>1, Names0 DEF Inv, WorkShown
    <3> QED BY <3>1, <1>3, OthersShown
  <2>2. ModelShown(w)'
    <3>1. /\ ModelShown(w) /\ work' = work /\ work[w].stage = "validate"
          /\ flight'[w].op = "validate"
      BY <1>1, <1>2 DEF Inv, WorkShown, ModelWrites, ModelFlights
    <3>2. \A u \in Shards : \A v : v = work[w].verdict => Shown(u, x, v)
      BY <3>1, <1>2 DEF ModelShown
    <3>3. \A u \in Shards : \A v : v = work[w].verdict => Shown(u, x, v)'
      BY <3>2, <1>3, GrowsFacts
    <3>4. \A u \in Shards \ flight[w].left : \A v : v = work[w].verdict => Valid(u, x, v)
      BY <3>1, <1>2 DEF ModelShown
    <3>5. \A u \in Shards \ flight'[w].left : \A v : v = work[w].verdict => Valid(u, x, v)'
      <4>1. \A u \in Shards \ flight'[w].left : u = s \/ u \in Shards \ flight[w].left
        BY <1>1
      <4> QED BY <4>1, <3>2, <3>4, <1>1, <1>3, GrowsFacts
    <3>6. \A u \in Shards : Shown(u, work[w].serial, work[w].verdict)'
      BY <3>1, <3>3, <1>2
    <3>7. \A u \in Shards \ flight'[w].left : Valid(u, work[w].serial, work[w].verdict)'
      BY <3>1, <3>5, <1>2
    <3> QED BY <3>1, <3>6, <3>7 DEF ModelShown
  <2> QED BY <2>1, <2>2 DEF WorkShown
<1>7. ResultsShown'
  BY <1>1, <1>3, GrowsFacts DEF Inv
<1> QED BY <1>1, <1>4, <1>5, <1>6, <1>7

-----------------------------------------------------------------------------
(***************************************************************************)
(* A replicated validation begins.                                         *)
(***************************************************************************)
LEMMA ValidationBegins ==
    ASSUME Inv, NEW m \in Models, work[m].stage = "validate", ~InFlight(m),
           NEW s \in Shards, NEW x, x = work[m].serial,
           TableWritten(s, IT, Validated(rows[s][IT], x)),
           flight' = [flight EXCEPT ![m] =
                [op |-> "validate", cls |-> IT, row |-> [serial |-> x], left |-> Shards \ {s}]],
           UNCHANGED <<results, next, got, work>>
    PROVE  /\ Typed' /\ ModelFlights' /\ SerialsApart' /\ SettledAgree' /\ WorkShown'
           /\ ResultsShown'
<1>1. /\ RowsTyped' /\ rows'[s][IT] = Marked(rows[s][IT], x)
      /\ \A t \in Shards, d \in Classes : t # s \/ d # IT => rows'[t][d] = rows[t][d]
      /\ Grows /\ \A v : Shown(s, x, v) => Valid(s, x, v)'
  <2>1. RowsTyped
    BY DEF Inv, Typed
  <2> QED BY <2>1, OneValidation
<1> DEFINE f == [op |-> "validate", cls |-> IT, row |-> [serial |-> x], left |-> Shards \ {s}]
<1>2. /\ flight' = [v \in Writers |-> flight'[v]] /\ flight'[m] = f
      /\ \A v \in Writers : v # m => flight'[v] = flight[v]
  <2>1. FlightsTyped /\ flight' = [flight EXCEPT ![m] = f] /\ m \in Writers
    BY Names0 DEF Inv, Typed
  <2> HIDE DEF f
  <2> QED BY <2>1, OneFlight
<1>3. InFlight(m)' /\ \A v \in Writers : v # m => InFlight(v)' = InFlight(v)
  BY <1>2 DEF InFlight
<1>4. x \in Nat /\ x < next[IT] /\ m \in Writers /\ m # "driver"
  BY Names0 DEF Inv, Typed, WorkTyped
<1>5. Typed'
  <2>1. ASSUME NEW v \in Writers, InFlight(v)'
        PROVE  WriteTyped(v)'
    <3>1. CASE v = m
      BY <3>1, <1>2, <1>4, Names0 DEF WriteTyped
    <3>2. CASE v # m
      <4>1. WriteTyped(v) /\ flight'[v] = flight[v]
        BY <3>2, <1>2, <1>3, <2>1 DEF Inv, Typed, FlightsTyped
      <4> QED BY <4>1 DEF WriteTyped, TrajectoryRow
    <3> QED BY <3>1, <3>2
  <2>2. FlightsTyped'
    BY <2>1, <1>2 DEF FlightsTyped
  <2>3. WorkTyped'
    BY DEF Inv, Typed, WorkTyped
  <2> QED BY <2>2, <2>3, <1>1 DEF Inv, Typed
<1>6. ModelFlights'
  <2> SUFFICES ASSUME NEW n \in Models, InFlight(n)'
               PROVE  (IF flight[n].op = "insert" THEN work[n].stage = "persist"
                       ELSE work[n].stage = "validate" /\ flight[n].row.serial = work[n].serial)'
    BY DEF ModelFlights
  <2>1. n \in Writers
    BY Names0
  <2> QED BY <2>1, <1>2, <1>3 DEF Inv, ModelWrites, ModelFlights
<1>7. SerialsApart'
  <2>1. \A n \in Models : \A y : Holds(n, y)' => Holds(n, y)
    BY <1>2, <1>3, Names0 DEF Holds
  <2> QED BY <2>1 DEF Inv, SerialsApart
<1>8. SettledAgree'
  <2> DEFINE Mark(r) == IF r.serial = x THEN Flag(r) ELSE r
  <2>1. /\ \A v \in Writers, t \in Shards : \A y : v # m => Validates(v, t, y)' = Validates(v, t, y)
        /\ \A t \in Shards : \A y : ~Validates(m, t, y)
        /\ \A t \in Shards : \A y : Validates(m, t, y)' <=> t # s /\ y = x
    BY <1>2, <1>3 DEF Validates
  <2>2. \A v \in Writers, t \in Shards, d \in Classes :
           Inserts(v, t, d)' = Inserts(v, t, d) /\ (Inserts(v, t, d) => flight'[v].row = flight[v].row)
    BY <1>2, <1>3 DEF Inserts
  <2>3. ASSUME NEW t \in Shards, NEW d \in Classes, d # IT
        PROVE  Settled(t, d)' = Settled(t, d)
    <3>1. \A r : Finish(t, d, r) = r /\ Finish(t, d, r)' = r
      BY <2>3 DEF Finish
    <3>2. rows'[t][d] = rows[t][d]
      BY <1>1, <2>3
    <3> QED BY <3>1, <3>2, <2>2 DEF Settled
  <2>4. ASSUME NEW t \in Shards
        PROVE  Settled(t, IT)' = {Mark(r) : r \in Settled(t, IT)}
    <3>0. IT \in Classes /\ \A r \in rows[t][IT] : TrajectoryRow(r)
      BY Names0 DEF Inv, Typed, RowsTyped
    <3> DEFINE Read(r) == IF t = s THEN Mark(r) ELSE r
    <3>1. ASSUME NEW r \in rows[t][IT]
          PROVE  Finish(t, IT, Read(r))' = Mark(Finish(t, IT, r))
      <4>0. Flag(Flag(r)) = Flag(r) /\ Flag(r).serial = r.serial
        BY <3>0, FlagFacts
      <4>1. CASE r.serial = x
        <5>1. Mark(Finish(t, IT, r)) = Flag(r)
          BY <4>0, <4>1 DEF Finish
        <5>2. CASE t = s
          BY <5>1, <5>2, <4>0, <4>1 DEF Finish
        <5>3. CASE t # s
          BY <5>1, <5>3, <4>1, <2>1, <1>4 DEF Finish
        <5> QED BY <5>2, <5>3
      <4>2. CASE r.serial # x
        <5>1. Mark(Finish(t, IT, r)) = Finish(t, IT, r) /\ Read(r) = r
          BY <4>0, <4>2 DEF Finish
        <5>2. \A v \in Writers : Validates(v, t, r.serial)' <=> Validates(v, t, r.serial)
          BY <4>2, <2>1
        <5> QED BY <5>1, <5>2 DEF Finish
      <4> QED BY <4>1, <4>2
    <3>2. rows'[t][IT] = {Read(r) : r \in rows[t][IT]}
      BY <3>0, <1>1 DEF Marked
    <3>3. ASSUME NEW v \in Writers, Inserts(v, t, IT)
          PROVE  Mark(flight[v].row) = flight[v].row
      <4>1. InFlight(v) /\ flight[v].cls = IT /\ v # m
        BY <3>3 DEF Inserts
      <4>2. v \in Models
        BY <4>1, Names0 DEF Inv, Typed, FlightsTyped, WriteTyped
      <4>3. Holds(m, x)
        BY DEF Holds
      <4>4. flight[v].row.serial # x
        BY <4>1, <4>2, <4>3, <1>4 DEF Inv, SerialsApart, Holds
      <4> QED BY <4>4
    <3> HIDE DEF Mark, Read
    <3>4. {Finish(t, IT, q)' : q \in rows'[t][IT]}
             = {Mark(q) : q \in {Finish(t, IT, r) : r \in rows[t][IT]}}
      BY <3>1, <3>2
    <3>5. {flight'[v].row : v \in {u \in Writers : Inserts(u, t, IT)'}}
             = {Mark(q) : q \in {flight[v].row : v \in {u \in Writers : Inserts(u, t, IT)}}}
      BY <3>0, <3>3, <2>2
    <3> QED BY <3>4, <3>5 DEF Settled
  <2> HIDE DEF Mark
  <2> SUFFICES ASSUME NEW t \in Shards, NEW u \in Shards, NEW d \in Classes
               PROVE  Settled(t, d)' = Settled(u, d)'
    BY DEF SettledAgree
  <2>5. Settled(t, d) = Settled(u, d)
    BY DEF Inv, SettledAgree
  <2>6. CASE d = IT
    BY <2>4, <2>5, <2>6
  <2>7. CASE d # IT
    BY <2>3, <2>5, <2>7
  <2> QED BY <2>6, <2>7
<1>9. WorkShown'
  <2>1. ASSUME NEW n \in Models, n # m
        PROVE  ModelShown(n)'
    <3>1. ModelShown(n) /\ flight'[n] = flight[n] /\ work'[n] = work[n]
      BY <2>1, <1>2, Names0 DEF Inv, WorkShown
    <3> QED BY <3>1, <1>1, OthersShown
  <2>2. ModelShown(m)'
    <3>1. ModelShown(m) /\ work' = work /\ flight'[m].op = "validate"
      BY <1>2 DEF Inv, WorkShown
    <3>2. \A u \in Shards : \A v : v = work[m].verdict => Shown(u, x, v)
      BY <3>1 DEF ModelShown
    <3>3. \A u \in Shards : \A v : v = work[m].verdict => Shown(u, x, v)'
      BY <3>2, <1>1, GrowsFacts
    <3>4. \A u \in Shards \ flight'[m].left : \A v : v = work[m].verdict => Valid(u, x, v)'
      <4>1. \A u \in Shards \ flight'[m].left : u = s
        BY <1>2
      <4> QED BY <4>1, <3>2, <1>1
    <3>5. \A u \in Shards : Shown(u, work[m].serial, work[m].verdict)'
      BY <3>1, <3>3
    <3>6. \A u \in Shards \ flight'[m].left : Valid(u, work[m].serial, work[m].verdict)'
      BY <3>1, <3>4
    <3> QED BY <3>1, <3>5, <3>6 DEF ModelShown
  <2> QED BY <2>1, <2>2 DEF WorkShown
<1>10. ResultsShown'
  BY <1>1, GrowsFacts DEF Inv
<1> QED BY <1>5, <1>6, <1>7, <1>8, <1>9, <1>10

-----------------------------------------------------------------------------
(***************************************************************************)
(* A model's write ends.                                                   *)
(***************************************************************************)
LEMMA TrajectoryEnds ==
    ASSUME Inv, NEW m \in Models, TrajectoryWritten(m)
    PROVE  /\ Typed' /\ ModelFlights' /\ SerialsApart' /\ SettledAgree' /\ WorkShown'
           /\ ResultsShown' /\ Minting' = Minting
<1> DEFINE f == flight[m]
           stage == IF f.op = "insert" THEN "validate" ELSE "done"
<1>1. /\ InFlight(m) /\ f.left = {} /\ m \in Writers /\ m # "driver"
      /\ UNCHANGED <<rows, results, next, got>>
      /\ flight' = [flight EXCEPT ![m] = NoWrite]
      /\ work' = [work EXCEPT ![m].serial = f.row.serial, ![m].stage = stage]
  BY Names0 DEF TrajectoryWritten
<1>2. /\ FlightsTyped' /\ SettledAgree' /\ ~InFlight(m)'
      /\ \A v \in Writers : v # m => flight'[v] = flight[v]
  BY <1>1, LandedFlights
<1>3. WriteTyped(m) /\ f.cls = IT /\ f.row.serial \in Nat /\ f.row.serial < next[IT]
  <2>1. WriteTyped(m)
    BY <1>1 DEF Inv, Typed, FlightsTyped
  <2> QED BY <2>1, <1>1 DEF WriteTyped
<1>4. /\ f.op = "insert" => work[m].stage = "persist"
      /\ f.op # "insert" => /\ f.op = "validate" /\ work[m].stage = "validate"
                            /\ f.row.serial = work[m].serial
  BY <1>1, <1>3 DEF Inv, ModelWrites, ModelFlights, WriteTyped
<1>5. /\ work' = [n \in Models |-> work'[n]]
      /\ work'[m] = [stage |-> stage, verdict |-> work[m].verdict,
                     minted |-> work[m].minted, serial |-> f.row.serial]
      /\ \A n \in Models : n # m => work'[n] = work[n]
  <2>1. /\ work = [n \in Models |-> work[n]]
        /\ work[m] = [stage |-> work[m].stage, verdict |-> work[m].verdict,
                      minted |-> work[m].minted, serial |-> work[m].serial]
    BY DEF Inv, Typed, WorkTyped
  <2> HIDE DEF stage, f
  <2> QED BY <2>1, <1>1
<1>6. Typed'
  <2>1. WorkTyped'
    <3>1. ASSUME NEW n \in Models
          PROVE  /\ work'[n] = [stage |-> work'[n].stage, verdict |-> work'[n].verdict,
                                minted |-> work'[n].minted, serial |-> work'[n].serial]
                 /\ work'[n].stage \in WorkStages /\ work'[n].minted \in Seq(Nat)
                 /\ work'[n].stage = "validate" => /\ work'[n].serial \in Nat
                                                   /\ work'[n].serial < next'[IT]
      <4>1. CASE n = m
        <5>1. stage \in WorkStages /\ work[m].minted \in Seq(Nat)
          BY DEF WorkStages, Inv, Typed, WorkTyped
        <5>2. /\ work'[n] = [stage |-> stage, verdict |-> work[m].verdict,
                             minted |-> work[m].minted, serial |-> f.row.serial]
              /\ next' = next /\ f.row.serial \in Nat /\ f.row.serial < next[IT]
          BY <4>1, <1>1, <1>3, <1>5
        <5> HIDE DEF stage, f
        <5> QED BY <5>1, <5>2
      <4>2. CASE n # m
        BY <4>2, <1>1, <1>5 DEF Inv, Typed, WorkTyped
      <4> QED BY <4>1, <4>2
    <3> QED BY <3>1, <1>5 DEF WorkTyped
  <2>2. RowsTyped'
    BY <1>1 DEF Inv, Typed, RowsTyped, TrajectoryRow
  <2> QED BY <2>1, <2>2, <1>1, <1>2 DEF Inv, Typed
<1>7. \A n \in Models : n # m => flight'[n] = flight[n] /\ work'[n] = work[n]
  BY <1>2, <1>5, Names0
<1>8. ModelFlights'
  BY <1>2, <1>7 DEF Inv, ModelWrites, ModelFlights, InFlight
<1>9. SerialsApart'
  <2>1. \A n \in Models : \A x : Holds(n, x)' => Holds(n, x)
    <3> SUFFICES ASSUME NEW n \in Models, NEW x, Holds(n, x)'
                 PROVE  Holds(n, x)
      OBVIOUS
    <3>1. CASE n = m
      BY <3>1, <1>1, <1>2, <1>5 DEF Holds
    <3>2. CASE n # m
      BY <3>2, <1>7 DEF Holds, InFlight
    <3> QED BY <3>1, <3>2
  <2> QED BY <2>1 DEF Inv, SerialsApart
<1>10. Grows
  BY <1>1 DEF Grows
<1>11. WorkShown'
  <2>1. ASSUME NEW n \in Models, n # m
        PROVE  ModelShown(n)'
    <3>1. ModelShown(n) /\ flight'[n] = flight[n] /\ work'[n] = work[n]
      BY <2>1, <1>7 DEF Inv, WorkShown
    <3> QED BY <3>1, <1>10, OthersShown
  <2>2. ModelShown(m)'
    <3>1. ModelShown(m) /\ work'[m].serial = f.row.serial /\ work'[m].verdict = work[m].verdict
      BY <1>5 DEF Inv, WorkShown
    <3>2. CASE f.op = "insert"
      <4>1. work'[m].stage = "validate"
        BY <3>2, <1>5
      <4>2. \A u \in Shards : \A x, v : x = f.row.serial /\ v = work[m].verdict => Shown(u, x, v)
        BY <3>1, <3>2, <1>1 DEF ModelShown
      <4>3. \A u \in Shards : \A x, v : x = f.row.serial /\ v = work[m].verdict => Shown(u, x, v)'
        BY <4>2, <1>10, GrowsFacts
      <4>4. \A u \in Shards : Shown(u, work[m].serial, work[m].verdict)'
        BY <3>1, <4>3
      <4> QED BY <4>1, <4>4, <1>2 DEF ModelShown
    <3>3. CASE f.op # "insert"
      <4>1. work'[m].stage = "done"
        BY <3>3, <1>5
      <4>2. \A u \in Shards : \A x, v : x = f.row.serial /\ v = work[m].verdict => Valid(u, x, v)
        BY <3>1, <3>3, <1>1, <1>4 DEF ModelShown
      <4>3. \A u \in Shards : \A x, v : x = f.row.serial /\ v = work[m].verdict => Valid(u, x, v)'
        BY <4>2, <1>10, GrowsFacts
      <4>4. \A u \in Shards : Valid(u, work[m].serial, work[m].verdict)'
        BY <3>1, <4>3
      <4> QED BY <4>1, <4>4, <1>2 DEF ModelShown
    <3> QED BY <3>2, <3>3
  <2> QED BY <2>1, <2>2 DEF WorkShown
<1>12. ResultsShown'
  BY <1>1, <1>10, GrowsFacts DEF Inv
<1>13. Minting' = Minting
  <2>1. work[m].stage # "mint" /\ work'[m].stage # "mint"
    BY <1>4, <1>5
  <2> QED BY <2>1, <1>5 DEF Minting
<1> QED BY <1>2, <1>6, <1>8, <1>9, <1>11, <1>12, <1>13

-----------------------------------------------------------------------------
(***************************************************************************)
(* The next start.                                                         *)
(***************************************************************************)
\* What every shard holds of a class after the open has compared the shards
Mended(c) == {IF c = IT /\ Torn(r) THEN Revalidated(r) ELSE r : r \in All(c)}

\* What is left of it after the open has pruned and dropped
Left(c, prune, tables) ==
    IF c \in tables THEN {}
    ELSE IF prune /\ c = IT THEN {r \in Mended(IT) : r.validated} ELSE Mended(c)

LEMMA ReconciledIsMended == Reconciled = [s \in Shards |-> [c \in Classes |-> Mended(c)]]
BY DEF Reconciled, Mended, Torn, All, IT

LEMMA OpenedIsLeft ==
    ASSUME NEW prune \in BOOLEAN, NEW tables
    PROVE  Opened(prune, tables) = [s \in Shards |-> [c \in Classes |-> Left(c, prune, tables)]]
<1>1. ASSUME NEW s \in Shards
      PROVE  Emptied(tables, IF prune THEN Prune(Reconciled[s]) ELSE Reconciled[s])
                = [c \in Classes |-> Left(c, prune, tables)]
  <2>1. Reconciled[s] = [c \in Classes |-> Mended(c)]
    BY ReconciledIsMended
  <2>2. CASE prune
    <3> DEFINE Kept == {r \in Mended(IT) : r.validated}
    <3>1. Prune(Reconciled[s]) = [Reconciled[s] EXCEPT ![IT] = Kept]
      BY <2>1, Names0 DEF Prune, IT
    <3> HIDE DEF Kept
    <3>2. \A c \in Classes : Prune(Reconciled[s])[c] = IF c = IT THEN Kept ELSE Mended(c)
      BY <3>1, <2>1
    <3> QED BY <2>2, <3>2 DEF Emptied, Left, Kept
  <2>3. CASE ~prune
    BY <2>1, <2>3 DEF Emptied, Left
  <2> QED BY <2>2, <2>3
<1> QED BY <1>1 DEF Opened

\* Trajectories that are copied or whose flags are computed anew are the
\* trajectories that were there
LEMMA MendedFacts ==
    ASSUME RowsTyped
    PROVE  /\ \A c \in Classes : \A r \in Mended(c) : r.serial \in Nat /\ (c = IT => TrajectoryRow(r))
           /\ \A s \in Shards : \A r \in rows[s][IT] : \E q \in Mended(IT) :
                 q.serial = r.serial /\ q.nend = r.nend /\ (r.validated => q.validated)
<1>1. \A c \in Classes : \A r \in All(c) : r.serial \in Nat /\ (c = IT => TrajectoryRow(r))
  BY DEF RowsTyped, All
<1>2. ASSUME NEW r, TrajectoryRow(r)
      PROVE  Revalidated(r) = Flag(r)
  <2>1. (r.nend = NULL \/ r.values # <<>>) = TRUE
    BY <1>2 DEF TrajectoryRow
  <2> QED BY <2>1 DEF Revalidated, Flag
<1>3. ASSUME NEW r, TrajectoryRow(r)
      PROVE  /\ TrajectoryRow(Revalidated(r)) /\ Revalidated(r).serial = r.serial
             /\ Revalidated(r).nend = r.nend /\ Revalidated(r).validated
  BY <1>2, <1>3, FlagFacts
<1>4. \A c \in Classes : \A r \in Mended(c) : r.serial \in Nat /\ (c = IT => TrajectoryRow(r))
  <2> SUFFICES ASSUME NEW c \in Classes, NEW r \in All(c)
               PROVE  LET q == IF c = IT /\ Torn(r) THEN Revalidated(r) ELSE r IN
                      q.serial \in Nat /\ (c = IT => TrajectoryRow(q))
    BY DEF Mended
  <2> QED BY <1>1, <1>3
<1>5. ASSUME NEW s \in Shards, NEW r \in rows[s][IT]
      PROVE  \E q \in Mended(IT) :
                q.serial = r.serial /\ q.nend = r.nend /\ (r.validated => q.validated)
  <2>1. r \in All(IT) /\ IT \in Classes
    BY Names0 DEF All
  <2>2. TrajectoryRow(r)
    BY <1>1, <2>1
  <2> DEFINE q == IF Torn(r) THEN Revalidated(r) ELSE r
  <2>3. q \in Mended(IT)
    BY <2>1 DEF Mended
  <2>4. q.serial = r.serial /\ q.nend = r.nend /\ (r.validated => q.validated)
    BY <1>3, <2>2
  <2> QED BY <2>3, <2>4
<1> QED BY <1>4, <1>5

LEMMA OpenStep ==
    ASSUME Inv, Open
    PROVE  Inv'
<1>1. PICK prune \in BOOLEAN, drop \in DropRequests :
         /\ MayDrop(drop) /\ rows' = Opened(prune, Tables(drop))
         /\ results' = IF "FullInstanton" \in Tables(drop) THEN {} ELSE results
  BY DEF Open
<1> DEFINE Rows(c) == Left(c, prune, Tables(drop))
<1>2. rows' = [s \in Shards |-> [c \in Classes |-> Rows(c)]]
  BY <1>1, OpenedIsLeft
<1>3. \A s \in Shards, c \in Classes : rows'[s][c] = Rows(c)
  BY <1>2
<1>4. /\ \A c \in Classes : \A r \in Mended(c) : r.serial \in Nat /\ (c = IT => TrajectoryRow(r))
      /\ \A s \in Shards : \A r \in rows[s][IT] : \E q \in Mended(IT) :
            q.serial = r.serial /\ q.nend = r.nend /\ (r.validated => q.validated)
  BY MendedFacts DEF Inv, Typed
<1>5. \A c \in Classes : \A r \in Rows(c) : r.serial \in Nat /\ (c = IT => TrajectoryRow(r))
  BY <1>4 DEF Left
<1>6. /\ flight' = [w \in Writers |-> NoWrite] /\ \A w \in Writers : ~InFlight(w)'
      /\ phase' = "startup" /\ got' = <<>> /\ next' = next
      /\ work' = [m \in Models |-> NewWork]
  <2>1. flight' = [w \in Writers |-> NoWrite]
    BY DEF Open
  <2>2. \A w \in Writers : flight'[w].op = "none"
    BY <2>1 DEF NoWrite
  <2> QED BY <2>1, <2>2 DEF Open, InFlight
<1>7. Typed'
  <2>1. FlightsTyped'
    BY <1>6 DEF FlightsTyped
  <2>2. WorkTyped'
    <3>1. \A m \in Models : work'[m] = [stage |-> "lookup", verdict |-> NULL,
                                        minted |-> <<>>, serial |-> NULL]
      BY <1>6 DEF NewWork
    <3>2. \A m \in Models :
             /\ work'[m].stage = "lookup" /\ work'[m].minted = <<>>
             /\ work'[m].verdict = NULL /\ work'[m].serial = NULL
      BY <3>1
    <3>3. work' = [m \in Models |-> work'[m]]
      BY <1>6
    <3>4. <<>> \in Seq(Nat) /\ "lookup" \in WorkStages
      BY DEF WorkStages
    <3>5. \A m \in Models :
             /\ work'[m] = [stage |-> work'[m].stage, verdict |-> work'[m].verdict,
                            minted |-> work'[m].minted, serial |-> work'[m].serial]
             /\ work'[m].stage \in WorkStages /\ work'[m].minted \in Seq(Nat)
             /\ work'[m].stage # "validate"
      BY <3>1, <3>2, <3>4
    <3> QED BY <3>3, <3>5 DEF WorkTyped
  <2>3. RowsTyped'
    <3>1. rows' = [s \in Shards |-> [c \in Classes |-> rows'[s][c]]]
      BY <1>2, <1>3
    <3> QED BY <3>1, <1>3, <1>5 DEF RowsTyped, TrajectoryRow
  <2> QED BY <2>1, <2>2, <2>3, <1>6 DEF Inv, Typed
<1>8. \A m \in Models : work'[m].stage = "lookup" /\ ~InFlight(m)'
  BY <1>6, Names0 DEF NewWork
<1>9. DriverWrites' /\ ModelWrites' /\ SerialsApart' /\ WorkShown'
  BY <1>6, <1>8, Names0 DEF DriverWrites, ModelWrites, ModelFlights, SerialsApart, Holds, WorkShown, ModelShown
<1>10. SettledAgree'
  <2>1. \A w \in Writers, s \in Shards : \A c, x : ~Inserts(w, s, c)' /\ ~Validates(w, s, x)'
    BY <1>6 DEF Inserts, Validates
  <2>2. \A s \in Shards : \A c, r : Finish(s, c, r)' = r
    BY <2>1 DEF Finish
  <2>3. ASSUME NEW s \in Shards, NEW c \in Classes
        PROVE  Settled(s, c)' = Rows(c)
    <3> HIDE DEF Rows
    <3> QED BY <1>3, <2>1, <2>2 DEF Settled
  <2> QED BY <2>3 DEF SettledAgree
<1>11. ResultsShown'
  <2> SUFFICES ASSUME NEW x \in results', NEW s \in Shards
               PROVE  \E r \in rows'[s][IT] : r.serial = x /\ r.validated /\ r.nend # NULL
    BY DEF ResultsShown, Trajectories, IT
  <2>1. x \in results /\ "FullInstanton" \notin Tables(drop)
    BY <1>1
  <2>2. IT \notin Tables(drop)
    <3>1. drop \in SUBSET DOMAIN DropGroups
      BY RunParameters
    <3>2. <<"FullInstanton", IT>> \in Names
      BY DEF Names, IT
    <3> DEFINE n == <<"FullInstanton", IT>>
    <3>3. n[2] \in Tables(drop) => n[1] \in Tables(drop)
      BY <3>1, <3>2, <1>1, DropsFollowNames DEF MayDrop
    <3>4. n[1] = "FullInstanton" /\ n[2] = IT
      OBVIOUS
    <3> HIDE DEF n
    <3> QED BY <3>3, <3>4, <2>1
  <2>3. PICK r \in rows[s][IT] : r.serial = x /\ r.validated /\ r.nend # NULL
    BY <2>1 DEF Inv, ResultsShown, Trajectories, IT
  <2>4. PICK q \in Mended(IT) : q.serial = x /\ q.nend # NULL /\ q.validated
    BY <2>3, <1>4
  <2>5. q \in Rows(IT)
    BY <2>2, <2>4 DEF Left
  <2>6. rows'[s][IT] = Rows(IT)
    BY <1>3, Names0
  <2> QED BY <2>4, <2>5, <2>6
<1> QED BY <1>7, <1>9, <1>10, <1>11 DEF Inv

-----------------------------------------------------------------------------
(***************************************************************************)
(* The invariant is kept by every step.                                    *)
(***************************************************************************)
\* With nothing in progress, what the tables are to hold is what they hold
LEMMA NothingInProgress ==
    ASSUME RowsTyped, SettledAgree, \A w \in Writers : ~InFlight(w),
           NEW s \in Shards, NEW t \in Shards
    PROVE  rows[s] = rows[t]
<1>1. \A c \in Classes : Settled(s, c) = rows[s][c] /\ Settled(t, c) = rows[t][c]
  <2>1. \A w \in Writers, u \in Shards : \A c, x : ~Inserts(w, u, c) /\ ~Validates(w, u, x)
    BY DEF Inserts, Validates
  <2>2. \A u \in Shards : \A c, r : Finish(u, c, r) = r
    BY <2>1 DEF Finish
  <2> QED BY <2>1, <2>2 DEF Settled
<1>2. \A c \in Classes : rows[s][c] = rows[t][c]
  BY <1>1 DEF SettledAgree
<1>3. /\ rows[s] = [c \in Classes |-> rows[s][c]]
      /\ rows[t] = [c \in Classes |-> rows[t][c]]
  BY DEF RowsTyped
<1> QED BY <1>2, <1>3

LEMMA DeliveredMoved ==
    ASSUME NEW m, Delivered(m)
    PROVE  Moved(m)
BY DEF Delivered, Moved

LEMMA InitInv ==
    ASSUME Init
    PROVE  Inv
<1>1. /\ rows = [s \in Shards |-> [c \in Classes |-> {}]] /\ results = {}
      /\ flight = [w \in Writers |-> NoWrite] /\ next = [c \in Classes |-> 1]
      /\ phase = "closed" /\ got = <<>> /\ work = [m \in Models |-> NewWork]
  BY DEF Init
<1>2. \A w \in Writers : ~InFlight(w)
  BY <1>1 DEF InFlight, NoWrite
<1>3. \A s \in Shards, c \in Classes : rows[s][c] = {}
  BY <1>1
<1>4. \A m \in Models :
         /\ work[m] = [stage |-> "lookup", verdict |-> NULL, minted |-> <<>>, serial |-> NULL]
         /\ work[m].stage = "lookup" /\ work[m].minted = <<>>
         /\ work[m].verdict = NULL /\ work[m].serial = NULL
  BY <1>1 DEF NewWork
<1>5. Typed
  <2>1. next \in [Classes -> Nat] /\ got \in Seq(Nat)
    BY <1>1
  <2>2. FlightsTyped
    BY <1>1, <1>2 DEF FlightsTyped
  <2>3. <<>> \in Seq(Nat) /\ "lookup" \in WorkStages
    BY DEF WorkStages
  <2>4. \A m \in Models :
           /\ work[m] = [stage |-> work[m].stage, verdict |-> work[m].verdict,
                         minted |-> work[m].minted, serial |-> work[m].serial]
           /\ work[m].stage \in WorkStages /\ work[m].minted \in Seq(Nat)
           /\ work[m].stage # "validate"
    BY <1>4, <2>3
  <2>5. work = [m \in Models |-> work[m]]
    BY <1>1
  <2>6. WorkTyped
    BY <2>4, <2>5 DEF WorkTyped
  <2>7. rows = [s \in Shards |-> [c \in Classes |-> rows[s][c]]]
    BY <1>1, <1>3
  <2>8. RowsTyped
    BY <2>7, <1>3 DEF RowsTyped
  <2> QED BY <2>1, <2>2, <2>6, <2>8 DEF Typed
<1>6. DriverWrites /\ ModelWrites /\ SerialsApart /\ WorkShown /\ ResultsShown
  BY <1>1, <1>2, <1>4, Names0
     DEF DriverWrites, ModelWrites, ModelFlights, SerialsApart, Holds, WorkShown, ModelShown,
         ResultsShown, IsOpen
<1>7. SettledAgree
  <2>1. \A s \in Shards, c \in Classes : Settled(s, c) = {}
    BY <1>2, <1>3 DEF Settled, Inserts
  <2> QED BY <2>1 DEF SettledAgree
<1> QED BY <1>5, <1>6, <1>7 DEF Inv

LEMMA DeliverStep ==
    ASSUME Inv, LookUp \/ TokenWritten
    PROVE  Inv'
<1>1. /\ UNCHANGED <<rows, next, results>> /\ FlightsTyped' /\ SettledAgree'
      /\ ~InFlight("driver")' /\ \A m \in Models : flight'[m] = flight[m]
  <2>1. CASE LookUp
    BY <2>1, QuietFlights DEF LookUp, InFlight
  <2>2. CASE TokenWritten
    <3>1. /\ UNCHANGED <<rows, next, results>> /\ flight["driver"].left = {}
          /\ flight' = [flight EXCEPT !["driver"] = NoWrite]
      BY <2>2 DEF TokenWritten
    <3> QED BY <3>1, LandedFlights, Names0
  <2> QED BY <2>1, <2>2
<1>2. CASE UNCHANGED <<got, work>> /\ phase' = "raised"
  <2>1. got' \in Seq(Nat) /\ WorkTyped' /\ \A m \in Models : Moved(m)
    BY <1>1, <1>2 DEF Inv, Typed, WorkTyped, Moved
  <2> QED BY <2>1, <1>1, <1>2, QuietStep DEF Inv, DriverWrites, ModelWrites
<1>3. ASSUME NEW x \in Nat, Deliver(x), phase = "startup" \/ (phase = "stage1" /\ Minting # {}),
             phase' = phase
      PROVE  Inv'
  <2>1. next' \in [Classes -> Nat] /\ next'[IT] = next[IT]
    BY <1>1 DEF Inv, Typed
  <2>2. got' \in Seq(Nat) /\ WorkTyped' /\ \A m \in Models : Delivered(m)
    BY <2>1, <1>3, DeliverFacts DEF Inv
  <2>3. \A m \in Models : Moved(m)
    BY <2>2, DeliveredMoved
  <2> QED BY <2>2, <2>3, <1>1, <1>3, QuietStep DEF Inv, DriverWrites, ModelWrites
<1>4. CASE LookUp
  <2>1. PICK s \in Shards :
           LET table == rows[s][Wanted.cls]
               hits == Hits(table, Wanted.cls, Wanted.key)
           IN  IF Refuses(table, Wanted.cls, Wanted.key)
               THEN phase' = "raised" /\ UNCHANGED <<got, work>>
               ELSE (\E r \in hits : Deliver(r.serial)) /\ UNCHANGED phase
    BY <1>4 DEF LookUp
  <2>2. Wanted.cls \in Classes /\ (phase = "startup" \/ (phase = "stage1" /\ Minting # {}))
    BY <1>4, WantedFacts DEF LookUp, Inv
  <2>3. CASE phase' = "raised" /\ UNCHANGED <<got, work>>
    BY <2>3, <1>2
  <2>4. ASSUME NEW r \in Hits(rows[s][Wanted.cls], Wanted.cls, Wanted.key), Deliver(r.serial),
               UNCHANGED phase
        PROVE  Inv'
    <3>1. r \in rows[s][Wanted.cls]
      BY DEF Hits
    <3>2. r.serial \in Nat
      BY <3>1, <2>2 DEF Inv, Typed, RowsTyped
    <3> QED BY <3>2, <2>2, <2>4, <1>3
  <2> QED BY <2>1, <2>3, <2>4
<1>5. CASE TokenWritten
  <2>1. /\ InFlight("driver") /\ IsOpen /\ Deliver(flight["driver"].row.serial) /\ phase' = phase
    BY <1>5 DEF TokenWritten
  <2>2. flight["driver"].row.serial \in Nat
    BY <2>1, Names0 DEF Inv, Typed, FlightsTyped, WriteTyped
  <2>3. phase = "startup" \/ (phase = "stage1" /\ Minting # {})
    BY <2>1 DEF Inv, DriverWrites
  <2> QED BY <2>1, <2>2, <2>3, <1>3
<1> QED BY <1>4, <1>5

LEMMA MintStep ==
    ASSUME Inv, Mint
    PROVE  Inv'
<1> DEFINE cls == Wanted.cls
           row == [serial |-> next[cls], key |-> Written(cls, Wanted.key)]
<1>1. /\ cls \in Classes /\ cls # IT
      /\ \/ phase = "startup" /\ Len(got) < Len(Startup)
         \/ phase = "stage1" /\ Minting # {}
  BY WantedFacts DEF Mint, Inv
<1>2. PICK s \in Shards : Begins("driver", s, cls, row)
  BY DEF Mint, Begins
<1>3. /\ Typed' /\ ModelFlights' /\ SerialsApart' /\ SettledAgree' /\ WorkShown'
      /\ ResultsShown'
  <2> HIDE DEF cls, row
  <2>1. \A c \in Classes : \A q : c = cls /\ q = row => Begins("driver", s, c, q)
    BY <1>2
  <2>2. \A c \in Classes : \A q : c = cls /\ q = row =>
           /\ Typed' /\ ModelFlights' /\ SerialsApart' /\ SettledAgree' /\ WorkShown'
           /\ ResultsShown'
    BY <2>1, <1>1, Names0, BeginStep
  <2> QED BY <2>2, <1>1
<1>4. DriverWrites' /\ ModelWrites'
  <2>1. UNCHANGED <<phase, got, work>>
    BY DEF Mint
  <2> QED BY <2>1, <1>1, <1>3 DEF DriverWrites, ModelWrites, Minting, Inv
<1> QED BY <1>3, <1>4 DEF Inv

LEMMA PersistStep ==
    ASSUME Inv, NEW m \in Models, Persist(m)
    PROVE  Inv'
<1>1. /\ phase = "stage1" /\ work[m].stage = "persist" /\ ~InFlight(m)
      /\ UNCHANGED <<results, got, work>> /\ m \in Writers /\ m # "driver" /\ IT \in Classes
  BY Names0 DEF Persist
<1>2. CASE phase' = "raised" /\ UNCHANGED <<rows, next, flight>>
  <2>1. FlightsTyped' /\ SettledAgree'
    BY <1>2, QuietFlights
  <2>2. got' \in Seq(Nat) /\ WorkTyped' /\ \A n \in Models : Moved(n)
    BY <1>1, <1>2 DEF Inv, Typed, WorkTyped, Moved
  <2>3. /\ Typed' /\ ModelFlights' /\ SerialsApart' /\ SettledAgree' /\ WorkShown'
        /\ ResultsShown'
    BY <2>1, <2>2, <1>1, <1>2, QuietStep
  <2> QED BY <2>3, <1>2 DEF Inv, DriverWrites, ModelWrites, IsOpen
<1>3. CASE phase' = phase /\ \E s \in Shards : Begins(m, s, IT, NewTrajectory(m))
  <2>1. PICK s \in Shards : Begins(m, s, IT, NewTrajectory(m))
    BY <1>3
  <2> DEFINE row == NewTrajectory(m)
  <2>2. TrajectoryRow(row) /\ row.nend = work[m].verdict
    <3>1. ModelShown(m)
      BY DEF Inv, WorkShown
    <3>2. row = [serial |-> row.serial, key |-> row.key, nend |-> row.nend, values |-> row.values,
                 expected |-> row.expected, validated |-> row.validated]
      BY DEF NewTrajectory
    <3>3. /\ row.nend = work[m].verdict /\ row.values = work[m].minted
          /\ work[m].verdict # NULL => row.expected = Len(SampleGrid(work[m].verdict))
      BY DEF NewTrajectory
    <3> HIDE DEF row
    <3> QED BY <3>1, <3>2, <3>3, <1>1 DEF ModelShown, TrajectoryRow
  <2>3. /\ Typed' /\ ModelFlights' /\ SerialsApart' /\ SettledAgree' /\ WorkShown'
        /\ ResultsShown'
    <3> HIDE DEF row
    <3>1. \A q : q = row => Begins(m, s, IT, q)
      BY <2>1 DEF row
    <3>2. \A q : q = row => /\ Typed' /\ ModelFlights' /\ SerialsApart' /\ SettledAgree'
                            /\ WorkShown' /\ ResultsShown'
      BY <3>1, <2>2, <1>1, BeginStep
    <3> QED BY <3>2
  <2>4. InFlight("driver")' => InFlight("driver")
    BY <2>1, <1>1, Names0, OneFlight DEF Begins, Inv, Typed, InFlight
  <2> QED BY <2>3, <2>4, <1>1, <1>3 DEF Inv, DriverWrites, ModelWrites, IsOpen, Minting
<1> QED BY <1>1, <1>2, <1>3 DEF Persist, Begins, NewTrajectory, IT

LEMMA ReplicateStep ==
    ASSUME Inv, NEW w \in Writers, Replicate(w)
    PROVE  Inv'
<1>1. PICK s \in flight[w].left :
         /\ IF flight[w].op = "insert" THEN Insert(s, flight[w].cls, flight[w].row)
            ELSE rows' = [rows EXCEPT ![s][flight[w].cls] = Validated(@, flight[w].row.serial)]
         /\ flight' = [flight EXCEPT ![w].left = @ \ {s}] /\ UNCHANGED phase
  BY DEF Replicate, ReplicaRow
<1>2. InFlight(w) /\ Passes(w, s) /\ UNCHANGED <<got, work>>
  BY <1>1 DEF Replicate, Passes
<1>3. /\ WriteTyped(w) /\ s \in Shards
      /\ \A v \in Writers : InFlight(v)' = InFlight(v)
  BY <1>2, PassFacts
<1>4. /\ Typed' /\ ModelFlights' /\ SerialsApart' /\ SettledAgree' /\ WorkShown'
      /\ ResultsShown'
  <2>1. CASE flight[w].op = "insert"
    <3>1. \A c \in Classes : \A row : c = flight[w].cls /\ row = flight[w].row => Insert(s, c, row)
      BY <2>1, <1>1
    <3>2. \A c \in Classes : \A row : c = flight[w].cls /\ row = flight[w].row =>
             /\ Typed' /\ ModelFlights' /\ SerialsApart' /\ SettledAgree' /\ WorkShown'
             /\ ResultsShown'
      BY <3>1, <2>1, <1>2, <1>3, ReplicaInserts
    <3> QED BY <3>2, <1>3 DEF WriteTyped
  <2>2. CASE flight[w].op # "insert"
    <3>1. flight[w].cls = IT
      BY <2>2, <1>3 DEF WriteTyped
    <3>2. \A x : x = flight[w].row.serial =>
             TableWritten(s, IT, Validated(rows[s][IT], x))
      BY <2>2, <3>1, <1>1, <1>3, Names0 DEF Inv, Typed, RowsTyped, TableWritten
    <3> QED BY <3>2, <2>2, <1>2, ReplicaValidates
  <2> QED BY <2>1, <2>2
<1> QED BY <1>1, <1>2, <1>3, <1>4, Names0 DEF Inv, DriverWrites, ModelWrites, IsOpen, Minting

LEMMA ValidateStep ==
    ASSUME Inv, NEW m \in Models, ValidateStored(m)
    PROVE  Inv'
<1>1. PICK s \in Shards :
         /\ rows' = [rows EXCEPT ![s][IT] = Validated(@, work[m].serial)]
         /\ flight' = [flight EXCEPT ![m] =
               [op |-> "validate", cls |-> IT, row |-> [serial |-> work[m].serial],
                left |-> Shards \ {s}]]
  BY DEF ValidateStored, IT
<1>2. /\ work[m].stage = "validate" /\ ~InFlight(m) /\ UNCHANGED <<results, next, got, work, phase>>
  BY DEF ValidateStored
<1>3. \A x : x = work[m].serial =>
         /\ TableWritten(s, IT, Validated(rows[s][IT], x))
         /\ flight' = [flight EXCEPT ![m] =
               [op |-> "validate", cls |-> IT, row |-> [serial |-> x], left |-> Shards \ {s}]]
  BY <1>1, Names0 DEF Inv, Typed, RowsTyped, TableWritten
<1>4. /\ Typed' /\ ModelFlights' /\ SerialsApart' /\ SettledAgree' /\ WorkShown'
      /\ ResultsShown'
  BY <1>2, <1>3, ValidationBegins
<1>5. InFlight("driver")' => InFlight("driver")
  BY <1>1, Names0 DEF Inv, Typed, FlightsTyped, InFlight
<1> QED BY <1>2, <1>4, <1>5 DEF Inv, DriverWrites, ModelWrites, IsOpen, Minting

LEMMA EndStep ==
    ASSUME Inv, NEW m \in Models, TrajectoryWritten(m)
    PROVE  Inv'
<1>1. /\ Typed' /\ ModelFlights' /\ SerialsApart' /\ SettledAgree' /\ WorkShown'
      /\ ResultsShown' /\ Minting' = Minting
  BY TrajectoryEnds
<1>2. /\ phase = "stage1" /\ UNCHANGED <<phase, got>>
      /\ flight' = [flight EXCEPT ![m] = NoWrite]
  BY DEF TrajectoryWritten
<1>3. InFlight("driver")' => InFlight("driver")
  BY <1>2, Names0 DEF Inv, Typed, FlightsTyped, InFlight
<1> QED BY <1>1, <1>2, <1>3 DEF Inv, DriverWrites, ModelWrites, IsOpen

LEMMA ResolveStep ==
    ASSUME Inv, NEW m \in Models, Resolve(m)
    PROVE  Inv'
<1>1. PICK nend :
         work' = [work EXCEPT ![m].verdict = nend,
                       ![m].stage = IF nend = NULL THEN "persist" ELSE "mint"]
  BY DEF Resolve
<1>2. /\ phase = "stage1" /\ work[m].stage = "compute" /\ Minting = {}
      /\ UNCHANGED <<rows, results, next, flight, phase, got>>
  BY DEF Resolve
<1> DEFINE stage == IF nend = NULL THEN "persist" ELSE "mint"
<1>3. /\ work' = [n \in Models |-> work'[n]]
      /\ work'[m] = [stage |-> stage, verdict |-> nend,
                     minted |-> work[m].minted, serial |-> work[m].serial]
      /\ \A n \in Models : n # m => work'[n] = work[n]
  <2>1. /\ work = [n \in Models |-> work[n]]
        /\ work[m] = [stage |-> work[m].stage, verdict |-> work[m].verdict,
                      minted |-> work[m].minted, serial |-> work[m].serial]
    BY DEF Inv, Typed, WorkTyped
  <2>2. work' = [work EXCEPT ![m].verdict = nend, ![m].stage = stage]
    BY <1>1
  <2> HIDE DEF stage
  <2> QED BY <2>1, <2>2
<1>4. WorkTyped'
  <2>1. stage \in WorkStages /\ stage # "validate" /\ work[m].minted \in Seq(Nat)
    BY DEF WorkStages, Inv, Typed, WorkTyped
  <2>2. ASSUME NEW n \in Models
        PROVE  /\ work'[n] = [stage |-> work'[n].stage, verdict |-> work'[n].verdict,
                              minted |-> work'[n].minted, serial |-> work'[n].serial]
               /\ work'[n].stage \in WorkStages /\ work'[n].minted \in Seq(Nat)
               /\ work'[n].stage = "validate" => /\ work'[n].serial \in Nat
                                                 /\ work'[n].serial < next'[IT]
    <3>1. CASE n = m
      <4> HIDE DEF stage
      <4> QED BY <3>1, <2>1, <1>3
    <3>2. CASE n # m
      BY <3>2, <1>2, <1>3 DEF Inv, Typed, WorkTyped
    <3> QED BY <3>1, <3>2
  <2> QED BY <2>2, <1>3 DEF WorkTyped
<1>5. \A n \in Models : Moved(n)
  BY <1>2, <1>3 DEF Moved
<1>6. FlightsTyped' /\ SettledAgree' /\ got' \in Seq(Nat)
  BY <1>2, QuietFlights DEF Inv, Typed
<1>7. ~InFlight("driver")
  BY <1>2 DEF Inv, DriverWrites, IsOpen
<1> QED BY <1>2, <1>4, <1>5, <1>6, <1>7, QuietStep DEF Inv, DriverWrites, ModelWrites, InFlight

\* The work of a model whose trajectory was found
LEMMA FoundWork ==
    ASSUME NEW r, NEW f, NEW g,
           r = [stage |-> r.stage, verdict |-> r.verdict, minted |-> r.minted, serial |-> r.serial]
    PROVE  [r EXCEPT !.stage = "done", !.serial = f, !.verdict = g]
              = [stage |-> "done", verdict |-> g, minted |-> r.minted, serial |-> f]
<1> DEFINE q == [r EXCEPT !.stage = "done", !.serial = f, !.verdict = g]
<1>1. DOMAIN r = {"stage", "verdict", "minted", "serial"}
  OBVIOUS
<1>2. /\ DOMAIN q = DOMAIN r /\ q.stage = "done" /\ q.serial = f
      /\ q.verdict = g /\ q.minted = r.minted
  BY <1>1
<1>3. q = [x \in DOMAIN r |-> q[x]]
  OBVIOUS
<1> HIDE DEF q
<1>4. q = [stage |-> q.stage, verdict |-> q.verdict, minted |-> q.minted, serial |-> q.serial]
  BY <1>1, <1>2, <1>3
<1> QED BY <1>2, <1>4 DEF q

LEMMA LookupStep ==
    ASSUME Inv, LookupModels
    PROVE  Inv'
<1>1. /\ phase = "stage1" /\ \A m \in Models : work[m].stage = "lookup"
      /\ UNCHANGED <<rows, results, next, flight, got>>
  BY DEF LookupModels
<1>2. \A w \in Writers : ~InFlight(w)
  <2>1. ~InFlight("driver")
    BY <1>1 DEF Inv, DriverWrites, IsOpen, Minting
  <2>2. \A m \in Models : ~InFlight(m)
    BY <1>1 DEF Inv, ModelWrites, ModelFlights
  <2> QED BY <2>1, <2>2, Names0
<1>3. FlightsTyped' /\ SettledAgree' /\ got' \in Seq(Nat)
  BY <1>1, QuietFlights DEF Inv, Typed
<1>4. CASE phase' = "raised" /\ UNCHANGED work
  <2>1. WorkTyped' /\ \A m \in Models : Moved(m)
    BY <1>1, <1>4 DEF Inv, Typed, WorkTyped, Moved
  <2> QED BY <2>1, <1>1, <1>3, <1>4, QuietStep DEF Inv, DriverWrites, ModelWrites, IsOpen
<1>5. ASSUME NEW s \in Shards, UNCHANGED phase,
             work' = [m \in Models |->
                IF Stored(s, m) = {} THEN [work[m] EXCEPT !.stage = "compute"]
                ELSE LET r == CHOOSE x \in Stored(s, m) : TRUE IN
                     [work[m] EXCEPT !.stage = "done", !.serial = r.serial, !.verdict = r.nend]]
      PROVE  Inv'
  <2>1. ASSUME NEW m \in Models
        PROVE  \/ work'[m] = [stage |-> "compute", verdict |-> work[m].verdict,
                              minted |-> work[m].minted, serial |-> work[m].serial]
               \/ \E r \in Stored(s, m) :
                     work'[m] = [stage |-> "done", verdict |-> r.nend,
                                 minted |-> work[m].minted, serial |-> r.serial]
    <3>1. work[m] = [stage |-> work[m].stage, verdict |-> work[m].verdict,
                     minted |-> work[m].minted, serial |-> work[m].serial]
      BY DEF Inv, Typed, WorkTyped
    <3>2. [work[m] EXCEPT !.stage = "compute"]
             = [stage |-> "compute", verdict |-> work[m].verdict,
                minted |-> work[m].minted, serial |-> work[m].serial]
      BY <3>1
    <3>3. ASSUME NEW f, NEW g
          PROVE  [work[m] EXCEPT !.stage = "done", !.serial = f, !.verdict = g]
                    = [stage |-> "done", verdict |-> g, minted |-> work[m].minted, serial |-> f]
      BY <3>1, FoundWork
    <3>4. CASE Stored(s, m) = {}
      BY <3>2, <3>4, <1>5
    <3>5. CASE Stored(s, m) # {}
      <4> DEFINE r == CHOOSE x \in Stored(s, m) : TRUE
      <4>1. r \in Stored(s, m)
        BY <3>5
      <4>2. work'[m] = [work[m] EXCEPT !.stage = "done", !.serial = r.serial, !.verdict = r.nend]
        BY <3>5, <1>5
      <4> HIDE DEF r
      <4> QED BY <4>1, <4>2, <3>3
    <3> QED BY <3>4, <3>5
  <2>2. WorkTyped'
    <3>1. \A m \in Models : work[m].minted \in Seq(Nat)
      BY DEF Inv, Typed, WorkTyped
    <3>2. ASSUME NEW m \in Models
          PROVE  /\ work'[m] = [stage |-> work'[m].stage, verdict |-> work'[m].verdict,
                                minted |-> work'[m].minted, serial |-> work'[m].serial]
                 /\ work'[m].stage \in WorkStages /\ work'[m].minted \in Seq(Nat)
                 /\ work'[m].stage # "validate"
      <4>1. "compute" \in WorkStages /\ "done" \in WorkStages
        BY DEF WorkStages
      <4>2. CASE work'[m] = [stage |-> "compute", verdict |-> work[m].verdict,
                             minted |-> work[m].minted, serial |-> work[m].serial]
        BY <4>1, <4>2, <3>1
      <4>3. ASSUME NEW r,
                   work'[m] = [stage |-> "done", verdict |-> r.nend,
                               minted |-> work[m].minted, serial |-> r.serial]
            PROVE  /\ work'[m] = [stage |-> work'[m].stage, verdict |-> work'[m].verdict,
                                  minted |-> work'[m].minted, serial |-> work'[m].serial]
                   /\ work'[m].stage \in WorkStages /\ work'[m].minted \in Seq(Nat)
                   /\ work'[m].stage # "validate"
        BY <4>1, <4>3, <3>1
      <4> QED BY <4>2, <4>3, <2>1
    <3>3. work' = [m \in Models |-> work'[m]]
      BY <1>5
    <3> QED BY <3>2, <3>3 DEF WorkTyped
  <2>3. ASSUME NEW m \in Models
        PROVE  Moved(m)
    <3>1. CASE work'[m].stage = "compute"
      BY <3>1, <1>1 DEF Moved
    <3>2. ASSUME NEW r \in Stored(s, m),
                 work'[m] = [stage |-> "done", verdict |-> r.nend,
                             minted |-> work[m].minted, serial |-> r.serial]
          PROVE  Moved(m)
      <4>1. r \in Trajectories(s) /\ r.validated
        BY DEF Stored
      <4>2. \A t \in Shards : rows[t] = rows[s]
        BY <1>2, NothingInProgress DEF Inv, Typed
      <4>3. \A t \in Shards : r \in Trajectories(t)
        BY <4>1, <4>2 DEF Trajectories
      <4>4. \A t \in Shards : Valid(t, r.serial, r.nend)
        BY <4>1, <4>3 DEF Valid
      <4>5. \A t \in Shards : Valid(t, work'[m].serial, work'[m].verdict)
        BY <4>4, <3>2
      <4>6. work'[m].stage = "done"
        BY <3>2
      <4> QED BY <4>5, <4>6, <1>1 DEF Moved
    <3>3. CASE work'[m] = [stage |-> "compute", verdict |-> work[m].verdict,
                           minted |-> work[m].minted, serial |-> work[m].serial]
      <4>1. work'[m].stage = "compute"
        BY <3>3
      <4> QED BY <4>1, <3>1
    <3> QED BY <2>1, <3>2, <3>3
  <2>4. /\ Typed' /\ ModelFlights' /\ SerialsApart' /\ SettledAgree' /\ WorkShown'
        /\ ResultsShown'
    BY <2>2, <2>3, <1>1, <1>3, QuietStep
  <2>5. ~InFlight("driver")'
    BY <1>1, <1>2, Names0 DEF InFlight
  <2> QED BY <2>4, <2>5, <1>1, <1>5 DEF Inv, DriverWrites, ModelWrites
<1> QED BY <1>4, <1>5 DEF LookupModels

LEMMA RunBranchesStep ==
    ASSUME Inv, RunBranches
    PROVE  Inv'
<1>1. /\ phase = "handed" /\ phase' \in {"finished", "raised"}
      /\ UNCHANGED <<rows, next, flight, got, work>>
      /\ \A x \in results' : x \in results \/
            \E m \in Models : work[m].verdict # NULL /\ x = work[m].serial
  BY DEF RunBranches
<1>2. FlightsTyped' /\ SettledAgree' /\ got' \in Seq(Nat)
  BY <1>1, QuietFlights DEF Inv, Typed
<1>3. WorkTyped' /\ \A m \in Models : Moved(m)
  BY <1>1 DEF Inv, Typed, WorkTyped, Moved
<1>4. Typed' /\ ModelFlights' /\ SerialsApart' /\ SettledAgree' /\ WorkShown'
  BY <1>1, <1>2, <1>3, QuietStep
<1>5. ResultsShown'
  <2>1. \A m \in Models : \A s \in Shards : Valid(s, work[m].serial, work[m].verdict)
    BY <1>1 DEF Inv, ModelWrites, ModelFlights, WorkShown, ModelShown
  <2>2. \A x \in results' : \A s \in Shards :
           \E r \in Trajectories(s) : r.serial = x /\ r.validated /\ r.nend # NULL
    BY <2>1, <1>1 DEF Inv, ResultsShown, Valid
  <2> QED BY <2>2, <1>1 DEF ResultsShown, Trajectories
<1> QED BY <1>1, <1>4, <1>5 DEF Inv, DriverWrites, ModelWrites, IsOpen

LEMMA PhaseStep ==
    ASSUME Inv, StartStage1 \/ HandOver \/ Kill \/ UNCHANGED vars
    PROVE  Inv'
<1>1. UNCHANGED <<rows, results, next, flight, got, work>>
  BY DEF StartStage1, HandOver, Kill, vars
<1>2. FlightsTyped' /\ SettledAgree' /\ got' \in Seq(Nat)
  BY <1>1, QuietFlights DEF Inv, Typed
<1>3. WorkTyped' /\ \A m \in Models : Moved(m)
  BY <1>1 DEF Inv, Typed, WorkTyped, Moved
<1>4. /\ Typed' /\ ModelFlights' /\ SerialsApart' /\ SettledAgree' /\ WorkShown'
      /\ ResultsShown'
  BY <1>1, <1>2, <1>3, QuietStep
<1>5. InFlight("driver")' = InFlight("driver") /\ Minting' = Minting
  BY <1>1 DEF InFlight, Minting
<1>6. DriverWrites' /\ ModelWrites'
  <2>1. CASE StartStage1
    <3>1. phase = "startup" /\ Len(got) = Len(Startup) /\ phase' = "stage1"
      BY <2>1 DEF StartStage1
    <3>2. ~InFlight("driver")
      BY <3>1, RunParameters DEF Inv, DriverWrites, IsOpen
    <3> QED BY <3>1, <3>2, <1>4, <1>5 DEF DriverWrites, ModelWrites
  <2>2. CASE HandOver
    <3>1. phase = "stage1" /\ (\A m \in Models : work[m].stage = "done") /\ phase' \in {"finished", "handed"}
      BY <2>2 DEF HandOver
    <3>2. ~InFlight("driver")
      BY <3>1 DEF Inv, DriverWrites, IsOpen, Minting
    <3> QED BY <3>1, <3>2, <1>1, <1>4, <1>5 DEF DriverWrites, ModelWrites
  <2>3. CASE Kill
    BY <2>3, <1>4 DEF Kill, DriverWrites, ModelWrites, IsOpen
  <2>4. CASE UNCHANGED vars
    BY <2>4, <1>1, <1>4, <1>5 DEF Inv, vars, DriverWrites, ModelWrites, IsOpen
  <2> QED BY <2>1, <2>2, <2>3, <2>4
<1> QED BY <1>4, <1>6 DEF Inv

LEMMA InvKept ==
    ASSUME Inv, [Next]_vars
    PROVE  Inv'
<1>1. CASE LookUp \/ TokenWritten
  BY <1>1, DeliverStep
<1>2. CASE Mint
  BY <1>2, MintStep
<1>3. CASE LookupModels
  BY <1>3, LookupStep
<1>4. CASE RunBranches
  BY <1>4, RunBranchesStep
<1>5. CASE \E w \in Writers : Replicate(w)
  BY <1>5, ReplicateStep
<1>6. CASE \E m \in Models : Resolve(m) \/ Persist(m) \/ TrajectoryWritten(m) \/ ValidateStored(m)
  BY <1>6, ResolveStep, PersistStep, EndStep, ValidateStep
<1>7. CASE Open
  BY <1>7, OpenStep
<1>8. CASE StartStage1 \/ HandOver \/ Kill \/ UNCHANGED vars
  BY <1>8, PhaseStep
<1> QED BY <1>1, <1>2, <1>3, <1>4, <1>5, <1>6, <1>7, <1>8 DEF Next, Progress

LEMMA InvAlways == Spec => []Inv
BY InitInv, InvKept, PTL DEF Spec

-----------------------------------------------------------------------------
\* While nothing is being written, all shards of an open store hold the same
\* replicated rows, after any number of kills and repairs and whatever the
\* numbers: what each table holds and what is on its way to it are together the
\* same on every shard at all times, which every step of a replicated write
\* keeps and which is agreement when nothing is on its way.
THEOREM ShardsAlwaysAgree == Spec => []ReplicasAgree
<1>1. Inv => ReplicasAgree
  BY NothingInProgress DEF Inv, Typed, ReplicasAgree
<1> QED BY <1>1, InvAlways, PTL

\* Every trajectory a stored result names stands on every shard, validated and
\* not failed, in every run that follows: a trajectory that was looked up or
\* written is validated on all shards before the branches get it, the repair
\* after a kill takes no flag from a trajectory that has its values, and a drop
\* of the trajectories is refused unless what names them goes too.
THEOREM ResultsAlwaysStand == Spec => []ResultsStand
<1>1. Inv => ResultsStand
  BY DEF Inv, ResultsShown, ResultsStand
<1> QED BY <1>1, InvAlways, PTL

-----------------------------------------------------------------------------
(***************************************************************************)
(* Numbers and their tokens.                                               *)
(***************************************************************************)
LEMMA TokenClasses ==
    /\ \A c \in Tokens : c \in Classes /\ c # IT /\ c \notin FirstRowOf
    /\ "efold_value" \in Tokens /\ "efold_value" \notin DOMAIN MadeOf
    /\ Measured \cap Classes \subseteq Tokens
    /\ \A c \in Measured : c \notin DOMAIN MadeOf
<1>1. \A c \in Measured : c # IT /\ c \notin FirstRowOf
  BY DEF Measured, Rounded, FirstRowOf, IT
<1>2. DOMAIN MadeOf = {"QuadraticPotential", "QuarticPotential"}
  BY DEF MadeOf
<1>3. \A c \in Measured : c # "QuadraticPotential" /\ c # "QuarticPotential"
  BY DEF Measured, Rounded
<1>4. "efold_value" \in Measured /\ "efold_value" \in Classes
  BY Names0 DEF Measured
<1> QED BY <1>1, <1>2, <1>3, <1>4 DEF Tokens

LEMMA MeasuredFacts ==
    ASSUME NEW c \in Classes \cap Measured, NEW x \in Asked(c), NEW y \in Asked(c)
    PROVE  /\ x \in Int /\ Precision(c) \in Nat
           /\ Abs(x - y) <= Spread <=> x = y \/ Abs(x - y) * Precision(c) < Abs(y)
           /\ \A z \in Asked(c) :
                 Abs(x - y) <= Spread /\ Abs(y - z) <= Spread => Abs(x - z) <= Spread
BY NumbersApart DEF Precision, Measured

LEMMA NearIsSame ==
    ASSUME NEW c \in Classes \cap Measured, NEW x \in Asked(c), NEW y \in Asked(c)
    PROVE  Near(Precision(c), x, y) <=> Same(c, x, y)
<1>1. /\ x \in Int /\ y \in Int /\ Precision(c) \in Nat
      /\ Abs(x - y) <= Spread <=> x = y \/ Abs(x - y) * Precision(c) < Abs(y)
  BY MeasuredFacts
<1>2. Same(c, x, y) <=> Abs(x - y) <= Spread
  BY DEF Same
<1>3. \A a, n \in Nat : a * n >= 0
  OBVIOUS
<1>4. CASE y = 0
  <2>1. Abs(x - y) * Precision(c) >= 0 /\ Abs(y) = 0
    BY <1>1, <1>3, <1>4 DEF Abs
  <2>2. Abs(x - y) * Precision(c) \in Int
    BY <1>1 DEF Abs
  <2> QED BY <2>1, <2>2, <1>1, <1>2, <1>4 DEF Near
<1>5. CASE y # 0
  <2>1. x = y => Abs(x - y) = 0 /\ Abs(y) > 0
    BY <1>1, <1>5 DEF Abs
  <2>2. Abs(x - y) = 0 => Abs(x - y) * Precision(c) = 0
    BY <1>1
  <2> QED BY <2>1, <2>2, <1>1, <1>2, <1>5 DEF Near
<1> QED BY <1>4, <1>5

\* A stored number answers for exactly the numbers it stands for
LEMMA AnswersIsSame ==
    ASSUME NEW c \in Tokens, NEW x \in KeysOf(c), NEW y \in KeysOf(c)
    PROVE  Answers(c, x, y) <=> Same(c, x, y)
<1>0. c \in Classes /\ c # IT /\ c \notin FirstRowOf
  BY TokenClasses
<1>1. CASE c \in Measured
  <2>1. c \notin DOMAIN MadeOf
    BY <1>1, TokenClasses
  <2>2. x \in Asked(c) /\ y \in Asked(c)
    BY <2>1 DEF KeysOf
  <2>3. Near(Precision(c), x, y) <=> Same(c, x, y)
    BY <1>0, <1>1, <2>2, NearIsSame
  <2>4. Answers(c, x, y) <=> Near(Precision(c), x, y)
    BY <1>1
       DEF Measured, Rounded, Precision, Answers, efold_value, N_init, N_final, delta_Nstar,
           DimensionfulQuantity, DimensionlessQuantity
  <2> QED BY <2>3, <2>4
<1>2. CASE c \in DOMAIN MadeOf
  BY <1>2 DEF MadeOf, Same, Measured, Rounded, Answers, QuadraticPotential, QuarticPotential
<1>3. CASE c \notin Measured /\ c \notin DOMAIN MadeOf
  <2>1. Same(c, x, y) <=> x = y
    BY <1>3 DEF Same
  <2>2. /\ x \in UNION {Numbers(i) : i \in {j \in DOMAIN Startup : Startup[j].cls = c}}
        /\ y \in UNION {Numbers(i) : i \in {j \in DOMAIN Startup : Startup[j].cls = c}}
    BY <1>3 DEF KeysOf, Asked, Measured
  <2>3. PICK i \in DOMAIN Startup : Startup[i].cls = c /\ x \in Numbers(i)
    BY <2>2
  <2>4. PICK j \in DOMAIN Startup : Startup[j].cls = c /\ y \in Numbers(j)
    BY <2>2
  <2>5. x = Startup[i].key /\ y = Startup[j].key
    BY <1>3, <2>3, <2>4 DEF Numbers, Measured
  <2>6. Answers(c, x, x)
    <3>1. c \in {"tolerance", "n_collocation_points", "CosmologicalParams", "alpha_regularization",
                 "MasslessDecoupledDiffusion"}
      <4>1. c \in Replicated /\ c # "InflatonTrajectoryValue"
        BY <1>0, <2>3, ModelsApart, RunParameters
      <4>2. c \notin {"QuadraticPotential", "QuarticPotential"}
        BY <1>3 DEF MadeOf
      <4> QED BY <4>1, <4>2, <1>0, <1>3 DEF Replicated, Measured, Rounded, FirstRowOf, IT
    <3>2. CASE c = "alpha_regularization"
      <4>1. x \in Int
        BY <2>3, <2>5, <3>2, RunParameters
      <4>2. EfoldRel \in Nat /\ Abs(x - x) = 0 /\ (x # 0 => Abs(x) > 0)
        BY <4>1, NumbersApart DEF Abs
      <4>3. Near(EfoldRel, x, x)
        BY <4>1, <4>2 DEF Near
      <4> QED BY <3>2, <4>3 DEF Answers, alpha_regularization
    <3>3. CASE c # "alpha_regularization"
      BY <3>1, <3>3
         DEF Answers, tolerance, n_collocation_points, CosmologicalParams, MasslessDecoupledDiffusion
    <3> QED BY <3>2, <3>3
  <2>7. CASE i # j
    <3>1. ~Answers(c, x, y)
      BY <2>3, <2>4, <2>7, ModelsApart
    <3> QED BY <2>1, <2>6, <3>1
  <2>8. CASE i = j
    BY <2>1, <2>5, <2>6, <2>8
  <2> QED BY <2>7, <2>8
<1> QED BY <1>1, <1>2, <1>3

LEMMA SameFacts ==
    ASSUME NEW c \in Tokens, NEW x \in KeysOf(c), NEW y \in KeysOf(c), NEW z \in KeysOf(c)
    PROVE  /\ Same(c, x, x) /\ (Same(c, x, y) => Same(c, y, x))
           /\ Same(c, x, y) /\ Same(c, y, z) => Same(c, x, z)
<1>1. CASE c \in Measured
  <2>1. c \in Classes \cap Measured /\ c \notin DOMAIN MadeOf
    BY <1>1, TokenClasses
  <2>2. x \in Asked(c) /\ y \in Asked(c) /\ z \in Asked(c)
    BY <2>1 DEF KeysOf
  <2>3. x \in Int /\ y \in Int /\ z \in Int /\ Spread \in Nat
    BY <2>1, <2>2, MeasuredFacts, NumbersApart
  <2>4. Abs(x - y) <= Spread /\ Abs(y - z) <= Spread => Abs(x - z) <= Spread
    BY <2>1, <2>2, MeasuredFacts
  <2>5. Abs(x - x) <= Spread /\ Abs(x - y) = Abs(y - x)
    BY <2>3 DEF Abs
  <2> QED BY <1>1, <2>4, <2>5 DEF Same
<1>2. CASE c \notin Measured
  BY <1>2 DEF Same
<1> QED BY <1>1, <1>2

\* A token is written as it was asked for
LEMMA TokenWrittenAs ==
    ASSUME NEW c \in Tokens, NEW x
    PROVE  Written(c, x) = x
<1>1. c \notin FirstRowOf
  BY TokenClasses
<1> QED BY <1>1 DEF Written, FirstRowOf

-----------------------------------------------------------------------------
(***************************************************************************)
(* The sample points.                                                      *)
(***************************************************************************)
LEMMA Division ==
    ASSUME NEW a \in Nat, NEW b \in Nat, b > 0
    PROVE  /\ a \div b \in Nat /\ 0 \div b = 0
           /\ \A q \in Nat : a = b * q => a \div b = q
           /\ \A q \in Nat : a <= b * q => a \div b <= q
<1> DEFINE d == a \div b
<1>1. d \in Int /\ b * d <= a /\ a < b * (d + 1)
  OBVIOUS
<1> HIDE DEF d
<1>2. d >= 0
  <2>1. d < 0 => d + 1 <= 0
    BY <1>1
  <2>2. d + 1 <= 0 => b * (d + 1) <= 0
    BY <1>1
  <2> QED BY <2>1, <2>2, <1>1
<1>3. ASSUME NEW q \in Nat, a <= b * q
      PROVE  d <= q
  <2>1. b * d <= b * q
    BY <1>1, <1>3
  <2> QED BY <2>1, <1>1
<1>4. ASSUME NEW q \in Nat, a = b * q
      PROVE  d = q
  <2>1. b * q < b * (d + 1)
    BY <1>1, <1>4
  <2>2. q < d + 1
    BY <2>1, <1>1
  <2> QED BY <2>2, <1>1, <1>3, <1>4
<1>5. 0 \div b = 0
  OBVIOUS
<1> QED BY <1>1, <1>2, <1>3, <1>4, <1>5 DEF d

LEMMA MaxOfTwo ==
    ASSUME NEW n \in Nat
    PROVE  Max({2, n}) \in Nat /\ Max({2, n}) >= 2
BY DEF Max

LEMMA GridFacts ==
    ASSUME NEW nend \in Nat \ {0}
    PROVE  LET grid == SampleGrid(nend) IN
           /\ grid \in Seq(Nat) /\ Len(grid) >= 2
           /\ grid[1] = 0 /\ grid[Len(grid)] = nend
           /\ \A k \in 1 .. Len(grid) : grid[k] <= nend
<1> DEFINE n == Max({2, nend \div SampleWidth + (IF nend % SampleWidth = 0 THEN 0 ELSE 1)})
           Point(k) == ((k - 1) * nend) \div (n - 1)
<1>1. n \in Nat /\ n >= 2
  <2>1. SampleWidth \in Nat /\ SampleWidth > 0
    BY NumbersApart
  <2>2. nend \div SampleWidth + (IF nend % SampleWidth = 0 THEN 0 ELSE 1) \in Nat
    BY <2>1, Division
  <2> QED BY <2>2, MaxOfTwo
<1>2. SampleGrid(nend) = [k \in 1 .. n |-> Point(k)]
  BY DEF SampleGrid
<1> HIDE DEF n
<1>3. ASSUME NEW k \in 1 .. n
      PROVE  Point(k) \in Nat /\ Point(k) <= nend
  <2>1. (k - 1) * nend \in Nat /\ n - 1 \in Nat /\ n - 1 > 0 /\ k - 1 \in Nat /\ k - 1 <= n - 1
    BY <1>1
  <2>2. (k - 1) * nend <= (n - 1) * nend
    BY <2>1
  <2> QED BY <2>1, <2>2, Division
<1>4. Point(1) = 0
  <2>1. (1 - 1) * nend = 0 /\ n - 1 \in Nat /\ n - 1 > 0
    BY <1>1
  <2> QED BY <2>1, Division
<1>5. Point(n) = nend
  <2>1. (n - 1) * nend \in Nat /\ n - 1 \in Nat /\ n - 1 > 0
    BY <1>1
  <2> QED BY <2>1, Division
<1> HIDE DEF Point
<1>6. SampleGrid(nend) \in Seq(Nat) /\ Len(SampleGrid(nend)) = n
  BY <1>1, <1>2, <1>3
<1> QED BY <1>1, <1>2, <1>3, <1>4, <1>5, <1>6

LEMMA FloatsFacts ==
    ASSUME NEW x \in Nat \ {0}, NEW y \in Floats(x)
    PROVE  y \in Nat \ {0} /\ x - Spread <= y /\ y <= x + Spread
BY NumbersApart DEF Floats, Shifts

\* The rounding of this run is one of the roundings
LEMMA ShiftedFacts ==
    ASSUME shift \in Shifts, NEW x
    PROVE  Shifted(x) \in Floats(x)
BY DEF Shifted, Floats

LEMMA EndFacts ==
    ASSUME NEW m \in Models, NEW nend \in Floats(NEnd[m])
    PROVE  /\ nend \in Nat \ {0}
           /\ LET grid == SampleGrid(nend) IN
              /\ grid \in Seq(Nat) /\ Len(grid) >= 2 /\ DOMAIN grid = 1 .. Len(grid)
              /\ grid[1] = 0 /\ grid[Len(grid)] = nend
              /\ \A k \in 1 .. Len(grid) : grid[k] <= nend /\ grid[k] \in KeysOf("efold_value")
              /\ \A j, k \in 1 .. Len(grid) : j # k => Abs(grid[j] - grid[k]) > Spread
<1>1. NEnd[m] \in Nat \ {0}
  BY NumbersApart
<1>2. nend \in Nat \ {0}
  BY <1>1, FloatsFacts
<1> DEFINE grid == SampleGrid(nend)
<1>3. /\ grid \in Seq(Nat) /\ Len(grid) >= 2 /\ grid[1] = 0 /\ grid[Len(grid)] = nend
      /\ \A k \in 1 .. Len(grid) : grid[k] <= nend
  BY <1>2, GridFacts
<1>4. DOMAIN grid = 1 .. Len(grid)
  <2> HIDE DEF grid
  <2> QED BY <1>3
<1>5. \A k \in 1 .. Len(grid) : grid[k] \in KeysOf("efold_value")
  <2>1. "efold_value" \notin DOMAIN MadeOf
    BY TokenClasses
  <2>2. nend \in UNION {Floats(NEnd[n]) : n \in Models}
    OBVIOUS
  <2>3. \A k \in DOMAIN grid : grid[k] \in Asked("efold_value")
    BY <2>2 DEF Asked
  <2> HIDE DEF grid
  <2> QED BY <2>1, <2>3, <1>4 DEF KeysOf
<1>6. \A j, k \in DOMAIN grid : j # k => Abs(grid[j] - grid[k]) > Spread
  BY NumbersApart
<1> HIDE DEF grid
<1> QED BY <1>2, <1>3, <1>4, <1>5, <1>6 DEF grid

\* A sample point is nothing less than zero
LEMMA PointsAreNat ==
    ASSUME NEW x \in KeysOf("efold_value")
    PROVE  x \in Nat
<1>1. "efold_value" \notin DOMAIN MadeOf
  BY TokenClasses
<1>2. x \in Asked("efold_value")
  BY <1>1 DEF KeysOf
<1>3. PICK m \in Models : \E nend \in Floats(NEnd[m]) : \E k \in DOMAIN SampleGrid(nend) : x = SampleGrid(nend)[k]
  BY <1>2 DEF Asked
<1>4. \A nend \in Floats(NEnd[m]) : /\ SampleGrid(nend) \in Seq(Nat)
                                 /\ DOMAIN SampleGrid(nend) = 1 .. Len(SampleGrid(nend))
  BY <1>3, EndFacts
<1> QED BY <1>3, <1>4

\* A potential is asked for by the serial of its mass, any other parameter by its number
LEMMA ParameterFacts ==
    ASSUME Started, NEW i \in DOMAIN Startup
    PROVE  /\ Parameter(i).cls = Startup[i].cls
           /\ Startup[i].cls \in DOMAIN MadeOf => Parameter(i).key = got[Startup[i].key]
           /\ Startup[i].cls \notin DOMAIN MadeOf => Parameter(i).key \in Numbers(i)
<1> DEFINE c == Startup[i].cls
<1>1. DOMAIN Startup[i] = {"cls", "key"}
  BY RunParameters
<1>2. \A v : [Startup[i] EXCEPT !.key = v].cls = c /\ [Startup[i] EXCEPT !.key = v].key = v
  BY <1>1
<1>3. CASE c \in DOMAIN MadeOf
  BY <1>2, <1>3 DEF Parameter
<1>4. CASE c \notin DOMAIN MadeOf /\ c \in Rounded
  <2>1. Parameter(i).key = Shifted(Startup[i].key) /\ Parameter(i).cls = c
    BY <1>2, <1>4 DEF Parameter
  <2> QED BY <1>4, <2>1, ShiftedFacts DEF Numbers, Started
<1>5. CASE c \notin DOMAIN MadeOf /\ c \notin Rounded
  <2>1. Parameter(i) = Startup[i]
    BY <1>5 DEF Parameter
  <2> QED BY <1>5, <2>1 DEF Numbers
<1> QED BY <1>3, <1>4, <1>5

\* What is looked up is one of the numbers of its class
LEMMA WantedKey ==
    ASSUME Inv, Started, Gridded, Wanted # NULL
    PROVE  /\ Wanted.cls \in Classes /\ Wanted.cls # IT
           /\ Wanted.cls \in Tokens => Wanted.key \in KeysOf(Wanted.cls)
<1>0. /\ Wanted.cls \in Classes /\ Wanted.cls # IT
      /\ \/ phase = "startup" /\ Len(got) < Len(Startup)
         \/ phase = "stage1" /\ Minting # {}
  BY WantedFacts DEF Inv
<1>1. CASE phase = "startup" /\ Len(got) < Len(Startup)
  <2> DEFINE i == Len(got) + 1
             c == Startup[i].cls
  <2>0. Len(got) \in Nat /\ got \in Seq(Nat) /\ Len(Startup) \in Nat
    BY RunParameters DEF Inv, Typed
  <2>1. i \in DOMAIN Startup /\ i - 1 = Len(got)
    BY <1>1, <2>0, RunParameters
  <2>2. Wanted = Parameter(i)
    BY <1>1 DEF Wanted
  <2> HIDE DEF i
  <2>3. /\ Parameter(i).cls = c
        /\ c \in DOMAIN MadeOf => Parameter(i).key = got[Startup[i].key]
        /\ c \notin DOMAIN MadeOf => Parameter(i).key \in Numbers(i)
    BY <2>1, ParameterFacts
  <2>4. CASE c \in DOMAIN MadeOf
    <3>1. Startup[i].key \in 1 .. Len(got)
      BY <2>1, <2>4, RunParameters
    <3>2. got[Startup[i].key] \in Nat
      BY <3>1, <2>0
    <3> QED BY <1>0, <2>2, <2>3, <2>4, <3>2 DEF KeysOf
  <2>5. CASE c \notin DOMAIN MadeOf
    <3>1. c # "efold_value"
      BY <2>1, RunParameters
    <3>2. Parameter(i).key \in Asked(c)
      BY <2>1, <2>3, <2>5, <3>1 DEF Asked
    <3> QED BY <1>0, <2>2, <2>3, <2>5, <3>2 DEF KeysOf
  <2> QED BY <2>4, <2>5
<1>2. CASE phase = "stage1" /\ Minting # {}
  <2> DEFINE m == CHOOSE x \in Minting : TRUE
             grid == SampleGrid(work[m].verdict)
  <2>1. m \in Models /\ work[m].stage = "mint"
    BY <1>2 DEF Minting
  <2>2. Wanted.cls = "efold_value" /\ Wanted.key = grid[Len(work[m].minted) + 1]
    BY <1>2 DEF Wanted
  <2> HIDE DEF m
  <2>3. /\ work[m].verdict \in Floats(NEnd[m]) /\ Len(work[m].minted) < Len(grid)
        /\ Len(work[m].minted) \in Nat
    BY <2>1 DEF Gridded, Inv, Typed, WorkTyped
  <2>4. grid \in Seq(Nat) /\ \A k \in 1 .. Len(grid) : grid[k] \in KeysOf("efold_value")
    BY <2>1, <2>3, EndFacts
  <2>5. Len(work[m].minted) + 1 \in 1 .. Len(grid)
    <3> HIDE DEF grid
    <3> QED BY <2>3, <2>4
  <2> QED BY <1>0, <2>2, <2>4, <2>5
<1> QED BY <1>0, <1>1, <1>2

-----------------------------------------------------------------------------
(***************************************************************************)
(* How the tables move.                                                    *)
(***************************************************************************)
\* One table of one shard is given a row
Inserted(s, c, row) ==
    /\ rows'[s][c] = rows[s][c] \cup {row}
    /\ \A t \in Shards, d \in Classes : t # s \/ d # c => rows'[t][d] = rows[t][d]

\* One shard sets the flag of a trajectory
MarkedAt(s, x) ==
    /\ rows'[s][IT] = Marked(rows[s][IT], x)
    /\ \A t \in Shards, d \in Classes : t # s \/ d # IT => rows'[t][d] = rows[t][d]

MintRow == [serial |-> next[Wanted.cls], key |-> Written(Wanted.cls, Wanted.key)]

MintAt(s) ==
    /\ s \in Shards /\ Wanted # NULL /\ ~InFlight("driver")
    /\ Hits(rows[s][Wanted.cls], Wanted.cls, Wanted.key) = {}
    /\ Inserted(s, Wanted.cls, MintRow)
    /\ flight' = [flight EXCEPT !["driver"] =
          [op |-> "insert", cls |-> Wanted.cls, row |-> MintRow, left |-> Shards \ {s}]]
    /\ next' = [next EXCEPT ![Wanted.cls] = @ + 1]
    /\ UNCHANGED <<phase, shift, got, work>>

PersistAt(m, s) ==
    /\ m \in Models /\ s \in Shards /\ work[m].stage = "persist" /\ ~InFlight(m)
    /\ phase = "stage1" /\ IsInjective(work[m].minted)
    /\ Inserted(s, IT, NewTrajectory(m))
    /\ flight' = [flight EXCEPT ![m] =
          [op |-> "insert", cls |-> IT, row |-> NewTrajectory(m), left |-> Shards \ {s}]]
    /\ next' = [next EXCEPT ![IT] = @ + 1]
    /\ UNCHANGED <<phase, shift, got, work>>

ReplicaAt(w, s) ==
    /\ w \in Writers /\ s \in flight[w].left /\ InFlight(w) /\ flight[w].op = "insert"
    /\ s \in Shards /\ WriteTyped(w)
    /\ Inserted(s, flight[w].cls, flight[w].row)
    /\ flight' = [flight EXCEPT ![w].left = @ \ {s}]
    /\ UNCHANGED <<next, phase, shift, got, work>>

\* The flag is set on one shard after the other, the first of them when the
\* validation begins
ValidatedAt(m, s) ==
    /\ m \in Models /\ s \in Shards /\ work[m].stage = "validate"
    /\ MarkedAt(s, work[m].serial)
    /\ \/ /\ ~InFlight(m)
          /\ flight' = [flight EXCEPT ![m] =
                [op |-> "validate", cls |-> IT, row |-> [serial |-> work[m].serial],
                 left |-> Shards \ {s}]]
       \/ /\ InFlight(m) /\ flight[m].op = "validate"
          /\ flight' = [flight EXCEPT ![m].left = @ \ {s}]
    /\ UNCHANGED <<next, phase, shift, got, work>>

OpenedWith(prune, tables) ==
    /\ \A s \in Shards, c \in Classes : rows'[s][c] = Left(c, prune, tables)
    /\ flight' = [w \in Writers |-> NoWrite] /\ next' = next
    /\ phase' = "startup" /\ got' = <<>> /\ shift' \in Shifts
    /\ work' = [m \in Models |-> NewWork]

Moves ==
    \/ \E s \in Shards : MintAt(s)
    \/ \E m \in Models, s \in Shards : PersistAt(m, s)
    \/ \E w \in Writers : \E s \in flight[w].left : ReplicaAt(w, s)
    \/ \E m \in Models, s \in Shards : ValidatedAt(m, s)
    \/ \E prune \in BOOLEAN, drop \in DropRequests : MayDrop(drop) /\ OpenedWith(prune, Tables(drop))

\* or nothing is written, and a write may end
Quiet ==
    /\ UNCHANGED <<rows, next>>
    /\ \A w \in Writers : flight'[w] = flight[w] \/ flight'[w] = NoWrite

LEMMA InsertMoves ==
    ASSUME Inv, NEW s \in Shards, NEW c \in Classes, NEW row, Insert(s, c, row)
    PROVE  Inserted(s, c, row)
<1>1. RowsShape
  BY DEF Inv, Typed, RowsTyped, RowsShape
<1> QED BY <1>1, OneInsert DEF Inserted

LEMMA ValidationMoves ==
    ASSUME Inv, NEW s \in Shards, NEW x,
           rows' = [rows EXCEPT ![s][IT] = Validated(@, x)]
    PROVE  MarkedAt(s, x)
<1>1. TableWritten(s, IT, Validated(rows[s][IT], x)) /\ RowsTyped
  BY Names0 DEF Inv, Typed, RowsTyped, TableWritten
<1> QED BY <1>1, OneValidation DEF MarkedAt

LEMMA RowMoves ==
    ASSUME Inv, [Next]_vars
    PROVE  Quiet \/ Moves
<1>1. CASE LookUp \/ TokenWritten \/ StartStage1 \/ LookupModels \/ HandOver \/ RunBranches \/ Kill
           \/ UNCHANGED vars
  <2>1. UNCHANGED <<rows, next>>
    BY <1>1 DEF LookUp, TokenWritten, StartStage1, LookupModels, HandOver, RunBranches, Kill, vars
  <2>2. flight' = flight \/ flight' = [flight EXCEPT !["driver"] = NoWrite]
    BY <1>1 DEF LookUp, TokenWritten, StartStage1, LookupModels, HandOver, RunBranches, Kill, vars
  <2>3. \A w \in Writers : flight'[w] = flight[w] \/ flight'[w] = NoWrite
    BY <2>2 DEF Inv, Typed, FlightsTyped
  <2> QED BY <2>1, <2>3 DEF Quiet
<1>2. CASE Mint
  <2>1. PICK s \in Shards :
           /\ Hits(rows[s][Wanted.cls], Wanted.cls, Wanted.key) = {}
           /\ Insert(s, Wanted.cls, MintRow)
           /\ flight' = [flight EXCEPT !["driver"] =
                 [op |-> "insert", cls |-> Wanted.cls, row |-> MintRow, left |-> Shards \ {s}]]
    BY <1>2 DEF Mint, MintRow
  <2>2. /\ Wanted # NULL /\ ~InFlight("driver") /\ UNCHANGED <<phase, shift, got, work>>
        /\ next' = [next EXCEPT ![Wanted.cls] = @ + 1]
    BY <1>2 DEF Mint
  <2>3. Wanted.cls \in Classes
    BY <2>2, WantedFacts DEF Inv
  <2>4. \A c \in Classes : \A row : Insert(s, c, row) => Inserted(s, c, row)
    BY InsertMoves
  <2>5. Inserted(s, Wanted.cls, MintRow)
    BY <2>1, <2>3, <2>4
  <2>6. MintAt(s)
    BY <2>1, <2>2, <2>5 DEF MintAt
  <2> QED BY <2>6 DEF Moves
<1>3. ASSUME NEW m \in Models, Persist(m)
      PROVE  Quiet \/ Moves
  <2>1. CASE ~IsInjective(work[m].minted)
    BY <1>3, <2>1 DEF Persist, Quiet
  <2>2. CASE IsInjective(work[m].minted)
    <3>1. PICK s \in Shards :
             /\ Insert(s, IT, NewTrajectory(m))
             /\ flight' = [flight EXCEPT ![m] =
                   [op |-> "insert", cls |-> IT, row |-> NewTrajectory(m), left |-> Shards \ {s}]]
      BY <1>3, <2>2 DEF Persist, IT
    <3>2. /\ work[m].stage = "persist" /\ ~InFlight(m) /\ phase = "stage1"
          /\ next' = [next EXCEPT ![IT] = @ + 1] /\ UNCHANGED <<phase, shift, got, work>>
      BY <1>3, <2>2 DEF Persist, IT
    <3>3. Inserted(s, IT, NewTrajectory(m))
      <4>1. \A row : Insert(s, IT, row) => Inserted(s, IT, row)
        BY InsertMoves, Names0
      <4> QED BY <3>1, <4>1
    <3>4. PersistAt(m, s)
      BY <2>2, <3>1, <3>2, <3>3 DEF PersistAt
    <3> QED BY <3>4 DEF Moves
  <2> QED BY <2>1, <2>2
<1>4. ASSUME NEW w \in Writers, Replicate(w)
      PROVE  Moves
  <2>1. PICK s \in flight[w].left :
           /\ IF flight[w].op = "insert" THEN Insert(s, flight[w].cls, flight[w].row)
              ELSE rows' = [rows EXCEPT ![s][flight[w].cls] = Validated(@, flight[w].row.serial)]
           /\ flight' = [flight EXCEPT ![w].left = @ \ {s}] /\ UNCHANGED phase
    BY <1>4 DEF Replicate, ReplicaRow
  <2>2. InFlight(w) /\ UNCHANGED <<next, shift, got, work>>
    BY <1>4 DEF Replicate
  <2>3. WriteTyped(w) /\ s \in Shards
    BY <2>1, <2>2 DEF Inv, Typed, FlightsTyped, WriteTyped
  <2>4. CASE flight[w].op = "insert"
    <3>1. flight[w].cls \in Classes
      BY <2>3 DEF WriteTyped
    <3>2. \A c \in Classes : \A row : Insert(s, c, row) => Inserted(s, c, row)
      BY <2>3, InsertMoves
    <3>3. ReplicaAt(w, s)
      BY <2>1, <2>2, <2>3, <2>4, <3>1, <3>2 DEF ReplicaAt
    <3> QED BY <3>3 DEF Moves
  <2>5. CASE flight[w].op # "insert"
    <3>1. flight[w].op = "validate" /\ flight[w].cls = IT /\ w # "driver"
      BY <2>3, <2>5 DEF WriteTyped
    <3>2. w \in Models
      BY <3>1, Names0
    <3>3. work[w].stage = "validate" /\ flight[w].row.serial = work[w].serial
      BY <2>2, <3>1, <3>2 DEF Inv, ModelWrites, ModelFlights
    <3>4. \A x : rows' = [rows EXCEPT ![s][IT] = Validated(@, x)] => MarkedAt(s, x)
      BY <2>3, ValidationMoves
    <3>5. MarkedAt(s, work[w].serial)
      BY <2>1, <2>5, <3>1, <3>3, <3>4
    <3>6. ValidatedAt(w, s)
      BY <2>1, <2>2, <2>3, <3>1, <3>2, <3>3, <3>5 DEF ValidatedAt
    <3> QED BY <2>3, <3>2, <3>6 DEF Moves
  <2> QED BY <2>4, <2>5
<1>5. ASSUME NEW m \in Models, ValidateStored(m)
      PROVE  Moves
  <2>1. PICK s \in Shards :
           /\ rows' = [rows EXCEPT ![s][IT] = Validated(@, work[m].serial)]
           /\ flight' = [flight EXCEPT ![m] =
                 [op |-> "validate", cls |-> IT, row |-> [serial |-> work[m].serial],
                  left |-> Shards \ {s}]]
    BY <1>5 DEF ValidateStored, IT
  <2>2. \A x : rows' = [rows EXCEPT ![s][IT] = Validated(@, x)] => MarkedAt(s, x)
    BY ValidationMoves
  <2>3. /\ work[m].stage = "validate" /\ ~InFlight(m)
        /\ UNCHANGED <<next, phase, shift, got, work>>
    BY <1>5 DEF ValidateStored
  <2>4. ValidatedAt(m, s)
    BY <2>1, <2>2, <2>3 DEF ValidatedAt
  <2> QED BY <2>4 DEF Moves
<1>6. CASE \E m \in Models : Resolve(m) \/ TrajectoryWritten(m)
  <2>1. UNCHANGED <<rows, next>>
    BY <1>6 DEF Resolve, TrajectoryWritten
  <2>2. flight' = flight \/ \E m \in Models : flight' = [flight EXCEPT ![m] = NoWrite]
    BY <1>6 DEF Resolve, TrajectoryWritten
  <2>3. \A w \in Writers : flight'[w] = flight[w] \/ flight'[w] = NoWrite
    BY <2>2 DEF Inv, Typed, FlightsTyped
  <2> QED BY <2>1, <2>3 DEF Quiet
<1>7. CASE Open
  <2>1. PICK prune \in BOOLEAN, drop \in DropRequests :
           MayDrop(drop) /\ rows' = Opened(prune, Tables(drop))
    BY <1>7 DEF Open
  <2>2. rows' = [s \in Shards |-> [c \in Classes |-> Left(c, prune, Tables(drop))]]
    BY <2>1, OpenedIsLeft
  <2>3. \A s \in Shards, c \in Classes : rows'[s][c] = Left(c, prune, Tables(drop))
    BY <2>2
  <2>4. OpenedWith(prune, Tables(drop))
    BY <1>7, <2>3 DEF Open, OpenedWith
  <2> QED BY <2>1, <2>4 DEF Moves
<1> QED BY <1>1, <1>2, <1>3, <1>4, <1>5, <1>6, <1>7 DEF Next, Progress

-----------------------------------------------------------------------------
(***************************************************************************)
(* Tokens stay.                                                            *)
(***************************************************************************)
LEMMA NoTokenDropped ==
    ASSUME NEW drop \in DropRequests, NEW c \in Classes \ {IT}
    PROVE  c \notin Tables(drop)
<1>1. drop \subseteq DOMAIN DropGroups
  BY RunParameters
<1>2. c \in Replicated /\ c # "InflatonTrajectoryValue"
  BY ModelsApart, RunParameters DEF Classes
<1>3. DOMAIN DropGroups = {"inflaton-trajectory", "full-instanton", "slow-roll-instanton",
                           "compaction-function", "gradient-coupled-instanton"}
  BY DEF DropGroups
<1>4. ASSUME NEW g \in DOMAIN DropGroups, c \in DropGroups[g]
      PROVE  FALSE
  <2>1. CASE g = "inflaton-trajectory"
    BY <2>1, <1>2, <1>4 DEF DropGroups, IT
  <2>2. CASE g = "full-instanton"
    BY <2>2, <1>2, <1>4 DEF DropGroups, Replicated
  <2>3. CASE g = "slow-roll-instanton"
    BY <2>3, <1>2, <1>4 DEF DropGroups, Replicated
  <2>4. CASE g = "compaction-function"
    BY <2>4, <1>2, <1>4 DEF DropGroups, Replicated
  <2>5. CASE g = "gradient-coupled-instanton"
    BY <2>5, <1>2, <1>4 DEF DropGroups, Replicated
  <2> QED BY <2>1, <2>2, <2>3, <2>4, <2>5, <1>3
<1> QED BY <1>1, <1>4 DEF Tables

LEMMA TokensStay ==
    ASSUME Inv, Landed, Quiet \/ Moves
    PROVE  /\ \A s \in Shards, c \in Classes \ {IT} : rows[s][c] \subseteq rows'[s][c]
           /\ \A c \in Classes \ {IT} : \A r \in All(c)' :
                 \/ r \in All(c)
                 \/ c = Wanted.cls /\ r = MintRow /\ \E s \in Shards : MintAt(s)
<1>0. \A c \in Classes : \A r : (r \in All(c) <=> \E s \in Shards : r \in rows[s][c])
                                /\ (r \in All(c)' <=> \E s \in Shards : r \in rows'[s][c])
  BY DEF All
<1>1. CASE Quiet
  BY <1>0, <1>1 DEF Quiet
<1>2. ASSUME NEW s \in Shards, MintAt(s)
      PROVE  /\ \A t \in Shards, c \in Classes \ {IT} : rows[t][c] \subseteq rows'[t][c]
             /\ \A c \in Classes \ {IT} : \A r \in All(c)' :
                   r \in All(c) \/ (c = Wanted.cls /\ r = MintRow)
  <2>1. Inserted(s, Wanted.cls, MintRow)
    BY <1>2 DEF MintAt
  <2> HIDE DEF MintRow
  <2> QED BY <2>1, <1>0 DEF Inserted
<1>3. ASSUME NEW m \in Models, NEW s \in Shards, PersistAt(m, s)
      PROVE  \A t \in Shards, c \in Classes \ {IT} : rows'[t][c] = rows[t][c]
  BY <1>3 DEF PersistAt, Inserted
<1>4. ASSUME NEW m \in Models, NEW s \in Shards, ValidatedAt(m, s)
      PROVE  \A t \in Shards, c \in Classes \ {IT} : rows'[t][c] = rows[t][c]
  BY <1>4 DEF ValidatedAt, MarkedAt
<1>5. ASSUME NEW w \in Writers, NEW s \in flight[w].left, ReplicaAt(w, s)
      PROVE  /\ \A t \in Shards, c \in Classes \ {IT} : rows[t][c] \subseteq rows'[t][c]
             /\ \A c \in Classes \ {IT} : \A r \in All(c)' : r \in All(c)
  <2> DEFINE d == flight[w].cls
             row == flight[w].row
  <2>1. Inserted(s, d, row) /\ d \in Classes
    BY <1>5 DEF ReplicaAt, WriteTyped
  <2>2. row \in All(d)
    <3>1. flight[w].left # Shards /\ flight[w].left \subseteq Shards
          /\ \A t \in Shards \ flight[w].left : row \in rows[t][d]
      BY <1>5 DEF ReplicaAt, WriteTyped, Landed
    <3>2. \E t \in Shards : row \in rows[t][d]
      BY <3>1
    <3> QED BY <3>2, <2>1, <1>0
  <2> HIDE DEF d, row
  <2> QED BY <2>1, <2>2, <1>0 DEF Inserted
<1>6. ASSUME NEW prune \in BOOLEAN, NEW drop \in DropRequests, OpenedWith(prune, Tables(drop))
      PROVE  /\ \A t \in Shards, c \in Classes \ {IT} : rows[t][c] \subseteq rows'[t][c]
             /\ \A c \in Classes \ {IT} : \A r \in All(c)' : r \in All(c)
  <2>1. ASSUME NEW c \in Classes \ {IT}
        PROVE  Left(c, prune, Tables(drop)) = All(c)
    <3>1. c \notin Tables(drop)
      BY NoTokenDropped
    <3>2. Mended(c) = All(c)
      BY DEF Mended
    <3> QED BY <3>1, <3>2 DEF Left
  <2>2. \A t \in Shards, c \in Classes \ {IT} : rows'[t][c] = All(c)
    BY <1>6, <2>1 DEF OpenedWith
  <2> QED BY <2>2, <1>0
<1> QED BY <1>0, <1>1, <1>2, <1>3, <1>4, <1>5, <1>6 DEF Moves

\* With no token on its way every shard has the same tokens
LEMMA TokensAgree ==
    ASSUME Inv, ~InFlight("driver"), NEW c \in Classes \ {IT}, NEW s \in Shards, NEW t \in Shards
    PROVE  rows[s][c] = rows[t][c]
<1>1. \A u \in Shards : Settled(u, c) = rows[u][c]
  <2>1. \A w \in Writers, u \in Shards : ~Inserts(w, u, c)
    <3> SUFFICES ASSUME NEW w \in Writers, NEW u \in Shards, Inserts(w, u, c) PROVE FALSE
      OBVIOUS
    <3>1. InFlight(w) /\ flight[w].cls = c
      BY DEF Inserts
    <3>2. WriteTyped(w)
      BY <3>1 DEF Inv, Typed, FlightsTyped
    <3> QED BY <3>1, <3>2 DEF WriteTyped
  <2>2. \A u \in Shards : \A r : Finish(u, c, r) = r
    BY DEF Finish
  <2> QED BY <2>1, <2>2 DEF Settled
<1> QED BY <1>1 DEF Inv, SettledAgree

\* A flight is begun, passed on, or ended
LEMMA NewFlight ==
    ASSUME Inv, NEW w \in Writers, NEW f, flight' = [flight EXCEPT ![w] = f]
    PROVE  flight'[w] = f /\ \A v \in Writers : v # w => flight'[v] = flight[v]
BY OneFlight DEF Inv, Typed

LEMMA PassedFlight ==
    ASSUME Inv, NEW w \in Writers, InFlight(w), NEW s,
           flight' = [flight EXCEPT ![w].left = @ \ {s}]
    PROVE  /\ flight'[w] = [op |-> flight[w].op, cls |-> flight[w].cls, row |-> flight[w].row,
                            left |-> flight[w].left \ {s}]
           /\ \A v \in Writers : v # w => flight'[v] = flight[v]
<1> DEFINE g == [flight[w] EXCEPT !.left = @ \ {s}]
<1>1. flight[w] = [op |-> flight[w].op, cls |-> flight[w].cls, row |-> flight[w].row,
                   left |-> flight[w].left]
  BY DEF Inv, Typed, FlightsTyped, WriteTyped
<1>2. g = [op |-> flight[w].op, cls |-> flight[w].cls, row |-> flight[w].row,
           left |-> flight[w].left \ {s}]
  BY <1>1
<1>3. flight' = [flight EXCEPT ![w] = g]
  OBVIOUS
<1> HIDE DEF g
<1> QED BY <1>2, <1>3, NewFlight

\* The write of w has landed
LandedOne(w) ==
    InFlight(w) /\ flight[w].op = "insert" =>
        /\ flight[w].left # Shards
        /\ \A s \in Shards \ flight[w].left : flight[w].row \in rows[s][flight[w].cls]

LEMMA LandedKept ==
    ASSUME Inv, Landed, Quiet \/ Moves
    PROVE  Landed'
<1>0. SUFFICES ASSUME NEW v \in Writers PROVE LandedOne(v)'
  BY DEF Landed, LandedOne
<1>1. LandedOne(v)
  BY DEF Landed, LandedOne
<1>2. InFlight(v) => WriteTyped(v)
  BY DEF Inv, Typed, FlightsTyped
<1>3. ASSUME flight'[v] = flight[v],
             \A t \in Shards, c \in Classes : \A r \in rows[t][c] :
                (InFlight(v) /\ flight[v].op = "insert" /\ flight[v].row = r /\ flight[v].cls = c)
                    => r \in rows'[t][c]
      PROVE  LandedOne(v)'
  BY <1>1, <1>2, <1>3 DEF LandedOne, InFlight, WriteTyped
<1>4. CASE Quiet
  <2>1. CASE flight'[v] = NoWrite
    BY <2>1 DEF LandedOne, InFlight, NoWrite
  <2>2. CASE flight'[v] = flight[v]
    BY <1>3, <1>4, <2>2 DEF Quiet
  <2> QED BY <1>4, <2>1, <2>2 DEF Quiet
<1>5. ASSUME NEW w \in Writers, NEW s \in Shards, NEW c \in Classes, NEW row, Inserted(s, c, row),
             flight' = [flight EXCEPT ![w] =
                [op |-> "insert", cls |-> c, row |-> row, left |-> Shards \ {s}]]
      PROVE  LandedOne(v)'
  <2>1. \A f : flight' = [flight EXCEPT ![w] = f] =>
           flight'[w] = f /\ \A u \in Writers : u # w => flight'[u] = flight[u]
    BY NewFlight
  <2>2. /\ flight'[w] = [op |-> "insert", cls |-> c, row |-> row, left |-> Shards \ {s}]
        /\ \A u \in Writers : u # w => flight'[u] = flight[u]
    BY <2>1, <1>5
  <2>3. CASE v = w
    BY <1>5, <2>2, <2>3 DEF LandedOne, Inserted
  <2>4. CASE v # w
    BY <1>3, <1>5, <2>2, <2>4 DEF Inserted
  <2> QED BY <2>3, <2>4
<1>6. ASSUME NEW w \in Writers, NEW s \in flight[w].left, ReplicaAt(w, s)
      PROVE  LandedOne(v)'
  <2>1. InFlight(w) /\ flight' = [flight EXCEPT ![w].left = @ \ {s}] /\ WriteTyped(w)
        /\ Inserted(s, flight[w].cls, flight[w].row) /\ flight[w].op = "insert"
    BY <1>6 DEF ReplicaAt
  <2>2. /\ flight'[w] = [op |-> flight[w].op, cls |-> flight[w].cls, row |-> flight[w].row,
                         left |-> flight[w].left \ {s}]
        /\ \A u \in Writers : u # w => flight'[u] = flight[u]
    BY <2>1, PassedFlight
  <2>3. CASE v = w
    <3>1. /\ flight'[v].left = flight[v].left \ {s} /\ flight'[v].row = flight[v].row
          /\ flight'[v].cls = flight[v].cls
      BY <2>2, <2>3
    <3>2. flight'[v].left # Shards
      BY <2>1, <2>3, <3>1 DEF WriteTyped
    <3>3. \A t \in Shards \ flight'[v].left : flight[v].row \in rows'[t][flight[v].cls]
      BY <1>1, <2>1, <2>3, <3>1 DEF Inserted, LandedOne, WriteTyped
    <3> QED BY <3>1, <3>2, <3>3 DEF LandedOne
  <2>4. CASE v # w
    BY <1>3, <2>1, <2>2, <2>4 DEF Inserted, WriteTyped
  <2> QED BY <2>3, <2>4
<1>7. ASSUME NEW m \in Models, NEW s \in Shards, ValidatedAt(m, s)
      PROVE  LandedOne(v)'
  <2>0. m \in Writers /\ m # "driver"
    BY Names0
  <2>1. /\ \A u \in Writers : u # m => flight'[u] = flight[u]
        /\ flight'[m].op = "validate"
    <3>1. CASE ~InFlight(m)
      <4>1. \A f : flight' = [flight EXCEPT ![m] = f] =>
               flight'[m] = f /\ \A u \in Writers : u # m => flight'[u] = flight[u]
        BY <2>0, NewFlight
      <4> QED BY <1>7, <3>1, <4>1 DEF ValidatedAt
    <3>2. CASE InFlight(m)
      <4>1. flight[m].op = "validate" /\ flight' = [flight EXCEPT ![m].left = @ \ {s}]
        BY <1>7, <3>2 DEF ValidatedAt
      <4> QED BY <2>0, <3>2, <4>1, PassedFlight
    <3> QED BY <3>1, <3>2
  <2>2. CASE v = m
    BY <2>1, <2>2 DEF LandedOne
  <2>3. CASE v # m
    <3>1. MarkedAt(s, work[m].serial) /\ work[m].stage = "validate"
      BY <1>7 DEF ValidatedAt
    <3>2. ASSUME InFlight(v), flight[v].op = "insert", flight[v].cls = IT
          PROVE  flight[v].row.serial # work[m].serial
      <4>1. v \in Models
        BY <1>2, <3>2, Names0 DEF WriteTyped
      <4>2. flight[v].row.serial \in Nat
        BY <1>2, <3>2 DEF WriteTyped
      <4> QED BY <2>3, <3>1, <3>2, <4>1, <4>2 DEF Inv, SerialsApart, Holds
    <3>3. \A t \in Shards, c \in Classes : \A r \in rows[t][c] :
             (InFlight(v) /\ flight[v].op = "insert" /\ flight[v].row = r /\ flight[v].cls = c)
                => r \in rows'[t][c]
      BY <3>1, <3>2 DEF MarkedAt, Marked
    <3> QED BY <1>3, <2>1, <2>3, <3>3
  <2> QED BY <2>2, <2>3
<1>8. ASSUME flight' = [w \in Writers |-> NoWrite]
      PROVE  LandedOne(v)'
  BY <1>8 DEF LandedOne, InFlight, NoWrite
<1>9. ASSUME NEW s \in Shards, MintAt(s)
      PROVE  LandedOne(v)'
  <2>1. Wanted.cls \in Classes /\ "driver" \in Writers
    BY <1>9, WantedFacts, Names0 DEF MintAt, Inv
  <2> QED BY <2>1, <1>5, <1>9 DEF MintAt
<1>10. ASSUME NEW m \in Models, NEW s \in Shards, PersistAt(m, s)
      PROVE  LandedOne(v)'
  <2>1. m \in Writers /\ IT \in Classes
    BY Names0
  <2> QED BY <2>1, <1>5, <1>10 DEF PersistAt
<1> QED BY <1>4, <1>6, <1>7, <1>8, <1>9, <1>10 DEF Moves, OpenedWith

-----------------------------------------------------------------------------
(***************************************************************************)
(* What the driver has in hand.                                            *)
(***************************************************************************)
LEMMA WantedSame ==
    ASSUME UNCHANGED <<phase, got, shift, work>>
    PROVE  Wanted' = Wanted
BY DEF Wanted, Parameter, Shifted, Minting, SampleGrid

\* What is wanted stays wanted while its token is on the way
LEMMA WantedStays ==
    ASSUME Inv, [Next]_vars, InFlight("driver"), InFlight("driver")', IsOpen'
    PROVE  /\ IsOpen /\ Wanted' = Wanted
           /\ flight'["driver"].cls = flight["driver"].cls
           /\ flight'["driver"].row = flight["driver"].row
<1>1. CASE LookUp \/ TokenWritten \/ Mint
  <2>1. ~(LookUp \/ Mint)
    BY DEF LookUp, Mint
  <2>2. TokenWritten => flight'["driver"] = NoWrite
    BY Names0, NewFlight DEF TokenWritten
  <2> QED BY <1>1, <2>1, <2>2 DEF InFlight, NoWrite
<1>2. CASE StartStage1 \/ HandOver \/ LookupModels \/ RunBranches \/ Kill
  <2>0. ASSUME IsOpen
        PROVE  \/ phase = "startup" /\ Len(got) < Len(Startup)
               \/ phase = "stage1" /\ \E m \in Models : work[m].stage = "mint"
    BY <2>0 DEF Inv, DriverWrites, Minting
  <2>1. ~(StartStage1 \/ HandOver \/ LookupModels \/ RunBranches)
    <3>1. ~StartStage1
      BY <2>0, RunParameters DEF IsOpen, StartStage1
    <3>2. ~(HandOver \/ LookupModels \/ RunBranches)
      BY <2>0 DEF IsOpen, HandOver, LookupModels, RunBranches
    <3> QED BY <3>1, <3>2
  <2> QED BY <1>2, <2>1 DEF Kill, IsOpen
<1>3. ASSUME NEW m \in Models, Resolve(m)
      PROVE  FALSE
  BY <1>3, RunParameters DEF Inv, DriverWrites, IsOpen, Resolve
<1>4. ASSUME NEW m \in Models, Persist(m) \/ ValidateStored(m)
      PROVE  /\ IsOpen /\ Wanted' = Wanted
             /\ flight'["driver"].cls = flight["driver"].cls
             /\ flight'["driver"].row = flight["driver"].row
  <2>1. phase = "stage1" /\ UNCHANGED <<got, shift, work>>
    BY <1>4 DEF Persist, ValidateStored
  <2>2. phase' = phase
    BY <1>4 DEF Persist, ValidateStored, IsOpen
  <2>3. flight'["driver"] = flight["driver"]
    <3>1. \E f : flight' = [flight EXCEPT ![m] = f]
      BY <1>4, <2>2, <2>1 DEF Persist, ValidateStored
    <3> QED BY <3>1, Names0, NewFlight
  <2> QED BY <2>1, <2>2, <2>3, WantedSame DEF IsOpen
<1>5. ASSUME NEW w \in Writers, Replicate(w)
      PROVE  /\ IsOpen /\ Wanted' = Wanted
             /\ flight'["driver"].cls = flight["driver"].cls
             /\ flight'["driver"].row = flight["driver"].row
  <2>1. IsOpen /\ InFlight(w) /\ UNCHANGED <<phase, got, shift, work>>
        /\ \E s \in flight[w].left : flight' = [flight EXCEPT ![w].left = @ \ {s}]
    BY <1>5 DEF Replicate, ReplicaRow
  <2>2. /\ \E s : flight'[w] = [op |-> flight[w].op, cls |-> flight[w].cls, row |-> flight[w].row,
                                left |-> flight[w].left \ {s}]
        /\ \A u \in Writers : u # w => flight'[u] = flight[u]
    BY <2>1, PassedFlight
  <2> QED BY <2>1, <2>2, WantedSame, Names0
<1>6. ASSUME NEW m \in Models, TrajectoryWritten(m)
      PROVE  /\ IsOpen /\ Wanted' = Wanted
             /\ flight'["driver"].cls = flight["driver"].cls
             /\ flight'["driver"].row = flight["driver"].row
  <2>1. /\ phase = "stage1" /\ UNCHANGED <<phase, got, shift>> /\ InFlight(m)
        /\ flight' = [flight EXCEPT ![m] = NoWrite]
        /\ work' = [work EXCEPT ![m].serial = flight[m].row.serial,
                      ![m].stage = IF flight[m].op = "insert" THEN "validate" ELSE "done"]
    BY <1>6 DEF TrajectoryWritten
  <2>2. flight'["driver"] = flight["driver"]
    BY <2>1, Names0, NewFlight
  <2>3. Minting' = Minting
    BY <1>6, TrajectoryEnds
  <2>4. \A n \in Minting : work'[n] = work[n]
    <3>1. m \notin Minting
      BY <2>1 DEF Inv, ModelWrites, ModelFlights, Minting
    <3> QED BY <2>1, <3>1 DEF Minting, Inv, Typed, WorkTyped
  <2>5. Minting # {} /\ ~(phase = "startup" /\ Len(got) < Len(Startup))
    BY <2>1 DEF Inv, DriverWrites, IsOpen
  <2> DEFINE n == CHOOSE x \in Minting : TRUE
  <2>6. n \in Minting /\ n = CHOOSE x \in Minting' : TRUE
    BY <2>3, <2>5
  <2>7. Wanted = [cls |-> "efold_value", key |-> SampleGrid(work[n].verdict)[Len(work[n].minted) + 1]]
    BY <2>1, <2>5 DEF Wanted
  <2>8. Wanted' = [cls |-> "efold_value", key |-> SampleGrid(work'[n].verdict)[Len(work'[n].minted) + 1]]
    BY <2>1, <2>3, <2>5 DEF Wanted, SampleGrid
  <2> QED BY <2>1, <2>2, <2>4, <2>6, <2>7, <2>8 DEF IsOpen
<1>7. CASE Open
  BY <1>7, Names0 DEF Open, InFlight, NoWrite
<1>8. CASE UNCHANGED vars
  BY <1>8, WantedSame DEF vars, IsOpen
<1> QED BY <1>1, <1>2, <1>3, <1>4, <1>5, <1>6, <1>7, <1>8 DEF Next, Progress

LEMMA DriverAsksKept ==
    ASSUME Inv, DriverAsks, [Next]_vars
    PROVE  DriverAsks'
<1> SUFFICES ASSUME InFlight("driver")', IsOpen'
             PROVE  /\ Wanted' # NULL /\ flight'["driver"].cls = Wanted'.cls
                    /\ flight'["driver"].row.key = Written(Wanted.cls, Wanted.key)'
  BY DEF DriverAsks
<1>1. CASE InFlight("driver")
  BY <1>1, WantedStays DEF DriverAsks, Written
<1>2. CASE ~InFlight("driver")
  <2>1. flight'["driver"] # flight["driver"] /\ flight'["driver"] # NoWrite
    BY <1>2 DEF InFlight, NoWrite
  <2>2. Moves
    BY <2>1, RowMoves, Names0 DEF Quiet
  <2>3. ASSUME NEW s \in Shards, MintAt(s)
        PROVE  /\ Wanted' # NULL /\ flight'["driver"].cls = Wanted'.cls
               /\ flight'["driver"].row.key = Written(Wanted.cls, Wanted.key)'
    <3>1. Wanted' = Wanted /\ Wanted # NULL
      BY <2>3, WantedSame DEF MintAt
    <3>2. \A f : flight' = [flight EXCEPT !["driver"] = f] => flight'["driver"] = f
      BY NewFlight, Names0
    <3>3. flight'["driver"] = [op |-> "insert", cls |-> Wanted.cls, row |-> MintRow, left |-> Shards \ {s}]
      BY <2>3, <3>2 DEF MintAt
    <3>4. flight'["driver"].cls = Wanted.cls /\ flight'["driver"].row = MintRow
      BY <3>3
    <3> QED BY <3>1, <3>4 DEF MintRow, Written
  <2>4. ASSUME NEW m \in Models, NEW s \in Shards, PersistAt(m, s)
        PROVE  FALSE
    BY <2>4, <2>1, Names0, NewFlight DEF PersistAt
  <2>5. ASSUME NEW m \in Models, NEW s \in Shards, ValidatedAt(m, s)
        PROVE  FALSE
    <3>1. CASE InFlight(m)
      <4>1. /\ flight[m].op = "validate" /\ flight' = [flight EXCEPT ![m].left = @ \ {s}]
            /\ m \in Writers /\ m # "driver"
        BY <2>5, <3>1, Names0 DEF ValidatedAt
      <4>2. flight'["driver"] = flight["driver"]
        BY <3>1, <4>1, Names0, PassedFlight
      <4> QED BY <2>1, <4>2
    <3>2. CASE ~InFlight(m)
      BY <2>5, <2>1, <3>2, Names0, NewFlight DEF ValidatedAt
    <3> QED BY <3>1, <3>2
  <2>6. ASSUME NEW w \in Writers, NEW s \in flight[w].left, ReplicaAt(w, s)
        PROVE  FALSE
    <3>1. w # "driver"
      BY <1>2, <2>6 DEF ReplicaAt
    <3> QED BY <2>6, <2>1, <3>1, Names0, PassedFlight DEF ReplicaAt
  <2>7. ASSUME NEW prune, NEW tables, OpenedWith(prune, tables)
        PROVE  FALSE
    BY <2>7, <2>1, Names0 DEF OpenedWith
  <2> QED BY <2>2, <2>3, <2>4, <2>5, <2>6, <2>7 DEF Moves
<1> QED BY <1>1, <1>2

\* An answer: the serial that every shard has for what was asked
Delivering(x) ==
    /\ x \in Nat /\ Wanted # NULL /\ Deliver(x)
    /\ UNCHANGED <<rows, next, shift, phase>>
    /\ \/ phase = "startup" /\ Len(got) < Len(Startup)
       \/ phase = "stage1" /\ Minting # {}
    /\ Wanted.cls \in Tokens => Cites(Wanted.cls, x, Wanted.key)

LEMMA Delivery ==
    ASSUME Inv, TokenInv, LookUp \/ TokenWritten
    PROVE  \/ \E x : Delivering(x)
           \/ /\ LookUp /\ phase' = "raised" /\ UNCHANGED <<rows, next, shift, got, work>>
              /\ \E s \in Shards : Refuses(rows[s][Wanted.cls], Wanted.cls, Wanted.key)
<1>1. CASE LookUp
  <2>1. PICK s \in Shards :
           LET table == rows[s][Wanted.cls]
               hits == Hits(table, Wanted.cls, Wanted.key)
           IN  IF Refuses(table, Wanted.cls, Wanted.key)
               THEN phase' = "raised" /\ UNCHANGED <<got, work>>
               ELSE (\E r \in hits : Deliver(r.serial)) /\ UNCHANGED phase
    BY <1>1 DEF LookUp
  <2>2. Wanted # NULL /\ ~InFlight("driver") /\ UNCHANGED <<rows, next, shift>>
    BY <1>1 DEF LookUp
  <2>3. CASE Refuses(rows[s][Wanted.cls], Wanted.cls, Wanted.key)
    BY <1>1, <2>1, <2>2, <2>3
  <2>4. ASSUME NEW r \in Hits(rows[s][Wanted.cls], Wanted.cls, Wanted.key), Deliver(r.serial),
               UNCHANGED phase
        PROVE  Delivering(r.serial)
    <3>1. /\ Wanted.cls \in Classes \ {IT}
          /\ Wanted.cls \in Tokens => Wanted.key \in KeysOf(Wanted.cls)
          /\ \/ phase = "startup" /\ Len(got) < Len(Startup)
             \/ phase = "stage1" /\ Minting # {}
      BY <2>2, WantedKey, WantedFacts DEF TokenInv, Inv
    <3>2. r \in rows[s][Wanted.cls] /\ Answers(Wanted.cls, r.key, Wanted.key)
      BY DEF Hits
    <3>3. r.serial \in Nat
      BY <3>1, <3>2 DEF Inv, Typed, RowsTyped
    <3>4. \A t \in Shards : r \in rows[t][Wanted.cls]
      BY <2>2, <3>1, <3>2, TokensAgree
    <3>5. ASSUME Wanted.cls \in Tokens
          PROVE  Cites(Wanted.cls, r.serial, Wanted.key)
      <4>1. r.key \in KeysOf(Wanted.cls)
        BY <3>2, <3>5 DEF TokenInv, TokensTyped, All
      <4>2. Same(Wanted.cls, r.key, Wanted.key)
        BY <3>1, <3>2, <3>5, <4>1, AnswersIsSame
      <4> QED BY <3>4, <4>2 DEF Cites
    <3> QED BY <2>2, <2>4, <3>1, <3>3, <3>5 DEF Delivering
  <2> QED BY <2>1, <2>3, <2>4
<1>2. CASE TokenWritten
  <2> DEFINE f == flight["driver"]
  <2>1. /\ IsOpen /\ InFlight("driver") /\ f.left = {} /\ Deliver(f.row.serial)
        /\ UNCHANGED <<rows, next, shift, phase>>
    BY <1>2 DEF TokenWritten
  <2>2. WriteTyped("driver") /\ f.op = "insert" /\ f.row.serial \in Nat
    BY <2>1, Names0 DEF Inv, Typed, FlightsTyped, WriteTyped
  <2>3. Wanted # NULL /\ f.cls = Wanted.cls /\ f.row.key = Written(Wanted.cls, Wanted.key)
    BY <2>1 DEF TokenInv, DriverAsks
  <2>4. /\ Wanted.cls \in Tokens => Wanted.key \in KeysOf(Wanted.cls)
        /\ \/ phase = "startup" /\ Len(got) < Len(Startup)
           \/ phase = "stage1" /\ Minting # {}
    BY <2>3, WantedKey, WantedFacts DEF TokenInv, Inv
  <2>5. \A t \in Shards : f.row \in rows[t][Wanted.cls]
    BY <2>1, <2>2, <2>3, Names0 DEF TokenInv, Landed
  <2>6. ASSUME Wanted.cls \in Tokens
        PROVE  Cites(Wanted.cls, f.row.serial, Wanted.key)
    <3>1. f.row.key = Wanted.key
      BY <2>3, <2>6, TokenWrittenAs
    <3>2. Same(Wanted.cls, f.row.key, Wanted.key)
      BY <2>4, <2>6, <3>1, SameFacts
    <3> QED BY <2>5, <3>2 DEF Cites
  <2>7. Delivering(f.row.serial)
    BY <2>1, <2>2, <2>3, <2>4, <2>6 DEF Delivering
  <2> QED BY <2>7
<1> QED BY <1>1, <1>2

\* An answer to a model that has its grid made tokens
MintedBy(m, x) ==
    /\ m \in Minting /\ got' = got
    /\ work'[m] = [stage |-> IF Len(work[m].minted) + 1 = Len(SampleGrid(work[m].verdict))
                             THEN "persist" ELSE "mint",
                   verdict |-> work[m].verdict, minted |-> Append(work[m].minted, x),
                   serial |-> work[m].serial]
    /\ \A n \in Models : n # m => work'[n] = work[n]
    /\ Wanted = [cls |-> "efold_value", key |-> SampleGrid(work[m].verdict)[Len(work[m].minted) + 1]]

LEMMA MintDelivery ==
    ASSUME Inv, NEW x, Delivering(x), phase # "startup"
    PROVE  \E m \in Models : MintedBy(m, x)
<1> DEFINE m == CHOOSE y \in Minting : TRUE
           minted == Append(work[m].minted, x)
           stage == IF Len(minted) = Len(SampleGrid(work[m].verdict)) THEN "persist" ELSE "mint"
<1>0. phase = "stage1" /\ Minting # {} /\ x \in Nat /\ Deliver(x)
  BY DEF Delivering
<1>1. m \in Minting /\ m \in Models
  BY <1>0 DEF Minting
<1>2. /\ work' = [work EXCEPT ![m].minted = minted, ![m].stage = stage] /\ got' = got
  BY <1>0 DEF Deliver
<1>3. Wanted = [cls |-> "efold_value", key |-> SampleGrid(work[m].verdict)[Len(work[m].minted) + 1]]
  BY <1>0 DEF Wanted
<1>4. Len(minted) = Len(work[m].minted) + 1
  <2>1. work[m].minted \in Seq(Nat)
    BY <1>1 DEF Inv, Typed, WorkTyped
  <2>2. \A q \in Seq(Nat) : Len(Append(q, x)) = Len(q) + 1
    BY <1>0, AppendProperties
  <2> QED BY <2>1, <2>2
<1> HIDE DEF m
<1>5. /\ work = [n \in Models |-> work[n]]
      /\ work[m] = [stage |-> work[m].stage, verdict |-> work[m].verdict,
                    minted |-> work[m].minted, serial |-> work[m].serial]
  BY <1>1 DEF Inv, Typed, WorkTyped
<1> HIDE DEF minted, stage
<1>6. /\ work'[m] = [stage |-> stage, verdict |-> work[m].verdict,
                     minted |-> minted, serial |-> work[m].serial]
      /\ \A n \in Models : n # m => work'[n] = work[n]
  BY <1>1, <1>2, <1>5
<1>7. stage = IF Len(work[m].minted) + 1 = Len(SampleGrid(work[m].verdict)) THEN "persist" ELSE "mint"
  BY <1>4 DEF stage
<1> QED BY <1>1, <1>2, <1>3, <1>6, <1>7 DEF MintedBy, minted

-----------------------------------------------------------------------------
(***************************************************************************)
(* How the work of a model moves on.                                       *)
(***************************************************************************)
WorkRecord(stage, verdict, minted, serial) ==
    [stage |-> stage, verdict |-> verdict, minted |-> minted, serial |-> serial]

LEMMA WorkShape ==
    ASSUME Inv, NEW m \in Models
    PROVE  /\ work = [n \in Models |-> work[n]]
           /\ work[m] = WorkRecord(work[m].stage, work[m].verdict, work[m].minted, work[m].serial)
           /\ work[m].minted \in Seq(Nat)
BY DEF Inv, Typed, WorkTyped, WorkRecord

LEMMA ResolveShape ==
    ASSUME Inv, shift \in Shifts, NEW m \in Models, Resolve(m)
    PROVE  /\ phase = "stage1" /\ work[m].stage = "compute" /\ Minting = {}
           /\ UNCHANGED <<rows, results, next, flight, phase, shift, got>>
           /\ \A n \in Models : n # m => work'[n] = work[n]
           /\ \E nend \in {NULL} \cup Floats(NEnd[m]) :
                 work'[m] = WorkRecord(IF nend = NULL THEN "persist" ELSE "mint", nend,
                                       work[m].minted, work[m].serial)
<1>1. PICK over \in BOOLEAN, answers \in [1 .. Len(Solvers) -> {"failed", "ended", "endless"}] :
         LET nend == Verdict(m, over, answers) IN
         work' = [work EXCEPT ![m].verdict = nend,
                       ![m].stage = IF nend = NULL THEN "persist" ELSE "mint"]
  BY DEF Resolve
<1> DEFINE nend == Verdict(m, over, answers)
<1>2. nend \in {NULL} \cup Floats(NEnd[m])
  BY ShiftedFacts DEF Verdict
<1>3. work' = [work EXCEPT ![m].verdict = nend, ![m].stage = IF nend = NULL THEN "persist" ELSE "mint"]
  BY <1>1
<1> HIDE DEF nend
<1>4. /\ work = [n \in Models |-> work[n]]
      /\ work[m] = WorkRecord(work[m].stage, work[m].verdict, work[m].minted, work[m].serial)
  BY WorkShape
<1> DEFINE stage == IF nend = NULL THEN "persist" ELSE "mint"
<1>5. work' = [work EXCEPT ![m].verdict = nend, ![m].stage = stage]
  BY <1>3
<1> HIDE DEF stage
<1>6. /\ work'[m] = WorkRecord(stage, nend, work[m].minted, work[m].serial)
      /\ \A n \in Models : n # m => work'[n] = work[n]
  BY <1>4, <1>5 DEF WorkRecord
<1>7. work'[m] = WorkRecord(IF nend = NULL THEN "persist" ELSE "mint", nend, work[m].minted, work[m].serial)
  BY <1>6 DEF stage
<1> QED BY <1>2, <1>6, <1>7 DEF Resolve

LEMMA EndShape ==
    ASSUME Inv, NEW m \in Models, TrajectoryWritten(m)
    PROVE  /\ phase = "stage1" /\ InFlight(m) /\ flight[m].left = {}
           /\ flight'[m] = NoWrite /\ \A w \in Writers : w # m => flight'[w] = flight[w]
           /\ UNCHANGED <<rows, results, next, phase, shift, got>>
           /\ \A n \in Models : n # m => work'[n] = work[n]
           /\ \/ /\ flight[m].op = "insert" /\ work[m].stage = "persist"
                 /\ work'[m] = WorkRecord("validate", work[m].verdict, work[m].minted,
                                          flight[m].row.serial)
              \/ /\ flight[m].op = "validate" /\ work[m].stage = "validate"
                 /\ flight[m].row.serial = work[m].serial
                 /\ work'[m] = WorkRecord("done", work[m].verdict, work[m].minted, work[m].serial)
<1> DEFINE stage == IF flight[m].op = "insert" THEN "validate" ELSE "done"
<1>1. /\ phase = "stage1" /\ InFlight(m) /\ flight[m].left = {}
      /\ flight' = [flight EXCEPT ![m] = NoWrite]
      /\ work' = [work EXCEPT ![m].serial = flight[m].row.serial, ![m].stage = stage]
      /\ UNCHANGED <<rows, results, next, phase, shift, got>>
  BY DEF TrajectoryWritten
<1>2. m \in Writers /\ WriteTyped(m)
  BY <1>1, Names0 DEF Inv, Typed, FlightsTyped
<1>3. flight'[m] = NoWrite /\ \A w \in Writers : w # m => flight'[w] = flight[w]
  BY <1>1, <1>2, NewFlight
<1>4. /\ work = [n \in Models |-> work[n]]
      /\ work[m] = WorkRecord(work[m].stage, work[m].verdict, work[m].minted, work[m].serial)
  BY WorkShape
<1>5. /\ flight[m].op = "insert" => work[m].stage = "persist"
      /\ flight[m].op # "insert" => /\ flight[m].op = "validate" /\ work[m].stage = "validate"
                                    /\ flight[m].row.serial = work[m].serial
  BY <1>1, <1>2 DEF Inv, ModelWrites, ModelFlights, WriteTyped
<1> HIDE DEF stage
<1>6. /\ work'[m] = WorkRecord(stage, work[m].verdict, work[m].minted, flight[m].row.serial)
      /\ \A n \in Models : n # m => work'[n] = work[n]
  BY <1>1, <1>4 DEF WorkRecord
<1>7. CASE flight[m].op = "insert"
  BY <1>1, <1>3, <1>5, <1>6, <1>7 DEF stage
<1>8. CASE flight[m].op # "insert"
  <2>1. stage = "done"
    BY <1>8 DEF stage
  <2>2. work'[m] = WorkRecord("done", work[m].verdict, work[m].minted, work[m].serial)
    BY <1>5, <1>6, <1>8, <2>1
  <2> QED BY <1>1, <1>3, <1>5, <1>6, <1>8, <2>2
<1> QED BY <1>7, <1>8

FoundOn(s, m) ==
    \/ /\ Stored(s, m) = {}
       /\ work'[m] = WorkRecord("compute", work[m].verdict, work[m].minted, work[m].serial)
    \/ \E r \in Stored(s, m) :
          work'[m] = WorkRecord("done", r.nend, work[m].minted, r.serial)

LEMMA LookupShape ==
    ASSUME Inv, LookupModels
    PROVE  /\ phase = "stage1" /\ \A m \in Models : work[m].stage = "lookup"
           /\ UNCHANGED <<rows, results, next, flight, shift, got>>
           /\ \/ /\ phase' = "raised" /\ work' = work
                 /\ \E s \in Shards, m \in Models : Cardinality(Stored(s, m)) > 1
              \/ phase' = phase /\ \E s \in Shards : \A m \in Models : FoundOn(s, m)
<1>1. /\ phase = "stage1" /\ \A m \in Models : work[m].stage = "lookup"
      /\ UNCHANGED <<rows, results, next, flight, shift, got>>
  BY DEF LookupModels
<1>2. PICK s \in Shards :
         IF \E m \in Models : Cardinality(Stored(s, m)) > 1
         THEN phase' = "raised" /\ UNCHANGED work
         ELSE /\ work' = [m \in Models |->
                    IF Stored(s, m) = {} THEN [work[m] EXCEPT !.stage = "compute"]
                    ELSE LET r == CHOOSE x \in Stored(s, m) : TRUE IN
                         [work[m] EXCEPT !.stage = "done", !.serial = r.serial, !.verdict = r.nend]]
              /\ UNCHANGED phase
  BY DEF LookupModels
<1>3. CASE \E m \in Models : Cardinality(Stored(s, m)) > 1
  BY <1>1, <1>2, <1>3
<1>4. CASE ~\E m \in Models : Cardinality(Stored(s, m)) > 1
  <2>1. ASSUME NEW m \in Models
        PROVE  FoundOn(s, m)
    <3>1. work[m] = [stage |-> work[m].stage, verdict |-> work[m].verdict,
                     minted |-> work[m].minted, serial |-> work[m].serial]
      BY WorkShape DEF WorkRecord
    <3>2. CASE Stored(s, m) = {}
      <4>1. work'[m] = [work[m] EXCEPT !.stage = "compute"]
        BY <1>2, <1>4, <3>2
      <4>2. [work[m] EXCEPT !.stage = "compute"]
               = [stage |-> "compute", verdict |-> work[m].verdict,
                  minted |-> work[m].minted, serial |-> work[m].serial]
        BY <3>1
      <4> QED BY <3>2, <4>1, <4>2 DEF FoundOn, WorkRecord
    <3>3. CASE Stored(s, m) # {}
      <4> DEFINE r == CHOOSE x \in Stored(s, m) : TRUE
      <4>1. r \in Stored(s, m)
        BY <3>3
      <4>2. work'[m] = [work[m] EXCEPT !.stage = "done", !.serial = r.serial, !.verdict = r.nend]
        BY <1>2, <1>4, <3>3
      <4> HIDE DEF r
      <4>3. work'[m] = WorkRecord("done", r.nend, work[m].minted, r.serial)
        BY <3>1, <4>2, FoundWork DEF WorkRecord
      <4> QED BY <4>1, <4>3 DEF FoundOn
    <3> QED BY <3>2, <3>3
  <2> QED BY <1>1, <1>2, <1>4, <2>1
<1> QED BY <1>3, <1>4

\* Who does not answer, resolve, end, look up or open leaves the work as it is
Idle ==
    /\ UNCHANGED <<got, work, shift>>
    /\ phase' # phase =>
          \/ phase' \in {"closed", "raised"}
          \/ phase = "startup" /\ Len(got) = Len(Startup) /\ phase' = "stage1"
          \/ phase \in {"stage1", "handed"} /\ phase' \in {"handed", "finished"}

LEMMA WorkMoves ==
    ASSUME Inv, TokenInv, [Next]_vars
    PROVE  \/ Idle \/ (\E x : Delivering(x)) \/ Open
           \/ \E m \in Models : Resolve(m) \/ TrajectoryWritten(m)
           \/ LookupModels /\ phase' = phase /\ \E s \in Shards : \A m \in Models : FoundOn(s, m)
<1>1. CASE LookUp \/ TokenWritten
  <2>1. CASE \E x : Delivering(x)
    BY <2>1
  <2>2. CASE ~\E x : Delivering(x)
    BY <1>1, <2>2, Delivery DEF Idle
  <2> QED BY <2>1, <2>2
<1>2. CASE Mint \/ StartStage1 \/ HandOver \/ RunBranches \/ Kill \/ UNCHANGED vars
  BY <1>2 DEF Mint, StartStage1, HandOver, RunBranches, Kill, vars, Idle
<1>3. CASE \E w \in Writers : Replicate(w)
  BY <1>3 DEF Replicate, ReplicaRow, Idle
<1>4. CASE \E m \in Models : Persist(m) \/ ValidateStored(m)
  BY <1>4 DEF Persist, ValidateStored, Idle
<1>5. CASE LookupModels
  BY <1>5, LookupShape DEF Idle
<1>6. CASE Open \/ \E m \in Models : Resolve(m) \/ TrajectoryWritten(m)
  BY <1>6
<1> QED BY <1>1, <1>2, <1>3, <1>4, <1>5, <1>6 DEF Next, Progress

LEMMA GotGrows ==
    ASSUME Inv, NEW x, Delivering(x), phase = "startup"
    PROVE  /\ got' = Append(got, x) /\ work' = work /\ Len(got') = Len(got) + 1
           /\ got'[Len(got) + 1] = x /\ \A i \in 1 .. Len(got) : got'[i] = got[i]
<1>1. got' = Append(got, x) /\ work' = work /\ x \in Nat /\ got \in Seq(Nat)
  BY DEF Delivering, Deliver, Inv, Typed
<1>2. \A q \in Seq(Nat) : /\ Len(Append(q, x)) = Len(q) + 1 /\ Append(q, x)[Len(q) + 1] = x
                          /\ \A i \in 1 .. Len(q) : Append(q, x)[i] = q[i]
  BY <1>1, AppendProperties
<1> QED BY <1>1, <1>2

LEMMA StartedKept ==
    ASSUME Inv, TokenInv, [Next]_vars
    PROVE  Started'
<1>0. Started /\ Len(got) \in Nat /\ Len(Startup) \in Nat
  BY RunParameters DEF TokenInv, Inv, Typed
<1>1. CASE Idle
  BY <1>0, <1>1 DEF Started, Idle
<1>2. ASSUME NEW x, Delivering(x)
      PROVE  Started'
  <2>1. phase' = phase /\ shift' = shift
    BY <1>2 DEF Delivering
  <2>2. CASE phase = "startup"
    <3>1. Len(got') = Len(got) + 1 /\ work' = work /\ Len(got) < Len(Startup)
      BY <1>2, <2>2, GotGrows DEF Delivering
    <3> QED BY <1>0, <2>1, <2>2, <3>1 DEF Started
  <2>3. CASE phase # "startup"
    <3>1. got' = got
      BY <1>2, <2>3, MintDelivery DEF MintedBy
    <3> QED BY <1>0, <2>1, <2>3, <3>1 DEF Started
  <2> QED BY <2>2, <2>3
<1>3. CASE \E m \in Models : Resolve(m) \/ TrajectoryWritten(m)
  BY <1>0, <1>3 DEF Started, Resolve, TrajectoryWritten
<1>4. CASE LookupModels /\ phase' = phase
  BY <1>0, <1>4 DEF Started, LookupModels
<1>5. CASE Open
  <2>1. shift' \in Shifts /\ phase' = "startup" /\ got' = <<>> /\ \A m \in Models : work'[m] = NewWork
    BY <1>5 DEF Open
  <2>2. Len(got') = 0 /\ \A m \in Models : work'[m].stage = "lookup"
    BY <2>1 DEF NewWork
  <2> QED BY <1>0, <2>1, <2>2 DEF Started
<1> QED BY <1>1, <1>2, <1>3, <1>4, <1>5, WorkMoves

GriddedOne(m) ==
    /\ work[m].stage \in {"lookup", "compute"} => work[m].minted = <<>>
    /\ work[m].stage = "mint" =>
          /\ work[m].verdict # NULL
          /\ Len(work[m].minted) < Len(SampleGrid(work[m].verdict))
    /\ work[m].stage \in {"mint", "persist"} /\ work[m].verdict # NULL =>
          work[m].verdict \in Floats(NEnd[m])
    /\ work[m].stage = "persist" /\ work[m].verdict = NULL => work[m].minted = <<>>

LEMMA GriddedKept ==
    ASSUME Inv, TokenInv, [Next]_vars
    PROVE  Gridded'
<1>0. SUFFICES ASSUME NEW m \in Models PROVE GriddedOne(m)'
  BY DEF Gridded, GriddedOne
<1>1. GriddedOne(m) /\ shift \in Shifts
  BY DEF TokenInv, Gridded, GriddedOne, Started
<1>2. CASE work'[m] = work[m]
  BY <1>1, <1>2 DEF GriddedOne, SampleGrid, Floats, Shifts
<1>3. \A st, v, mi, se : LET r == WorkRecord(st, v, mi, se) IN
         r.stage = st /\ r.verdict = v /\ r.minted = mi /\ r.serial = se
  BY DEF WorkRecord
<1>4. ASSUME NEW x, Delivering(x)
      PROVE  GriddedOne(m)'
  <2>1. CASE phase = "startup"
    BY <1>2, <1>4, <2>1, GotGrows
  <2>2. CASE phase # "startup"
    <3>1. PICK n \in Models : MintedBy(n, x)
      BY <1>4, <2>2, MintDelivery
    <3>2. CASE n # m
      BY <1>2, <3>1, <3>2 DEF MintedBy
    <3>3. CASE n = m
      <4> DEFINE k == Len(work[m].minted) + 1
                 g == Len(SampleGrid(work[m].verdict))
      <4>1. work[m].stage = "mint" /\ x \in Nat
        BY <1>4, <3>1, <3>3 DEF MintedBy, Minting, Delivering
      <4>2. /\ work'[m].verdict = work[m].verdict /\ work'[m].minted = Append(work[m].minted, x)
            /\ work'[m].stage = IF k = g THEN "persist" ELSE "mint"
        BY <3>1, <3>3 DEF MintedBy
      <4>3. work[m].verdict \in Floats(NEnd[m]) /\ work[m].verdict # NULL /\ Len(work[m].minted) < g
        BY <1>1, <4>1 DEF GriddedOne
      <4>4. Len(Append(work[m].minted, x)) = k /\ k \in Nat /\ k - 1 = Len(work[m].minted)
        <5>1. work[m].minted \in Seq(Nat)
          BY WorkShape
        <5>2. \A q \in Seq(Nat) : Len(Append(q, x)) = Len(q) + 1
          BY <4>1, AppendProperties
        <5> QED BY <5>1, <5>2
      <4>5. g \in Nat
        <5>1. SampleGrid(work[m].verdict) \in Seq(Nat)
          BY <4>3, EndFacts
        <5> QED BY <5>1
      <4>6. Floats(NEnd[m])' = Floats(NEnd[m]) /\ SampleGrid(work[m].verdict)' = SampleGrid(work'[m].verdict)
        BY DEF Floats, Shifts, SampleGrid
      <4> HIDE DEF k, g
      <4>7. work'[m].stage = "mint" => k < g
        BY <4>2, <4>3, <4>4, <4>5
      <4> QED BY <4>2, <4>3, <4>4, <4>6, <4>7 DEF GriddedOne, g
    <3> QED BY <3>2, <3>3
  <2> QED BY <2>1, <2>2
<1>5. ASSUME NEW n \in Models, Resolve(n)
      PROVE  GriddedOne(m)'
  <2>1. CASE n # m
    BY <1>1, <1>2, <1>5, <2>1, ResolveShape
  <2>2. CASE n = m
    <3>1. PICK nend \in {NULL} \cup Floats(NEnd[m]) :
             work'[m] = WorkRecord(IF nend = NULL THEN "persist" ELSE "mint", nend,
                                   work[m].minted, work[m].serial)
      BY <1>1, <1>5, <2>2, ResolveShape
    <3>2. work[m].minted = <<>>
      BY <1>1, <1>5, <2>2 DEF GriddedOne, Resolve
    <3>3. nend # NULL => Len(SampleGrid(nend)) >= 2 /\ SampleGrid(nend) \in Seq(Nat)
      BY EndFacts
    <3>4. Floats(NEnd[m])' = Floats(NEnd[m]) /\ SampleGrid(work[m].verdict)' = SampleGrid(work'[m].verdict)
      BY DEF Floats, Shifts, SampleGrid
    <3>5. /\ work'[m].stage = IF nend = NULL THEN "persist" ELSE "mint"
          /\ work'[m].verdict = nend /\ work'[m].minted = <<>>
      BY <1>3, <3>1, <3>2
    <3>6. nend # NULL => Len(<<>>) < Len(SampleGrid(nend))
      BY <3>3
    <3> QED BY <3>1, <3>4, <3>5, <3>6 DEF GriddedOne
  <2> QED BY <2>1, <2>2
<1>6. ASSUME NEW n \in Models, TrajectoryWritten(n)
      PROVE  GriddedOne(m)'
  <2>1. CASE n # m
    BY <1>2, <1>6, <2>1, EndShape
  <2>2. CASE n = m
    <3>1. work'[m].stage \in {"validate", "done"}
      BY <1>3, <1>6, <2>2, EndShape
    <3> QED BY <3>1 DEF GriddedOne
  <2> QED BY <2>1, <2>2
<1>7. ASSUME LookupModels, NEW s \in Shards, FoundOn(s, m)
      PROVE  GriddedOne(m)'
  <2>1. work[m].minted = <<>>
    BY <1>1, <1>7 DEF GriddedOne, LookupModels
  <2>2. work'[m].stage \in {"compute", "done"} /\ work'[m].minted = <<>>
    BY <1>3, <1>7, <2>1 DEF FoundOn
  <2> QED BY <2>2 DEF GriddedOne
<1>8. CASE Open
  <2>1. work'[m] = NewWork
    BY <1>8 DEF Open
  <2>2. work'[m].stage = "lookup" /\ work'[m].minted = <<>>
    BY <2>1 DEF NewWork
  <2> QED BY <2>2 DEF GriddedOne
<1> QED BY <1>2, <1>4, <1>5, <1>6, <1>7, <1>8, WorkMoves DEF Idle

-----------------------------------------------------------------------------
(***************************************************************************)
(* A number has one token.                                                 *)
(***************************************************************************)
LEMMA NumbersStay ==
    /\ \A c : KeysOf(c)' = KeysOf(c)
    /\ \A c, x, y : Same(c, x, y)' = Same(c, x, y)
BY DEF KeysOf, Asked, Numbers, Floats, Shifts, SampleGrid, Same, Abs

LEMMA NextGrows ==
    ASSUME Inv, Quiet \/ Moves
    PROVE  \A c \in Classes : next[c] \in Nat /\ next'[c] \in Nat /\ next[c] <= next'[c]
<1>1. next \in [Classes -> Nat]
  BY DEF Inv, Typed
<1>2. \A c \in Classes : next' = [next EXCEPT ![c] = @ + 1] =>
         \A d \in Classes : next'[d] \in Nat /\ next[d] <= next'[d]
  BY <1>1
<1>3. next' = next \/ \E c \in Classes : next' = [next EXCEPT ![c] = @ + 1]
  <2>1. \A s \in Shards : MintAt(s) => Wanted.cls \in Classes
    BY WantedFacts DEF MintAt, Inv
  <2> QED BY <2>1, Names0 DEF Quiet, Moves, MintAt, PersistAt, ReplicaAt, ValidatedAt, OpenedWith
<1> QED BY <1>1, <1>2, <1>3

LEMMA TokensKept ==
    ASSUME Inv, TokenInv, [Next]_vars
    PROVE  TokensTyped' /\ TokensUnique'
<1>1. /\ Quiet \/ Moves
      /\ \A c \in Classes \ {IT} : \A r \in All(c)' :
            \/ r \in All(c)
            \/ c = Wanted.cls /\ r = MintRow /\ \E s \in Shards : MintAt(s)
  BY RowMoves, TokensStay DEF TokenInv
<1>2. \A c \in Classes : next[c] \in Nat /\ next'[c] \in Nat /\ next[c] <= next'[c]
  BY <1>1, NextGrows
<1>3. \A c \in Tokens : c \in Classes \ {IT}
  BY TokenClasses
<1>4. \A c \in Tokens : \A r \in All(c) : r.serial \in Nat /\ r.serial < next[c] /\ r.key \in KeysOf(c)
  <2>1. \A c \in Classes : \A r \in All(c) : r.serial \in Nat
    BY DEF Inv, Typed, RowsTyped, All
  <2> QED BY <1>3, <2>1 DEF TokenInv, TokensTyped
\* A row that is new to the store is new to every shard
<1>5. ASSUME NEW c \in Tokens, c = Wanted.cls, NEW s \in Shards, MintAt(s)
      PROVE  /\ MintRow.serial = next[c] /\ MintRow.key \in KeysOf(c) /\ next'[c] = next[c] + 1
             /\ \A q \in All(c) : ~Same(c, q.key, MintRow.key) /\ ~Same(c, MintRow.key, q.key)
  <2>1. /\ Wanted # NULL /\ ~InFlight("driver") /\ Hits(rows[s][c], c, Wanted.key) = {}
        /\ next' = [next EXCEPT ![c] = @ + 1]
    BY <1>5 DEF MintAt
  <2>2. Wanted.key \in KeysOf(c)
    BY <1>5, <2>1, WantedKey DEF TokenInv
  <2>3. MintRow.serial = next[c] /\ MintRow.key = Wanted.key
    BY <1>5, TokenWrittenAs DEF MintRow
  <2>4. next'[c] = next[c] + 1
    BY <2>1, <1>3 DEF Inv, Typed
  <2>5. ASSUME NEW q \in All(c)
        PROVE  ~Same(c, q.key, Wanted.key) /\ ~Same(c, Wanted.key, q.key)
    <3>1. q \in rows[s][c]
      BY <1>3, <2>1, TokensAgree DEF All
    <3>2. ~Answers(c, q.key, Wanted.key)
      BY <2>1, <3>1 DEF Hits
    <3>3. q.key \in KeysOf(c)
      BY <1>4
    <3> QED BY <2>2, <3>2, <3>3, AnswersIsSame, SameFacts
  <2> QED BY <2>2, <2>3, <2>4, <2>5
<1>6. TokensTyped'
  <2> SUFFICES ASSUME NEW c \in Tokens, NEW r \in All(c)'
               PROVE  r.serial < next'[c] /\ r.key \in KeysOf(c)
    BY NumbersStay DEF TokensTyped
  <2>1. CASE r \in All(c)
    BY <1>2, <1>3, <1>4, <2>1
  <2>2. ASSUME c = Wanted.cls, r = MintRow, NEW s \in Shards, MintAt(s)
        PROVE  r.serial < next'[c] /\ r.key \in KeysOf(c)
    BY <1>2, <1>3, <1>5, <2>2
  <2> QED BY <1>1, <1>3, <2>1, <2>2
<1>7. TokensUnique'
  <2> SUFFICES ASSUME NEW c \in Tokens, NEW q \in All(c)', NEW r \in All(c)',
                      q.serial = r.serial \/ Same(c, q.key, r.key)
               PROVE  q = r
    BY NumbersStay DEF TokensUnique
  <2>1. \A p \in All(c) : p.serial # next[c]
    BY <1>2, <1>3, <1>4
  <2>2. CASE q \in All(c) /\ r \in All(c)
    BY <2>2 DEF TokenInv, TokensUnique
  <2>3. CASE \E s \in Shards : MintAt(s) /\ c = Wanted.cls
    BY <1>1, <1>3, <1>5, <2>1, <2>2, <2>3
  <2> QED BY <1>1, <1>3, <2>2, <2>3
<1> QED BY <1>6, <1>7

LEMMA TokenInvKept ==
    ASSUME Inv, TokenInv, [Next]_vars
    PROVE  TokenInv'
<1>1. Landed'
  BY RowMoves, LandedKept DEF TokenInv
<1>2. DriverAsks'
  BY DriverAsksKept DEF TokenInv
<1> QED BY <1>1, <1>2, GriddedKept, StartedKept, TokensKept DEF TokenInv

LEMMA InitTokenInv ==
    ASSUME Init
    PROVE  TokenInv
<1>1. /\ rows = [s \in Shards |-> [c \in Classes |-> {}]]
      /\ flight = [w \in Writers |-> NoWrite]
      /\ phase = "closed" /\ shift = 0 /\ got = <<>> /\ work = [m \in Models |-> NewWork]
  BY DEF Init
<1>2. \A w \in Writers : ~InFlight(w)
  BY <1>1 DEF InFlight, NoWrite
<1>3. \A m \in Models : work[m].stage = "lookup" /\ work[m].minted = <<>>
  BY <1>1 DEF NewWork
<1>4. \A c \in Classes : All(c) = {}
  BY <1>1 DEF All
<1>5. 0 \in Shifts /\ Len(got) = 0 /\ Len(Startup) \in Nat
  BY <1>1, NumbersApart, RunParameters DEF Shifts
<1>6. Landed /\ DriverAsks /\ Gridded /\ Started
  BY <1>1, <1>2, <1>3, <1>5, Names0 DEF Landed, DriverAsks, Gridded, Started
<1>7. TokensTyped /\ TokensUnique
  BY <1>4, TokenClasses DEF TokensTyped, TokensUnique
<1> QED BY <1>6, <1>7 DEF TokenInv

LEMMA TokenInvAlways == Spec => [](Inv /\ TokenInv)
<1>1. Init => Inv /\ TokenInv
  BY InitInv, InitTokenInv
<1>2. Inv /\ TokenInv /\ [Next]_vars => (Inv /\ TokenInv)'
  BY InvKept, TokenInvKept
<1> QED BY <1>1, <1>2, PTL DEF Spec

\* A number has one token on every shard, for any list of parameters, any roundings
\* of any number of runs and kills at any point: what rounding moves is within the
\* tolerance of a look-up, a driver that has nothing on its way looks at a table
\* that all shards share, and so mints a token only when no shard has one.
THEOREM NumbersKeepOneToken == Spec => []OneTokenPerNumber
<1>1. TokenInv => OneTokenPerNumber
  <2> SUFFICES ASSUME TokenInv, NEW s \in Shards, NEW c \in Classes \intersect Measured,
                      NEW q \in rows[s][c], NEW r \in rows[s][c],
                      NEW d \in Shifts, NEW e \in Shifts, q.key - r.key = d - e
               PROVE  q = r
    BY DEF OneTokenPerNumber, Measured
  <2>1. c \in Tokens /\ c \notin DOMAIN MadeOf
    BY TokenClasses
  <2>2. q \in All(c) /\ r \in All(c)
    BY DEF All
  <2>3. q.key \in Asked(c) /\ r.key \in Asked(c)
    BY <2>1, <2>2 DEF TokenInv, TokensTyped, KeysOf
  <2>4. q.key \in Int /\ r.key \in Int /\ Spread \in Nat
    BY <2>3, MeasuredFacts, NumbersApart
  <2>5. Abs(q.key - r.key) <= Spread
    <3>1. d \in Int /\ e \in Int /\ 0 <= d /\ d <= Spread /\ 0 <= e /\ e <= Spread
      BY <2>4 DEF Shifts
    <3> QED BY <2>4, <3>1 DEF Abs
  <2>6. Same(c, q.key, r.key)
    BY <2>5 DEF Same
  <2> QED BY <2>1, <2>2, <2>6 DEF TokenInv, TokensUnique
<1> QED BY <1>1, TokenInvAlways, PTL

-----------------------------------------------------------------------------
(***************************************************************************)
(* What is cited stays.                                                    *)
(***************************************************************************)
LEMMA CitesStay ==
    ASSUME Inv, TokenInv, Quiet \/ Moves, NEW c \in Tokens, NEW x, NEW y, Cites(c, x, y)
    PROVE  Cites(c, x, y)'
<1>1. \A s \in Shards : rows[s][c] \subseteq rows'[s][c]
  BY TokensStay, TokenClasses DEF TokenInv
<1> QED BY <1>1, NumbersStay DEF Cites

\* One serial stands for one number
LEMMA CitesOne ==
    ASSUME TokenInv, NEW s0 \in Shards, NEW c \in Tokens, NEW x, NEW y \in KeysOf(c), NEW z \in KeysOf(c),
           Cites(c, x, y), Cites(c, x, z)
    PROVE  Same(c, y, z)
<1>1. PICK q \in rows[s0][c] : q.serial = x /\ Same(c, q.key, y)
  BY DEF Cites
<1>2. PICK r \in rows[s0][c] : r.serial = x /\ Same(c, r.key, z)
  BY DEF Cites
<1>3. q \in All(c) /\ r \in All(c)
  BY DEF All
<1>4. q = r /\ q.key \in KeysOf(c)
  BY <1>1, <1>2, <1>3 DEF TokenInv, TokensUnique, TokensTyped
<1>5. Same(c, y, q.key) /\ Same(c, q.key, z)
  BY <1>1, <1>2, <1>4, SameFacts
<1> QED BY <1>4, <1>5, SameFacts

LEMMA GotFitsKept ==
    ASSUME Inv, TokenInv, GotFits, [Next]_vars
    PROVE  GotFits'
<1>0. Quiet \/ Moves
  BY RowMoves
<1>1. \A i \in DOMAIN Startup : Numbers(i)' = Numbers(i)
  BY DEF Numbers, Floats, Shifts
<1>2. /\ Len(got) \in Nat /\ got \in Seq(Nat) /\ Len(got) <= Len(Startup) /\ Len(Startup) \in Nat
      /\ DOMAIN Startup = 1 .. Len(Startup)
  BY RunParameters DEF TokenInv, Started, Inv, Typed
\* What was registered stays registered
<1>3. ASSUME NEW i \in 1 .. Len(got), Startup[i].cls \in Tokens,
             \A j \in 1 .. Len(got) : got'[j] = got[j]
      PROVE  Fits(i)'
  <2>1. Fits(i)
    BY <1>3 DEF GotFits
  <2>2. CASE Startup[i].cls \in DOMAIN MadeOf
    <3>1. Startup[i].key \in 1 .. Len(got)
      BY <1>2, <2>2, RunParameters
    <3>2. got'[i] = got[i] /\ got'[Startup[i].key] = got[Startup[i].key]
      BY <1>3, <3>1
    <3>3. Cites(Startup[i].cls, got[i], got[Startup[i].key])
      BY <2>1, <2>2 DEF Fits
    <3>4. \A x, y : Cites(Startup[i].cls, x, y) => Cites(Startup[i].cls, x, y)'
      BY <1>0, <1>3, CitesStay
    <3>5. \A x, y : Cites(Startup[i].cls, x, y)' <=>
             \A s \in Shards : \E q \in rows'[s][Startup[i].cls] : q.serial = x /\ Same(Startup[i].cls, q.key, y)
      BY NumbersStay DEF Cites
    <3>6. Cites(Startup[i].cls, got[i], got[Startup[i].key])'
      BY <3>2, <3>3, <3>4, <3>5, NumbersStay DEF Cites
    <3> QED BY <2>2, <3>6 DEF Fits, MadeOf
  <2>3. CASE Startup[i].cls \notin DOMAIN MadeOf
    <3>1. PICK y \in Numbers(i) : Cites(Startup[i].cls, got[i], y)
      BY <2>1, <2>3 DEF Fits
    <3>2. \A x : Cites(Startup[i].cls, x, y) => Cites(Startup[i].cls, x, y)'
      BY <1>0, <1>3, CitesStay
    <3>3. got'[i] = got[i]
      BY <1>3
    <3>4. Cites(Startup[i].cls, got[i], y)'
      BY <3>1, <3>2, <3>3, NumbersStay DEF Cites
    <3> QED BY <1>1, <1>2, <2>3, <3>4 DEF Fits, MadeOf
  <2> QED BY <2>2, <2>3
<1>4. CASE got' = got
  BY <1>3, <1>4 DEF GotFits
<1>5. ASSUME NEW x, Delivering(x), phase = "startup", NEW i, i = Len(got) + 1
      PROVE  GotFits'
  <2> DEFINE c == Startup[i].cls
  <2>1. /\ Len(got') = Len(got) + 1 /\ got'[i] = x
        /\ \A j \in 1 .. Len(got) : got'[j] = got[j]
        /\ Len(got) < Len(Startup)
    BY <1>5, GotGrows DEF Delivering
  <2>2. i \in DOMAIN Startup /\ i - 1 = Len(got) /\ \A j \in 1 .. Len(got') : j = i \/ j \in 1 .. Len(got)
    BY <1>2, <1>5, <2>1
  <2>3. Wanted = Parameter(i)
    BY <1>5, <2>1 DEF Wanted
  <2>4. /\ Wanted.cls = c
        /\ c \in DOMAIN MadeOf => Wanted.key = got[Startup[i].key]
        /\ c \notin DOMAIN MadeOf => Wanted.key \in Numbers(i)
    BY <2>2, <2>3, ParameterFacts DEF TokenInv
  <2>5. ASSUME c \in Tokens
        PROVE  Fits(i)'
    <3>1. Cites(c, x, Wanted.key)
      BY <1>5, <2>4, <2>5 DEF Delivering
    <3>2. \A y : Cites(c, x, y) => Cites(c, x, y)'
      BY <1>0, <2>5, CitesStay
    <3>3. CASE c \in DOMAIN MadeOf
      <4>1. Startup[i].key \in 1 .. Len(got)
        BY <2>2, <3>3, RunParameters
      <4>2. got'[Startup[i].key] = got[Startup[i].key]
        BY <2>1, <4>1
      <4>3. Cites(c, got[i], got[Startup[i].key])'
        BY <2>1, <2>4, <3>1, <3>2, <3>3, <4>2, NumbersStay DEF Cites
      <4> QED BY <3>3, <4>3 DEF Fits, MadeOf
    <3>4. CASE c \notin DOMAIN MadeOf
      <4>1. \A y : Cites(c, x, y) => Cites(c, got[i], y)'
        BY <2>1, <3>2, NumbersStay DEF Cites
      <4>2. \E y \in Numbers(i) : Cites(c, got[i], y)'
        BY <2>4, <3>1, <3>4, <4>1
      <4> QED BY <1>1, <2>2, <3>4, <4>2 DEF Fits, MadeOf
    <3> QED BY <3>3, <3>4
  <2> QED BY <1>3, <2>1, <2>2, <2>5 DEF GotFits
<1>6. ASSUME NEW x, Delivering(x), phase # "startup"
      PROVE  got' = got
  BY <1>6, MintDelivery DEF MintedBy
<1>7. CASE Open
  <2>1. got' = <<>>
    BY <1>7 DEF Open
  <2>2. Len(got') = 0
    BY <2>1
  <2> QED BY <2>2 DEF GotFits
<1>8. (\E m \in Models : Resolve(m) \/ TrajectoryWritten(m)) \/ LookupModels => got' = got
  BY DEF Resolve, TrajectoryWritten, LookupModels
<1> QED BY <1>4, <1>5, <1>6, <1>7, <1>8, WorkMoves DEF Idle

-----------------------------------------------------------------------------
(***************************************************************************)
(* The samples of a trajectory.                                            *)
(***************************************************************************)
LEMMA GridsStay ==
    /\ \A nend : SampleGrid(nend)' = SampleGrid(nend)
    /\ \A x : Floats(x)' = Floats(x)
BY DEF SampleGrid, Floats, Shifts

LEMMA SamplesStay ==
    ASSUME Inv, TokenInv, Quiet \/ Moves, NEW values, NEW nend, Samples(values, nend)
    PROVE  Samples(values, nend)'
<1>1. \A x, y : Cites("efold_value", x, y) => Cites("efold_value", x, y)'
  BY CitesStay, TokenClasses
<1> QED BY <1>1, GridsStay DEF Samples

\* One more sample point has its token
LEMMA SamplesAppend ==
    ASSUME NEW values \in Seq(Nat), NEW nend, Samples(values, nend), NEW x \in Nat,
           Len(values) + 1 \in DOMAIN SampleGrid(nend),
           Cites("efold_value", x, SampleGrid(nend)[Len(values) + 1])
    PROVE  Samples(Append(values, x), nend)
<1>1. /\ Len(Append(values, x)) = Len(values) + 1 /\ Append(values, x)[Len(values) + 1] = x
      /\ \A i \in 1 .. Len(values) : Append(values, x)[i] = values[i]
  BY AppendProperties
<1>2. \A k \in 1 .. Len(values) + 1 : k = Len(values) + 1 \/ k \in 1 .. Len(values)
  OBVIOUS
<1> QED BY <1>1, <1>2 DEF Samples

LEMMA MintedFitsKept ==
    ASSUME Inv, TokenInv, MintedFits, [Next]_vars
    PROVE  MintedFits'
<1>0. Quiet \/ Moves
  BY RowMoves
<1>1. SUFFICES ASSUME NEW m \in Models, work'[m].stage \in {"mint", "persist"},
                      NEW values, NEW nend, values = work'[m].minted, nend = work'[m].verdict
               PROVE  Samples(values, nend)'
  <2>1. \A values, nend : Samples(values, nend)' <=>
           \A k \in 1 .. Len(values) : /\ k \in DOMAIN SampleGrid(nend)
                                       /\ \A s \in Shards : \E q \in rows'[s]["efold_value"] :
                                             q.serial = values[k] /\ Same("efold_value", q.key, SampleGrid(nend)[k])
    BY GridsStay, NumbersStay DEF Samples, Cites
  <2> SUFFICES ASSUME NEW m \in Models, work'[m].stage \in {"mint", "persist"}
               PROVE  Samples(work[m].minted, work[m].verdict)'
    BY DEF MintedFits
  <2>2. \A k \in 1 .. Len(work'[m].minted) :
           /\ k \in DOMAIN SampleGrid(work'[m].verdict)
           /\ \A s \in Shards : \E q \in rows'[s]["efold_value"] :
                 q.serial = work'[m].minted[k]
                 /\ Same("efold_value", q.key, SampleGrid(work'[m].verdict)[k])
    BY <1>1, <2>1
  <2> QED BY <2>2, NumbersStay, GridsStay DEF Samples, Cites
<1>2. \A v, e : Samples(v, e) => Samples(v, e)'
  BY <1>0, SamplesStay
<1>3. CASE work'[m] = work[m]
  BY <1>1, <1>2, <1>3 DEF MintedFits
<1>4. \A st, v, mi, se : LET r == WorkRecord(st, v, mi, se) IN
         r.stage = st /\ r.verdict = v /\ r.minted = mi /\ r.serial = se
  BY DEF WorkRecord
<1>5. ASSUME NEW x, Delivering(x)
      PROVE  Samples(values, nend)'
  <2>1. CASE phase = "startup"
    BY <1>3, <1>5, <2>1, GotGrows
  <2>2. CASE phase # "startup"
    <3>1. PICK n \in Models : MintedBy(n, x)
      BY <1>5, <2>2, MintDelivery
    <3>2. CASE n # m
      BY <1>3, <3>1, <3>2 DEF MintedBy
    <3>3. CASE n = m
      <4>1. work[m].stage = "mint" /\ x \in Nat /\ work[m].minted \in Seq(Nat)
        BY <1>5, <3>1, <3>3, WorkShape DEF MintedBy, Minting, Delivering
      <4>2. nend = work[m].verdict /\ values = Append(work[m].minted, x)
        BY <1>1, <3>1, <3>3 DEF MintedBy
      <4>3. Len(work[m].minted) + 1 \in DOMAIN SampleGrid(nend)
        <5>1. /\ work[m].verdict \in Floats(NEnd[m])
              /\ Len(work[m].minted) < Len(SampleGrid(work[m].verdict))
          BY <4>1 DEF TokenInv, Gridded
        <5>2. /\ SampleGrid(nend) \in Seq(Nat)
              /\ DOMAIN SampleGrid(nend) = 1 .. Len(SampleGrid(nend))
          BY <4>2, <5>1, EndFacts
        <5>3. \A a, b \in Nat : a < b => a + 1 \in 1 .. b
          OBVIOUS
        <5>4. Len(work[m].minted) \in Nat /\ Len(SampleGrid(nend)) \in Nat
          BY <4>1, <5>2
        <5> QED BY <4>2, <5>1, <5>2, <5>3, <5>4
      <4>4. /\ Wanted.cls = "efold_value" /\ Wanted.key = SampleGrid(nend)[Len(work[m].minted) + 1]
        BY <3>1, <3>3, <4>2 DEF MintedBy
      <4>5. Cites("efold_value", x, SampleGrid(nend)[Len(work[m].minted) + 1])
        BY <1>5, <4>4, TokenClasses DEF Delivering
      <4>6. Samples(work[m].minted, nend)
        BY <4>1, <4>2 DEF MintedFits
      <4>7. \A v \in Seq(Nat) :
               Samples(v, nend) /\ Len(v) + 1 \in DOMAIN SampleGrid(nend)
                 /\ Cites("efold_value", x, SampleGrid(nend)[Len(v) + 1])
                   => Samples(Append(v, x), nend)
        BY <4>1, SamplesAppend
      <4>8. Samples(values, nend)
        BY <4>1, <4>2, <4>3, <4>5, <4>6, <4>7
      <4> QED BY <1>2, <4>8
    <3> QED BY <3>2, <3>3
  <2> QED BY <2>1, <2>2
<1>6. ASSUME NEW n \in Models, Resolve(n)
      PROVE  Samples(values, nend)'
  <2>0. shift \in Shifts
    BY DEF TokenInv, Started
  <2>1. CASE n # m
    BY <1>3, <1>6, <2>0, <2>1, ResolveShape
  <2>2. CASE n = m
    <3>1. work[m].minted = <<>>
      BY <1>6, <2>2 DEF TokenInv, Gridded, Resolve
    <3>2. values = <<>>
      BY <1>1, <1>4, <1>6, <2>0, <2>2, <3>1, ResolveShape
    <3>3. Len(values) = 0
      BY <3>2
    <3> QED BY <3>3 DEF Samples
  <2> QED BY <2>1, <2>2
<1>7. ASSUME NEW n \in Models, TrajectoryWritten(n)
      PROVE  Samples(values, nend)'
  <2>1. CASE n # m
    BY <1>3, <1>7, <2>1, EndShape
  <2>2. CASE n = m
    <3>1. work'[m].stage \in {"validate", "done"}
      BY <1>4, <1>7, <2>2, EndShape
    <3> QED BY <1>1, <3>1
  <2> QED BY <2>1, <2>2
<1>8. ASSUME LookupModels, NEW s \in Shards, FoundOn(s, m)
      PROVE  FALSE
  <2>1. work'[m].stage \in {"compute", "done"}
    BY <1>4, <1>8 DEF FoundOn
  <2> QED BY <1>1, <2>1
<1>9. CASE Open
  <2>1. work'[m] = NewWork
    BY <1>9 DEF Open
  <2>2. work'[m].stage = "lookup"
    BY <2>1 DEF NewWork
  <2> QED BY <1>1, <2>2
<1> QED BY <1>3, <1>5, <1>6, <1>7, <1>8, <1>9, WorkMoves DEF Idle

-----------------------------------------------------------------------------
(***************************************************************************)
(* Where a trajectory comes from.                                          *)
(***************************************************************************)
LEMMA FlagKeeps ==
    ASSUME NEW r, TrajectoryRow(r)
    PROVE  /\ Flag(r).serial = r.serial /\ Flag(r).nend = r.nend /\ Flag(r).key = r.key
           /\ Flag(r).values = r.values /\ Flag(r).validated /\ Revalidated(r) = Flag(r)
           /\ Flag(r).validated \in BOOLEAN /\ Flag(Flag(r)) = Flag(r)
           /\ TrajectoryRow(Flag(r)) /\ (r.validated \in BOOLEAN /\ r.validated => Flag(r) = r)
<1>1. \A a, k, n, v, e, f, g :
         [[serial |-> a, key |-> k, nend |-> n, values |-> v, expected |-> e, validated |-> f]
             EXCEPT !.validated = g]
            = [serial |-> a, key |-> k, nend |-> n, values |-> v, expected |-> e, validated |-> g]
  OBVIOUS
<1>2. \A g : [r EXCEPT !.validated = g]
                = [serial |-> r.serial, key |-> r.key, nend |-> r.nend, values |-> r.values,
                   expected |-> r.expected, validated |-> g]
  BY <1>1 DEF TrajectoryRow
<1>3. PICK t : t = TRUE
  OBVIOUS
<1>4. Flag(r) = [serial |-> r.serial, key |-> r.key, nend |-> r.nend, values |-> r.values,
                 expected |-> r.expected, validated |-> t]
  BY <1>2, <1>3 DEF Flag
<1>5. Flag(r).key = r.key /\ Flag(r).validated = t
  BY <1>4
<1>6. Revalidated(r) = Flag(r)
  <2>1. (r.nend = NULL \/ r.values # <<>>) = TRUE
    BY DEF TrajectoryRow
  <2> QED BY <2>1 DEF Revalidated, Flag
<1>7. r.validated = t => Flag(r) = r
  BY <1>4 DEF TrajectoryRow
<1>8. r.validated \in BOOLEAN /\ r.validated => r.validated = t
  BY <1>3
<1>9. Flag(r).validated \in BOOLEAN
  BY <1>3, <1>5
<1> QED BY <1>5, <1>6, <1>7, <1>8, <1>9, FlagFacts

LEMMA TrajectoryOrigins ==
    ASSUME Inv, Landed, Quiet \/ Moves, NEW r \in All(IT)'
    PROVE  \/ r \in All(IT)
           \/ \E q \in All(IT) : /\ r = Flag(q)
                                 /\ \/ Torn(q)
                                    \/ \E m \in Models, s \in Shards :
                                          ValidatedAt(m, s) /\ q.serial = work[m].serial
           \/ \E m \in Models, s \in Shards : PersistAt(m, s) /\ r = NewTrajectory(m)
<1>0. /\ \A q : (q \in All(IT) <=> \E s \in Shards : q \in rows[s][IT])
      /\ IT \in Classes /\ \A q \in All(IT) : TrajectoryRow(q)
  BY Names0 DEF All, Inv, Typed, RowsTyped
<1>1. PICK t \in Shards : r \in rows'[t][IT]
  BY DEF All
<1>2. CASE Quiet
  BY <1>0, <1>1, <1>2 DEF Quiet
<1>3. ASSUME NEW s \in Shards, MintAt(s)
      PROVE  r \in All(IT)
  <2>1. Wanted.cls # IT /\ Inserted(s, Wanted.cls, MintRow)
    BY <1>3, WantedFacts DEF MintAt, Inv
  <2> QED BY <2>1, <1>0, <1>1 DEF Inserted
<1>4. ASSUME NEW m \in Models, NEW s \in Shards, PersistAt(m, s)
      PROVE  r \in All(IT) \/ r = NewTrajectory(m)
  <2>1. Inserted(s, IT, NewTrajectory(m))
    BY <1>4 DEF PersistAt
  <2> QED BY <2>1, <1>0, <1>1 DEF Inserted
<1>5. ASSUME NEW w \in Writers, NEW s \in flight[w].left, ReplicaAt(w, s)
      PROVE  r \in All(IT)
  <2> DEFINE d == flight[w].cls
             row == flight[w].row
  <2>1. Inserted(s, d, row) /\ d \in Classes /\ s \in Shards
    BY <1>5 DEF ReplicaAt, WriteTyped
  <2>2. \E u \in Shards : row \in rows[u][d]
    <3>1. flight[w].left # Shards /\ flight[w].left \subseteq Shards
          /\ \A u \in Shards \ flight[w].left : row \in rows[u][d]
      BY <1>5 DEF ReplicaAt, WriteTyped, Landed
    <3> QED BY <3>1
  <2> HIDE DEF d, row
  <2> QED BY <2>1, <2>2, <1>0, <1>1 DEF Inserted
<1>6. ASSUME NEW m \in Models, NEW s \in Shards, ValidatedAt(m, s)
      PROVE  r \in All(IT) \/ \E q \in All(IT) : r = Flag(q) /\ q.serial = work[m].serial
  <2>1. MarkedAt(s, work[m].serial)
    BY <1>6 DEF ValidatedAt
  <2> QED BY <2>1, <1>0, <1>1 DEF MarkedAt, Marked
<1>7. ASSUME NEW prune \in BOOLEAN, NEW tables, OpenedWith(prune, tables)
      PROVE  r \in All(IT) \/ \E q \in All(IT) : r = Flag(q) /\ Torn(q)
  <2>1. r \in Left(IT, prune, tables)
    BY <1>0, <1>1, <1>7 DEF OpenedWith
  <2>2. r \in Mended(IT)
    BY <2>1 DEF Left
  <2>3. PICK q \in All(IT) : r = IF Torn(q) THEN Revalidated(q) ELSE q
    BY <2>2 DEF Mended
  <2>4. Revalidated(q) = Flag(q)
    BY <1>0, FlagKeeps
  <2> QED BY <2>3, <2>4
<1> QED BY <1>2, <1>3, <1>4, <1>5, <1>6, <1>7 DEF Moves

WholeOf(values, nend) ==
    /\ values \in Seq(Nat)
    /\ nend # NULL => /\ \E m \in Models : nend \in Floats(NEnd[m])
                      /\ Len(values) = Len(SampleGrid(nend))
                      /\ Samples(values, nend)

LEMMA WholeStays ==
    ASSUME Inv, TokenInv, Quiet \/ Moves, NEW values, NEW nend, WholeOf(values, nend)
    PROVE  WholeOf(values, nend)'
BY SamplesStay, GridsStay DEF WholeOf

LEMMA TrajectoriesWholeKept ==
    ASSUME Inv, TokenInv, MintedFits, TrajectoriesWhole, [Next]_vars
    PROVE  TrajectoriesWhole'
<1>0. Quiet \/ Moves
  BY RowMoves
<1>1. \A v, e : WholeOf(v, e) => WholeOf(v, e)'
  BY <1>0, WholeStays
<1>2. \A r \in All(IT) : WholeOf(r.values, r.nend) /\ TrajectoryRow(r)
  <2>1. \A r \in All(IT) : TrajectoryRow(r)
    BY Names0 DEF Inv, Typed, RowsTyped, All
  <2> QED BY <2>1 DEF TrajectoriesWhole, Whole, WholeOf
<1>3. ASSUME NEW m \in Models, NEW s \in Shards, PersistAt(m, s)
      PROVE  WholeOf(NewTrajectory(m).values, NewTrajectory(m).nend)
  <2>1. work[m].stage = "persist" /\ work[m].minted \in Seq(Nat)
    BY <1>3, WorkShape DEF PersistAt
  <2>2. /\ NewTrajectory(m).values = work[m].minted
        /\ NewTrajectory(m).nend = work[m].verdict
    BY DEF NewTrajectory
  <2>3. work[m].verdict # NULL =>
           /\ work[m].verdict \in Floats(NEnd[m])
           /\ Len(work[m].minted) = Len(SampleGrid(work[m].verdict))
    BY <2>1 DEF TokenInv, Gridded, Inv, WorkShown, ModelShown
  <2>4. Samples(work[m].minted, work[m].verdict)
    BY <2>1 DEF MintedFits
  <2> QED BY <2>1, <2>2, <2>3, <2>4 DEF WholeOf
<1>4. ASSUME NEW r \in All(IT)'
      PROVE  WholeOf(r.values, r.nend)'
  <2>1. CASE r \in All(IT)
    BY <1>1, <1>2, <2>1
  <2>2. ASSUME NEW q \in All(IT), r = Flag(q)
        PROVE  WholeOf(r.values, r.nend)'
    <3>1. r.values = q.values /\ r.nend = q.nend
      BY <1>2, <2>2, FlagKeeps
    <3> QED BY <1>1, <1>2, <3>1
  <2>3. ASSUME NEW m \in Models, NEW s \in Shards, PersistAt(m, s), r = NewTrajectory(m)
        PROVE  WholeOf(r.values, r.nend)'
    BY <1>1, <1>3, <2>3
  <2> QED BY <1>0, <2>1, <2>2, <2>3, TrajectoryOrigins DEF TokenInv
<1> QED BY <1>4 DEF TrajectoriesWhole, Whole, WholeOf

LEMMA InitCiteInv ==
    ASSUME Init
    PROVE  CiteInv
<1>1. /\ rows = [s \in Shards |-> [c \in Classes |-> {}]] /\ got = <<>>
      /\ work = [m \in Models |-> NewWork]
  BY DEF Init
<1>2. \A m \in Models : work[m].stage = "lookup"
  BY <1>1 DEF NewWork
<1>3. All(IT) = {} /\ Len(got) = 0
  BY <1>1, Names0 DEF All
<1> QED BY <1>2, <1>3 DEF CiteInv, GotFits, MintedFits, TrajectoriesWhole

LEMMA CiteInvAlways == Spec => [](Inv /\ TokenInv /\ CiteInv)
<1>1. Init => Inv /\ TokenInv /\ CiteInv
  BY InitInv, InitTokenInv, InitCiteInv
<1>2. Inv /\ TokenInv /\ CiteInv /\ [Next]_vars => (Inv /\ TokenInv /\ CiteInv)'
  BY InvKept, TokenInvKept, GotFitsKept, MintedFitsKept, TrajectoriesWholeKept DEF CiteInv
<1> QED BY <1>1, <1>2, PTL DEF Spec

-----------------------------------------------------------------------------
(***************************************************************************)
(* A validated trajectory loads whole.                                     *)
(***************************************************************************)
LEMMA RankedEnds ==
    ASSUME NEW N \in SUBSET Nat, IsFiniteSet(N), NEW lo \in N, NEW hi \in N,
           \A y \in N : lo <= y /\ y <= hi
    PROVE  /\ (CHOOSE x \in N : Cardinality({y \in N : y < x}) = 0) = lo
           /\ (CHOOSE x \in N : Cardinality({y \in N : y < x}) = Cardinality(N) - 1) = hi
<1> DEFINE below(x) == {y \in N : y < x}
<1>1. \A x \in N : IsFiniteSet(below(x)) /\ below(x) \subseteq N \ {x}
  BY FS_Subset
<1>2. \A x \in N : Cardinality(below(x)) = 0 <=> x = lo
  <2>1. \A x \in N : Cardinality(below(x)) = 0 <=> below(x) = {}
    BY <1>1, FS_EmptySet
  <2>2. ASSUME NEW x \in N
        PROVE  below(x) = {} <=> x = lo
    <3>1. x # lo => lo \in below(x)
      OBVIOUS
    <3>2. x = lo => \A y \in N : ~(y < x)
      OBVIOUS
    <3> QED BY <3>1, <3>2
  <2> QED BY <2>1, <2>2
<1>3. \A x \in N : Cardinality(below(x)) = Cardinality(N) - 1 <=> x = hi
  <2> TAKE x \in N
  <2>1. IsFiniteSet(N \ {x}) /\ Cardinality(N \ {x}) = Cardinality(N) - 1
    BY FS_RemoveElement
  <2>2. Cardinality(below(x)) = Cardinality(N) - 1 => below(x) = N \ {x}
    BY <1>1, <2>1, FS_Subset
  <2>3. below(x) = N \ {x} <=> x = hi
    <3>1. x # hi => hi \notin below(x) /\ hi \in N \ {x}
      OBVIOUS
    <3>2. x = hi => \A y \in N : y < x <=> y # x
      OBVIOUS
    <3> QED BY <3>1, <3>2
  <2> QED BY <2>1, <2>2, <2>3
<1> HIDE DEF below
<1>4. (CHOOSE x \in N : Cardinality(below(x)) = 0) = lo
  BY <1>2
<1>5. (CHOOSE x \in N : Cardinality(below(x)) = Cardinality(N) - 1) = hi
  BY <1>3
<1> QED BY <1>4, <1>5 DEF below

LEMMA WholeLoads ==
    ASSUME TokenInv, NEW s \in Shards, NEW r, Whole(r), r.nend # NULL
    PROVE  LET N == Loaded(s, r) IN
           /\ Len(N) = Len(r.values)
           /\ N[1] = 0 /\ \E d, e \in Shifts : Last(N) - r.nend = d - e
<1> DEFINE ev == "efold_value"
           table == rows[s][ev]
           values == r.values
           grid == SampleGrid(r.nend)
           n == Len(values)
           N == {q.key : q \in {t \in table : \E i \in DOMAIN values : values[i] = t.serial}}
           K == [k \in 1 .. n |-> (CHOOSE t \in table : t.serial = values[k]).key]
<1>1. PICK m \in Models : r.nend \in Floats(NEnd[m])
  BY DEF Whole
<1>2. /\ r.nend \in Nat \ {0} /\ Spread \in Nat
      /\ grid \in Seq(Nat) /\ Len(grid) >= 2 /\ DOMAIN grid = 1 .. Len(grid)
      /\ grid[1] = 0 /\ grid[Len(grid)] = r.nend
      /\ \A k \in 1 .. Len(grid) : grid[k] <= r.nend /\ grid[k] \in KeysOf(ev)
      /\ \A j, k \in 1 .. Len(grid) : j # k => Abs(grid[j] - grid[k]) > Spread
  BY <1>1, EndFacts, NumbersApart
<1>3. n = Len(grid) /\ values \in Seq(Nat) /\ Samples(values, r.nend)
  BY DEF Whole
<1>4. DOMAIN values = 1 .. n /\ n \in Nat /\ n >= 2
  BY <1>2, <1>3
<1>5. \A x, y : Same(ev, x, y) <=> Abs(x - y) <= Spread
  BY DEF Same, Measured
<1>6. \A q \in table : q.key \in KeysOf(ev) /\ q.key \in Nat /\ \A p \in table : p.serial = q.serial => p = q
  <2>1. \A q \in table : q \in All(ev)
    BY DEF All
  <2>2. ev \in Tokens
    BY TokenClasses
  <2> QED BY <2>1, <2>2, PointsAreNat DEF TokenInv, TokensTyped, TokensUnique
<1>7. ASSUME NEW k \in 1 .. n
      PROVE  /\ K[k] \in N /\ Same(ev, K[k], grid[k]) /\ K[k] \in KeysOf(ev)
             /\ \A t \in table : t.serial = values[k] => K[k] = t.key
  <2>1. Cites(ev, values[k], grid[k])
    BY <1>3 DEF Samples
  <2>2. PICK q \in table : q.serial = values[k] /\ Same(ev, q.key, grid[k])
    BY <2>1 DEF Cites
  <2>3. (CHOOSE t \in table : t.serial = values[k]) = q
    BY <1>6, <2>2
  <2>4. K[k] = q.key
    BY <2>3
  <2>5. q.key \in N
    BY <2>2, <1>4
  <2> QED BY <1>6, <2>2, <2>4, <2>5
<1>8. \A y \in N : y \in Nat /\ \E k \in 1 .. n : y = K[k]
  <2> SUFFICES ASSUME NEW q \in table, NEW i \in DOMAIN values, values[i] = q.serial
               PROVE  q.key \in Nat /\ \E k \in 1 .. n : q.key = K[k]
    OBVIOUS
  <2> QED BY <1>4, <1>6, <1>7
<1> HIDE DEF N, K
<1>9. ev \in Tokens
  BY TokenClasses
\* The tokens are as many as the samples
<1>10. \A j, k \in 1 .. n : Same(ev, K[j], grid[k]) => j = k
  <2> SUFFICES ASSUME NEW j \in 1 .. n, NEW k \in 1 .. n, Same(ev, K[j], grid[k]) PROVE j = k
    OBVIOUS
  <2>1. Same(ev, K[j], grid[j]) /\ K[j] \in KeysOf(ev) /\ grid[j] \in KeysOf(ev) /\ grid[k] \in KeysOf(ev)
    BY <1>2, <1>3, <1>7
  <2>2. Same(ev, grid[j], grid[k])
    BY <1>9, <2>1, SameFacts
  <2>3. grid[j] \in Nat /\ grid[k] \in Nat
    BY <2>1, PointsAreNat
  <2>4. Abs(grid[j] - grid[k]) \in Int
    BY <2>3 DEF Abs
  <2> QED BY <1>2, <1>3, <1>5, <2>2, <2>4
<1>11. IsFiniteSet(N) /\ Cardinality(N) = n
  <2>1. K \in Bijection(1 .. n, N)
    <3>1. DOMAIN K = 1 .. n /\ K = [k \in 1 .. n |-> K[k]]
      BY DEF K
    <3>2. \A j, k \in 1 .. n : K[j] = K[k] => j = k
      BY <1>7, <1>10
    <3> QED BY <3>1, <3>2, <1>7, <1>8 DEF Bijection, Injection, Surjection, IsInjective
  <2>2. IsFiniteSet(1 .. n) /\ Cardinality(1 .. n) = n
    BY <1>4, FS_Interval
  <2> QED BY <2>1, <2>2, FS_Bijection DEF ExistsBijection
\* the first of them is zero and the last the end of inflation
<1>12. 0 \in N
  <2>1. Same(ev, K[1], 0) /\ K[1] \in KeysOf(ev) /\ 0 \in KeysOf(ev) /\ K[1] \in N
    BY <1>2, <1>3, <1>4, <1>7
  <2>2. Answers(ev, K[1], 0)
    BY <1>9, <2>1, AnswersIsSame
  <2>3. K[1] = 0
    BY <2>2 DEF Answers, efold_value, Near
  <2> QED BY <2>1, <2>3
<1>13. \A k \in 1 .. n : K[k] <= K[n]
  <2> SUFFICES ASSUME NEW k \in 1 .. n, k # n, K[k] > K[n] PROVE FALSE
    BY <1>4, <1>7, <1>8
  <2>1. n \in 1 .. n /\ grid[n] = r.nend /\ grid[n] \in KeysOf(ev) /\ grid[k] \in KeysOf(ev)
    BY <1>2, <1>3, <1>4
  <2>2. K[k] \in Nat /\ K[n] \in Nat /\ grid[k] \in Nat /\ grid[n] \in Nat
    BY <1>7, <1>8, <2>1, PointsAreNat
  <2>3. Abs(K[k] - grid[k]) <= Spread /\ Abs(K[n] - grid[n]) <= Spread
    BY <1>5, <1>7, <2>1
  <2>4. Abs(grid[k] - grid[n]) > Spread /\ grid[k] <= grid[n]
    BY <1>2, <1>3, <2>1
  <2>5. Abs(K[k] - grid[n]) <= Spread
    <3>1. \A a, b, c, d \in Nat : a > b /\ c <= d /\ Abs(a - c) <= Spread /\ Abs(b - d) <= Spread
                                      /\ Abs(c - d) > Spread => Abs(a - d) <= Spread
      BY <1>2 DEF Abs
    <3> DEFINE a == K[k]
               b == K[n]
               c == grid[k]
               d == grid[n]
    <3>2. /\ a \in Nat /\ b \in Nat /\ c \in Nat /\ d \in Nat /\ a > b /\ c <= d
          /\ Abs(a - c) <= Spread /\ Abs(b - d) <= Spread /\ Abs(c - d) > Spread
      BY <2>2, <2>3, <2>4
    <3> HIDE DEF a, b, c, d
    <3>3. Abs(a - d) <= Spread
      BY <3>1, <3>2
    <3> QED BY <3>3 DEF a, d
  <2> QED BY <1>5, <1>10, <2>1, <2>5
<1>14. n \in 1 .. n /\ K[n] \in N /\ \A y \in N : 0 <= y /\ y <= K[n]
  BY <1>4, <1>7, <1>8, <1>13
<1>15. /\ (CHOOSE x \in N : Cardinality({y \in N : y < x}) = 0) = 0
       /\ (CHOOSE x \in N : Cardinality({y \in N : y < x}) = Cardinality(N) - 1) = K[n]
  <2>1. N \in SUBSET Nat
    BY <1>8
  <2> QED BY <1>11, <1>12, <1>14, <2>1, RankedEnds
<1>16. Loaded(s, r) = [k \in 1 .. Cardinality(N) |-> CHOOSE x \in N : Cardinality({y \in N : y < x}) = k - 1]
  BY DEF Loaded, N
<1> DEFINE Point(k) == CHOOSE x \in N : Cardinality({y \in N : y < x}) = k - 1
           R == [k \in 1 .. n |-> Point(k)]
<1>17. Loaded(s, r) = R
  BY <1>11, <1>16
<1>18. Len(R) = n /\ R[1] = 0 /\ R[n] = K[n]
  <2>1. Point(1) = 0
    <3>1. 1 - 1 = 0
      OBVIOUS
    <3> QED BY <1>15, <3>1
  <2>2. Point(n) = K[n]
    BY <1>11, <1>15
  <2> HIDE DEF Point
  <2> QED BY <1>4, <2>1, <2>2
<1>19. \E d, e \in Shifts : K[n] - r.nend = d - e
  <2>1. grid[n] = r.nend /\ K[n] \in Nat /\ Abs(K[n] - r.nend) <= Spread
    BY <1>2, <1>3, <1>5, <1>7, <1>8, <1>14
  <2>2. CASE K[n] >= r.nend
    <3>1. K[n] - r.nend \in Shifts /\ 0 \in Shifts /\ K[n] - r.nend = (K[n] - r.nend) - 0
      BY <1>2, <2>1, <2>2 DEF Abs, Shifts
    <3> QED BY <3>1
  <2>3. CASE K[n] < r.nend
    <3>1. r.nend - K[n] \in Shifts /\ 0 \in Shifts /\ K[n] - r.nend = 0 - (r.nend - K[n])
      BY <1>2, <2>1, <2>3 DEF Abs, Shifts
    <3> QED BY <3>1
  <2> QED BY <1>2, <2>1, <2>2, <2>3
<1> HIDE DEF R
<1> QED BY <1>17, <1>18, <1>19 DEF Last

\* Every trajectory that did not fail, validated or not, loads with all its samples, from
\* zero to where inflation ends: the serials it names are tokens of its grid points, as
\* many as the points because no two of them are one number, and the order of their
\* numbers is that of the points.
THEOREM ValidatedTrajectoriesSpan == Spec => []ValidatedSpans
<1>1. TokenInv /\ CiteInv => ValidatedSpans
  <2> SUFFICES ASSUME TokenInv, CiteInv, NEW s \in Shards, NEW r \in Trajectories(s),
                      r.validated, r.nend # NULL
               PROVE  LET N == Loaded(s, r) IN
                      /\ Len(N) = Len(r.values)
                      /\ N[1] = 0 /\ \E d, e \in Shifts : Last(N) - r.nend = d - e
    BY DEF ValidatedSpans
  <2>1. Whole(r)
    BY DEF CiteInv, TrajectoriesWhole, All, Trajectories, IT
  <2> QED BY <2>1, WholeLoads
<1> QED BY <1>1, CiteInvAlways, PTL

-----------------------------------------------------------------------------
(***************************************************************************)
(* A trajectory is one model's.                                            *)
(***************************************************************************)
\* Potentials of two models are never one row: their masses are two numbers
LEMMA KeysDiffer ==
    ASSUME Inv, TokenInv, CiteInv, Len(got) = Len(Startup), NEW s \in Shards,
           NEW m \in Models, NEW n \in Models, m # n
    PROVE  TrajectoryKey(m) # TrajectoryKey(n)
<1> SUFFICES ASSUME TrajectoryKey(m) = TrajectoryKey(n) PROVE FALSE
  OBVIOUS
<1> DEFINE i == Potential[m]
           j == Potential[n]
           c == Startup[i].cls
           a == Startup[i].key
           b == Startup[j].key
           d == MadeOf[c]
<1>1. i # j /\ i \in DOMAIN Startup /\ j \in DOMAIN Startup /\ c \in DOMAIN MadeOf
  BY ModelsApart, RunParameters DEF IsInjective
<1>2. Startup[j].cls = c /\ got[i] = got[j]
  BY DEF TrajectoryKey
<1>3. /\ DOMAIN Startup = 1 .. Len(got) /\ Len(got) \in Nat
      /\ a \in DOMAIN Startup /\ b \in DOMAIN Startup
      /\ Startup[a].cls = d /\ Startup[b].cls = d
  BY <1>1, <1>2, RunParameters
<1>4. /\ c \in Tokens /\ c \notin Measured /\ c \notin Rounded
      /\ d \in Tokens /\ d \notin DOMAIN MadeOf /\ d # "efold_value"
  <2>1. c \in {"QuadraticPotential", "QuarticPotential"} /\ d \in {"inflaton_mass", "quartic_coupling"}
    BY <1>1 DEF MadeOf
  <2>2. c \in Classes /\ d \in Classes
    BY <1>1, <1>3 DEF Classes
  <2> QED BY <2>1, <2>2 DEF Tokens, Measured, Rounded, FirstRowOf, IT, MadeOf
<1>5. \A k \in DOMAIN Startup : Startup[k].cls \in Tokens => Fits(k)
  BY <1>3 DEF CiteInv, GotFits
<1>6. Cites(c, got[i], got[a]) /\ Cites(c, got[i], got[b])
  BY <1>1, <1>2, <1>4, <1>5 DEF Fits
<1>7. got[a] = got[b]
  <2>1. got[a] \in KeysOf(c) /\ got[b] \in KeysOf(c)
    <3>1. got \in Seq(Nat)
      BY DEF Inv, Typed
    <3>2. got[a] \in Nat /\ got[b] \in Nat
      BY <1>3, <3>1
    <3> QED BY <1>1, <3>2 DEF KeysOf
  <2>2. Same(c, got[a], got[b])
    BY <1>4, <1>6, <2>1, CitesOne
  <2> QED BY <1>4, <2>2 DEF Same
<1>8. CASE a = b
  <2>1. /\ DOMAIN Startup[i] = {"cls", "key"} /\ DOMAIN Startup[j] = {"cls", "key"}
    BY <1>1, RunParameters
  <2>2. Numbers(i) = {a} /\ Numbers(j) = {b}
    BY <1>2, <1>4 DEF Numbers
  <2>3. ~Answers(c, a, b)
    BY <1>1, <1>2, <2>2, ModelsApart
  <2>4. Answers(c, a, a)
    BY <1>1 DEF MadeOf, Answers, QuadraticPotential, QuarticPotential
  <2> QED BY <1>8, <2>3, <2>4
<1>9. CASE a # b
  <2>1. Fits(a) /\ Fits(b)
    BY <1>3, <1>4, <1>5
  <2>2. PICK x \in Numbers(a) : Cites(d, got[a], x)
    BY <1>3, <1>4, <2>1 DEF Fits
  <2>3. PICK y \in Numbers(b) : Cites(d, got[b], y)
    BY <1>3, <1>4, <2>1 DEF Fits
  <2>4. x \in KeysOf(d) /\ y \in KeysOf(d)
    BY <1>3, <1>4 DEF KeysOf, Asked
  <2>5. Same(d, x, y)
    BY <1>4, <1>7, <2>2, <2>3, <2>4, CitesOne
  <2>6. Answers(d, x, y)
    BY <1>4, <2>4, <2>5, AnswersIsSame
  <2> QED BY <1>3, <1>9, <2>6, ModelsApart
<1> QED BY <1>8, <1>9

-----------------------------------------------------------------------------
(***************************************************************************)
(* Two rows of one serial are one trajectory.                              *)
(***************************************************************************)
LEMMA ApartFacts ==
    ASSUME Inv, KeyInv
    PROVE  /\ \A r \in All(IT) : /\ TrajectoryRow(r) /\ r.serial \in Nat /\ r.serial < next[IT]
                                 /\ r.validated \in BOOLEAN
           /\ \A q, r \in All(IT) : q.serial = r.serial => Flag(q) = Flag(r) /\ q.key = r.key /\ q.nend = r.nend
           /\ \A q, r \in All(IT) : q.serial = r.serial /\ q # r => q.validated \/ r.validated
           /\ \A s \in Shards : \A q, r \in rows[s][IT] : q.serial = r.serial => q = r
<1>1. \A r \in All(IT) : /\ TrajectoryRow(r) /\ r.serial \in Nat /\ r.serial < next[IT]
                         /\ r.validated \in BOOLEAN
  BY Names0 DEF All, Inv, Typed, RowsTyped, KeyInv, TrajectoriesApart
<1>2. \A q, r \in All(IT) : q.serial = r.serial => Flag(q) = Flag(r)
  BY DEF KeyInv, TrajectoriesApart
<1>3. \A r \in All(IT) : Flag(r).key = r.key /\ Flag(r).nend = r.nend /\ (~r.validated \/ Flag(r) = r)
  BY <1>1, FlagKeeps
<1>4. ASSUME NEW q \in All(IT), NEW r \in All(IT), q.serial = r.serial, ~q.validated, ~r.validated
      PROVE  q = r
  <2>1. q.validated = r.validated
    BY <1>1, <1>4
  <2>2. \A x \in All(IT) : Flag(x).values = x.values /\ Flag(x).serial = x.serial
    BY <1>1, FlagKeeps
  <2>3. \A x \in All(IT) : Flag(x).expected = x.expected
    <3> TAKE x \in All(IT)
    <3>1. x = [serial |-> x.serial, key |-> x.key, nend |-> x.nend, values |-> x.values,
               expected |-> x.expected, validated |-> x.validated]
      BY <1>1 DEF TrajectoryRow
    <3>2. \A a, k, n, v, e, f, g :
             [[serial |-> a, key |-> k, nend |-> n, values |-> v, expected |-> e, validated |-> f]
                 EXCEPT !.validated = g].expected = e
      OBVIOUS
    <3>3. \A g : [x EXCEPT !.validated = g].expected = x.expected
      BY <3>1, <3>2
    <3> QED BY <3>3 DEF Flag
  <2>4. /\ q.serial = r.serial /\ q.key = r.key /\ q.nend = r.nend /\ q.values = r.values
        /\ q.expected = r.expected /\ q.validated = r.validated
    BY <1>2, <1>3, <1>4, <2>1, <2>2, <2>3
  <2> QED BY <1>1, <2>4 DEF TrajectoryRow
<1>5. \A s \in Shards : \A q, r \in rows[s][IT] : q.serial = r.serial => q = r
  BY DEF KeyInv, TrajectoriesApart, Trajectories, IT
<1> QED BY <1>1, <1>2, <1>3, <1>4, <1>5

\* A trajectory is one that was there, with its flag or with the flag just set, or the one
\* that is persisted
LEMMA Traced ==
    ASSUME Inv, TokenInv, KeyInv, Quiet \/ Moves, NEW r \in All(IT)'
    PROVE  \/ \E q \in All(IT) : /\ q.serial = r.serial /\ q.key = r.key /\ q.nend = r.nend
                                 /\ Flag(q) = Flag(r)
                                 /\ r.validated \in BOOLEAN
                                 /\ r.validated => \/ q.validated
                                                   \/ \E m \in Models, s \in Shards :
                                                         ValidatedAt(m, s) /\ q.serial = work[m].serial
           \/ \E m \in Models, s \in Shards : PersistAt(m, s) /\ r = NewTrajectory(m)
<1>1. CASE r \in All(IT)
  BY <1>1, ApartFacts
<1>2. ASSUME NEW q \in All(IT), r = Flag(q)
      PROVE  /\ q.serial = r.serial /\ q.key = r.key /\ q.nend = r.nend /\ Flag(q) = Flag(r)
             /\ r.validated \in BOOLEAN
  BY <1>2, ApartFacts, FlagKeeps
<1>3. ASSUME NEW q \in All(IT), r = Flag(q), Torn(q)
      PROVE  \E p \in All(IT) : /\ p.serial = r.serial /\ p.key = r.key /\ p.nend = r.nend
                                /\ Flag(p) = Flag(r) /\ p.validated
  <2>1. PICK p \in All(IT) : p.serial = q.serial /\ p # q
    BY <1>3 DEF Torn
  <2>2. p.validated \/ q.validated
    BY <2>1, ApartFacts
  <2>3. p.key = q.key /\ p.nend = q.nend /\ Flag(p) = Flag(q)
    BY <2>1, ApartFacts
  <2> QED BY <1>2, <1>3, <2>1, <2>2, <2>3
<1>4. \/ r \in All(IT)
      \/ \E q \in All(IT) : /\ r = Flag(q)
                            /\ \/ Torn(q)
                               \/ \E m \in Models, s \in Shards :
                                     ValidatedAt(m, s) /\ q.serial = work[m].serial
      \/ \E m \in Models, s \in Shards : PersistAt(m, s) /\ r = NewTrajectory(m)
  BY TrajectoryOrigins DEF TokenInv
<1> QED BY <1>1, <1>2, <1>3, <1>4

LEMMA TrajectoryFacts ==
    ASSUME Inv, NEW m \in Models
    PROVE  /\ NewTrajectory(m).serial = next[IT] /\ NewTrajectory(m).key = TrajectoryKey(m)
           /\ NewTrajectory(m).nend = work[m].verdict /\ ~NewTrajectory(m).validated
           /\ NewTrajectory(m).validated \in BOOLEAN
BY DEF NewTrajectory, IT

\* One model persists at a time
LEMMA OnePersists ==
    ASSUME Inv, NEW m \in Models, NEW s \in Shards, PersistAt(m, s),
           NEW n \in Models, NEW t \in Shards, PersistAt(n, t)
    PROVE  m = n
<1> SUFFICES ASSUME m # n PROVE FALSE
  OBVIOUS
<1>1. flight'[m] = [op |-> "insert", cls |-> IT, row |-> NewTrajectory(m), left |-> Shards \ {s}]
  BY Names0, NewFlight DEF PersistAt
<1>2. flight'[m] = flight[m] /\ ~InFlight(m)
  BY Names0, NewFlight DEF PersistAt
<1> QED BY <1>1, <1>2 DEF InFlight

LEMMA ApartOnShards ==
    ASSUME Inv, TokenInv, KeyInv, Quiet \/ Moves, NEW t \in Shards,
           NEW q \in rows'[t][IT], NEW r \in rows'[t][IT], q.serial = r.serial
    PROVE  q = r
<1>0. /\ \A x \in All(IT) : /\ TrajectoryRow(x) /\ x.serial \in Nat /\ x.serial < next[IT]
                            /\ x.validated \in BOOLEAN
      /\ \A x, y \in All(IT) : x.serial = y.serial => Flag(x) = Flag(y) /\ x.key = y.key /\ x.nend = y.nend
      /\ \A s \in Shards : \A x, y \in rows[s][IT] : x.serial = y.serial => x = y
      /\ IT \in Classes /\ \A x : x \in All(IT) <=> \E s \in Shards : x \in rows[s][IT]
      /\ next[IT] \in Nat
  BY ApartFacts, Names0 DEF All, Inv, Typed
<1>1. CASE Quiet
  BY <1>0, <1>1 DEF Quiet
<1>2. ASSUME NEW s \in Shards, MintAt(s)
      PROVE  q = r
  <2>1. Wanted.cls # IT /\ Inserted(s, Wanted.cls, MintRow)
    BY <1>2, WantedFacts DEF MintAt, Inv
  <2> QED BY <2>1, <1>0 DEF Inserted
<1>3. ASSUME NEW s \in Shards, NEW row, Inserted(s, IT, row),
             \A x \in rows[s][IT] : x.serial = row.serial => x = row
      PROVE  q = r
  BY <1>0, <1>3 DEF Inserted
<1>4. ASSUME NEW m \in Models, NEW s \in Shards, PersistAt(m, s)
      PROVE  q = r
  <2>1. Inserted(s, IT, NewTrajectory(m)) /\ NewTrajectory(m).serial = next[IT]
    BY <1>4, TrajectoryFacts DEF PersistAt
  <2>2. \A x \in rows[s][IT] : x.serial # next[IT]
    BY <1>0
  <2> QED BY <1>3, <2>1, <2>2
<1>5. ASSUME NEW w \in Writers, NEW s \in flight[w].left, ReplicaAt(w, s)
      PROVE  q = r
  <2>1. /\ Inserted(s, flight[w].cls, flight[w].row) /\ s \in Shards /\ InFlight(w)
        /\ flight[w].op = "insert" /\ WriteTyped(w)
    BY <1>5 DEF ReplicaAt
  <2>2. CASE flight[w].cls # IT
    BY <1>0, <2>1, <2>2 DEF Inserted
  <2>3. CASE flight[w].cls = IT
    <3>1. w \in Models
      BY <2>1, <2>3, Names0 DEF WriteTyped
    <3>2. \A x \in All(IT) : x.serial = flight[w].row.serial => x = flight[w].row
      BY <2>1, <3>1 DEF KeyInv, WorkKeyed, ModelKeyed
    <3> QED BY <1>0, <1>3, <2>1, <2>3, <3>2
  <2> QED BY <2>2, <2>3
<1>6. ASSUME NEW m \in Models, NEW s \in Shards, ValidatedAt(m, s)
      PROVE  q = r
  <2>1. MarkedAt(s, work[m].serial)
    BY <1>6 DEF ValidatedAt
  <2>2. CASE t # s
    BY <1>0, <2>1, <2>2 DEF MarkedAt
  <2>3. CASE t = s
    <3>1. q \in Marked(rows[s][IT], work[m].serial) /\ r \in Marked(rows[s][IT], work[m].serial)
      BY <2>1, <2>3 DEF MarkedAt
    <3>2. PICK x \in rows[s][IT] : q = IF x.serial = work[m].serial THEN Flag(x) ELSE x
      BY <3>1 DEF Marked
    <3>3. PICK y \in rows[s][IT] : r = IF y.serial = work[m].serial THEN Flag(y) ELSE y
      BY <3>1 DEF Marked
    <3>4. q.serial = x.serial /\ r.serial = y.serial
      <4>1. TrajectoryRow(x) /\ TrajectoryRow(y)
        BY <1>0
      <4>2. Flag(x).serial = x.serial /\ Flag(y).serial = y.serial
        BY <4>1, FlagKeeps
      <4> QED BY <3>2, <3>3, <4>2
    <3>5. x = y
      BY <1>0, <3>4
    <3> QED BY <3>2, <3>3, <3>5
  <2> QED BY <2>2, <2>3
<1>7. ASSUME NEW prune \in BOOLEAN, NEW tables, OpenedWith(prune, tables)
      PROVE  q = r
  <2>1. q \in Mended(IT) /\ r \in Mended(IT)
    BY <1>0, <1>7 DEF OpenedWith, Left
  <2>2. PICK x \in All(IT) : q = IF Torn(x) THEN Revalidated(x) ELSE x
    BY <2>1 DEF Mended
  <2>3. PICK y \in All(IT) : r = IF Torn(y) THEN Revalidated(y) ELSE y
    BY <2>1 DEF Mended
  <2>4. /\ Revalidated(x) = Flag(x) /\ Flag(x).serial = x.serial
        /\ Revalidated(y) = Flag(y) /\ Flag(y).serial = y.serial
    BY <1>0, FlagKeeps
  <2>5. x.serial = y.serial
    BY <2>2, <2>3, <2>4
  <2>6. CASE x = y
    BY <2>2, <2>3, <2>6
  <2>7. CASE x # y
    <3>1. Torn(x) /\ Torn(y)
      BY <2>5, <2>7 DEF Torn
    <3> QED BY <1>0, <2>2, <2>3, <2>4, <2>5, <3>1
  <2> QED BY <2>6, <2>7
<1> QED BY <1>1, <1>2, <1>4, <1>5, <1>6, <1>7 DEF Moves

LEMMA ApartKept ==
    ASSUME Inv, TokenInv, KeyInv, Quiet \/ Moves
    PROVE  TrajectoriesApart'
<1>0. /\ \A x \in All(IT) : x.serial \in Nat /\ x.serial < next[IT]
      /\ \A x, y \in All(IT) : x.serial = y.serial => Flag(x) = Flag(y)
      /\ next[IT] \in Nat /\ next'[IT] \in Nat /\ next[IT] <= next'[IT]
  BY ApartFacts, NextGrows, Names0
<1>1. \A r \in All(IT)' :
         \/ r.validated \in BOOLEAN /\ \E q \in All(IT) : q.serial = r.serial /\ Flag(q) = Flag(r)
         \/ \E m \in Models, s \in Shards : PersistAt(m, s) /\ r = NewTrajectory(m)
  BY Traced
<1>2. \A m \in Models, s \in Shards : PersistAt(m, s) => next'[IT] = next[IT] + 1
  BY Names0 DEF PersistAt, Inv, Typed
<1>3. \A r \in All(IT)' : r.serial < next'[IT] /\ r.validated \in BOOLEAN
  BY <1>0, <1>1, <1>2, TrajectoryFacts
<1>4. ASSUME NEW q \in All(IT)', NEW r \in All(IT)', q.serial = r.serial
      PROVE  Flag(q) = Flag(r)
  <2>1. ASSUME NEW m \in Models, NEW s \in Shards, PersistAt(m, s), q = NewTrajectory(m),
               NEW n \in Models, NEW t \in Shards, PersistAt(n, t), r = NewTrajectory(n)
        PROVE  q = r
    BY <2>1, OnePersists
  <2>2. \A x \in All(IT), m \in Models : x.serial # NewTrajectory(m).serial
    BY <1>0, TrajectoryFacts
  <2> QED BY <1>0, <1>1, <1>4, <2>1, <2>2
<1>5. \A s \in Shards : \A q, r \in rows'[s][IT] : q.serial = r.serial => q = r
  BY ApartOnShards
<1> QED BY <1>3, <1>4, <1>5 DEF TrajectoriesApart, Trajectories, IT

LEMMA OneValidatedKept ==
    ASSUME Inv, TokenInv, CiteInv, KeyInv, Quiet \/ Moves
    PROVE  OneValidated'
<1> SUFFICES ASSUME NEW q \in All(IT)', NEW r \in All(IT)', q.validated, r.validated, q.key = r.key
             PROVE  q.serial = r.serial
  BY DEF OneValidated
<1>0. \A x, y \in All(IT) : x.validated /\ y.validated /\ x.key = y.key => x.serial = y.serial
  BY DEF KeyInv, OneValidated
<1>1. PICK x \in All(IT) : /\ x.serial = q.serial /\ x.key = q.key
                           /\ x.validated \/ \E m \in Models, s \in Shards :
                                                ValidatedAt(m, s) /\ x.serial = work[m].serial
  BY Traced, TrajectoryFacts
<1>2. PICK y \in All(IT) : /\ y.serial = r.serial /\ y.key = r.key
                           /\ y.validated \/ \E m \in Models, s \in Shards :
                                                ValidatedAt(m, s) /\ y.serial = work[m].serial
  BY Traced, TrajectoryFacts
\* The one that is being validated is the one its model has
<1>3. ASSUME NEW m \in Models, NEW s \in Shards, ValidatedAt(m, s)
      PROVE  /\ work[m].stage = "validate"
             /\ \A z \in All(IT) : z.serial = work[m].serial => z.key = TrajectoryKey(m)
             /\ \A z \in All(IT) : z.validated /\ z.key = TrajectoryKey(m) => z.serial = work[m].serial
  BY <1>3 DEF ValidatedAt, KeyInv, WorkKeyed, ModelKeyed
<1>4. ASSUME NEW m \in Models, NEW s \in Shards, ValidatedAt(m, s), x.serial = work[m].serial,
             NEW n \in Models, NEW t \in Shards, ValidatedAt(n, t), y.serial = work[n].serial
      PROVE  x.serial = y.serial
  <2>1. CASE m = n
    BY <1>4, <2>1
  <2>2. CASE m # n
    <3>1. x.key = TrajectoryKey(m) /\ y.key = TrajectoryKey(n)
      BY <1>3, <1>4
    <3>2. Len(got) = Len(Startup)
      BY <1>3, <1>4 DEF KeyInv, WorkKeyed, ModelKeyed
    <3> QED BY <1>1, <1>2, <2>2, <3>1, <3>2, KeysDiffer
  <2> QED BY <2>1, <2>2
<1> QED BY <1>0, <1>1, <1>2, <1>3, <1>4

-----------------------------------------------------------------------------
(***************************************************************************)
(* A model has the trajectory of its key.                                  *)
(***************************************************************************)
LEMMA FlightOrigins ==
    ASSUME Inv, Quiet \/ Moves, NEW m \in Models, InFlight(m)', flight'[m].op = "insert"
    PROVE  \/ InFlight(m) /\ flight[m].op = "insert" /\ flight'[m].row = flight[m].row
           \/ \E s \in Shards : PersistAt(m, s) /\ flight'[m].row = NewTrajectory(m)
<1>0. m \in Writers /\ "driver" \in Writers /\ m # "driver"
  BY Names0
<1>1. CASE flight'[m] = flight[m] \/ flight'[m] = NoWrite
  BY <1>1 DEF InFlight, NoWrite
<1>2. ASSUME NEW s \in Shards, MintAt(s)
      PROVE  flight'[m] = flight[m]
  BY <1>0, <1>2, NewFlight DEF MintAt
<1>3. ASSUME NEW n \in Models, NEW s \in Shards, PersistAt(n, s)
      PROVE  flight'[m] = flight[m] \/ (PersistAt(m, s) /\ flight'[m].row = NewTrajectory(m))
  <2>1. /\ flight'[n] = [op |-> "insert", cls |-> IT, row |-> NewTrajectory(n), left |-> Shards \ {s}]
        /\ \A v \in Writers : v # n => flight'[v] = flight[v]
    BY <1>3, Names0, NewFlight DEF PersistAt
  <2> QED BY <1>0, <1>3, <2>1
<1>4. ASSUME NEW w \in Writers, NEW s \in flight[w].left, ReplicaAt(w, s)
      PROVE  \/ flight'[m] = flight[m]
             \/ InFlight(m) /\ flight[m].op = "insert" /\ flight'[m].row = flight[m].row
  BY <1>0, <1>4, PassedFlight DEF ReplicaAt
<1>5. ASSUME NEW n \in Models, NEW s \in Shards, ValidatedAt(n, s)
      PROVE  flight'[m] = flight[m]
  <2>1. n \in Writers
    BY Names0
  <2>2. CASE ~InFlight(n)
    <3>1. /\ flight'[n] = [op |-> "validate", cls |-> IT, row |-> [serial |-> work[n].serial],
                           left |-> Shards \ {s}]
          /\ \A v \in Writers : v # n => flight'[v] = flight[v]
      BY <1>5, <2>1, <2>2, NewFlight DEF ValidatedAt
    <3> QED BY <1>0, <3>1
  <2>3. CASE InFlight(n)
    <3>1. /\ flight[n].op = "validate" /\ flight'[n].op = flight[n].op
          /\ \A v \in Writers : v # n => flight'[v] = flight[v]
      <4>1. flight[n].op = "validate" /\ flight' = [flight EXCEPT ![n].left = @ \ {s}]
        BY <1>5, <2>3 DEF ValidatedAt
      <4> QED BY <2>1, <2>3, <4>1, PassedFlight
    <3> QED BY <1>0, <3>1
  <2> QED BY <2>2, <2>3
<1>6. ASSUME NEW prune, NEW tables, OpenedWith(prune, tables)
      PROVE  flight'[m] = NoWrite
  BY <1>0, <1>6 DEF OpenedWith
<1> QED BY <1>0, <1>1, <1>2, <1>3, <1>4, <1>5, <1>6 DEF Moves, Quiet

\* With no model's write on its way every shard has the same trajectories
LEMMA TrajectoriesAgree ==
    ASSUME Inv, \A m \in Models : ~InFlight(m), NEW s \in Shards, NEW t \in Shards
    PROVE  rows[s][IT] = rows[t][IT]
<1>1. \A w \in Writers : InFlight(w) => w = "driver" /\ flight[w].cls # IT /\ flight[w].op = "insert"
  BY Names0 DEF Inv, Typed, FlightsTyped, WriteTyped
<1>2. \A u \in Shards : Settled(u, IT) = rows[u][IT]
  <2>1. \A w \in Writers, u \in Shards : ~Inserts(w, u, IT)
    BY <1>1 DEF Inserts
  <2>2. \A w \in Writers, u \in Shards : \A x : ~Validates(w, u, x)
    BY <1>1 DEF Validates
  <2>3. \A u \in Shards : \A r : Finish(u, IT, r) = r
    BY <2>2 DEF Finish
  <2> QED BY <2>1, <2>3 DEF Settled
<1> QED BY <1>2, Names0 DEF Inv, SettledAgree

\* How a model comes to its next stage
Onward(m) ==
    \/ work[m].stage \in {"compute", "mint"} /\ work'[m].stage \in {"mint", "persist"}
    \/ /\ InFlight(m) /\ flight[m].op = "insert" /\ work[m].stage = "persist"
       /\ work'[m].stage = "validate" /\ work'[m].serial = flight[m].row.serial
    \/ work[m].stage = "validate" /\ work'[m].stage = "done" /\ work'[m].serial = work[m].serial
    \/ /\ phase = "stage1" /\ \A n \in Models : work[n].stage = "lookup"
       /\ \E s \in Shards : \/ Stored(s, m) = {} /\ work'[m].stage = "compute"
                            \/ \E r \in Stored(s, m) : work'[m].stage = "done" /\ work'[m].serial = r.serial

LEMMA WorkCases ==
    ASSUME Inv, TokenInv, [Next]_vars, NEW m \in Models
    PROVE  \/ work'[m].stage = "lookup"
           \/ got' = got /\ work'[m] = work[m]
           \/ UNCHANGED <<got, rows, next>> /\ Onward(m)
<1>0. \A st, v, mi, se : LET r == WorkRecord(st, v, mi, se) IN
         r.stage = st /\ r.verdict = v /\ r.minted = mi /\ r.serial = se
  BY DEF WorkRecord
<1>1. CASE Idle
  BY <1>1 DEF Idle
<1>2. ASSUME NEW x, Delivering(x)
      PROVE  \/ work'[m].stage = "lookup"
             \/ got' = got /\ work'[m] = work[m]
             \/ UNCHANGED <<got, rows, next>> /\ Onward(m)
  <2>1. CASE phase = "startup"
    BY <1>2, <2>1, GotGrows DEF TokenInv, Started
  <2>2. CASE phase # "startup"
    <3>1. PICK n \in Models : MintedBy(n, x)
      BY <1>2, <2>2, MintDelivery
    <3>2. CASE n # m
      BY <3>1, <3>2 DEF MintedBy
    <3>3. CASE n = m
      <4>1. work[m].stage = "mint" /\ work'[m].stage \in {"mint", "persist"} /\ got' = got
        BY <3>1, <3>3 DEF MintedBy, Minting
      <4> QED BY <1>2, <4>1 DEF Onward, Delivering
    <3> QED BY <3>2, <3>3
  <2> QED BY <2>1, <2>2
<1>3. CASE Open
  BY <1>3 DEF Open, NewWork
<1>4. ASSUME NEW n \in Models, Resolve(n)
      PROVE  \/ got' = got /\ work'[m] = work[m]
             \/ UNCHANGED <<got, rows, next>> /\ Onward(m)
  <2>0. shift \in Shifts
    BY DEF TokenInv, Started
  <2>1. CASE n # m
    <3>1. got' = got /\ \A k \in Models : k # n => work'[k] = work[k]
      BY <1>4, <2>0, ResolveShape
    <3> QED BY <2>1, <3>1
  <2>2. CASE n = m
    <3>1. /\ work[m].stage = "compute" /\ UNCHANGED <<got, rows, next>>
          /\ work'[m].stage \in {"mint", "persist"}
      BY <1>0, <1>4, <2>0, <2>2, ResolveShape
    <3> QED BY <3>1 DEF Onward
  <2> QED BY <2>1, <2>2
<1>5. ASSUME NEW n \in Models, TrajectoryWritten(n)
      PROVE  \/ got' = got /\ work'[m] = work[m]
             \/ UNCHANGED <<got, rows, next>> /\ Onward(m)
  <2>1. CASE n # m
    <3>1. got' = got /\ \A k \in Models : k # n => work'[k] = work[k]
      BY <1>5, EndShape
    <3> QED BY <2>1, <3>1
  <2>2. CASE n = m
    BY <1>0, <1>5, <2>2, EndShape DEF Onward
  <2> QED BY <2>1, <2>2
<1>6. ASSUME LookupModels, NEW s \in Shards, FoundOn(s, m)
      PROVE  UNCHANGED <<got, rows, next>> /\ Onward(m)
  BY <1>0, <1>6, LookupShape DEF FoundOn, Onward
<1> QED BY <1>1, <1>2, <1>3, <1>4, <1>5, <1>6, WorkMoves

LEMMA KeyStays ==
    ASSUME got' = got, NEW m
    PROVE  TrajectoryKey(m)' = TrajectoryKey(m)
BY DEF TrajectoryKey

\* The flag is set on the rows of one model
LEMMA ValidatedKeyed ==
    ASSUME Inv, TokenInv, CiteInv, KeyInv, NEW m \in Models, NEW n \in Models, NEW s \in Shards,
           ValidatedAt(n, s), NEW q \in All(IT), q.serial = work[n].serial, q.key = TrajectoryKey(m)
    PROVE  m = n
<1>1. /\ work[n].stage = "validate" /\ q.key = TrajectoryKey(n) /\ Len(got) = Len(Startup)
  BY DEF ValidatedAt, KeyInv, WorkKeyed, ModelKeyed
<1> QED BY <1>1, KeysDiffer

LEMMA MissingKept ==
    ASSUME Inv, TokenInv, CiteInv, KeyInv, Quiet \/ Moves, got' = got, NEW m \in Models, Missing(m),
           work[m].stage # "validate"
    PROVE  Missing(m)'
<1> SUFFICES ASSUME NEW r \in All(IT)', r.validated, r.key = TrajectoryKey(m)'
             PROVE  FALSE
  BY DEF Missing
<1>1. r.key = TrajectoryKey(m)
  BY KeyStays
<1>2. \/ \E q \in All(IT) : /\ q.serial = r.serial /\ q.key = r.key
                            /\ \/ q.validated
                               \/ \E n \in Models, s \in Shards :
                                     ValidatedAt(n, s) /\ q.serial = work[n].serial
      \/ \E n \in Models, s \in Shards : PersistAt(n, s) /\ r = NewTrajectory(n)
  BY Traced
<1>3. \A q \in All(IT) : q.key = r.key => ~q.validated
  BY <1>1 DEF Missing
<1>4. ASSUME NEW q \in All(IT), q.key = r.key, NEW n \in Models, NEW s \in Shards,
             ValidatedAt(n, s), q.serial = work[n].serial
      PROVE  FALSE
  <2>1. m = n
    BY <1>1, <1>4, ValidatedKeyed
  <2> QED BY <1>4, <2>1 DEF ValidatedAt
<1>5. \A n \in Models : r # NewTrajectory(n)
  BY TrajectoryFacts
<1> QED BY <1>2, <1>3, <1>4, <1>5

\* What is on its way to the shards is one row
LEMMA FlightKeyedKept ==
    ASSUME Inv, Inv', TokenInv, CiteInv, KeyInv, [Next]_vars, NEW m \in Models,
           InFlight(m)', flight'[m].op = "insert"
    PROVE  /\ flight'[m].row.key = TrajectoryKey(m)'
           /\ \A r \in All(IT)' : r.serial = flight'[m].row.serial => r = flight'[m].row
<1>0. Quiet \/ Moves
  BY RowMoves
<1>1. work'[m].stage = "persist"
  BY DEF Inv, ModelWrites, ModelFlights
<1>2. got' = got
  BY <1>1, WorkCases
<1>3. TrajectoryKey(m)' = TrajectoryKey(m)
  BY <1>2, KeyStays
<1>4. /\ \A r \in All(IT) : r.serial \in Nat /\ r.serial < next[IT] /\ TrajectoryRow(r)
      /\ next[IT] \in Nat
  BY ApartFacts, NextGrows, Names0, <1>0
<1>5. \A r \in All(IT)' :
           \/ r \in All(IT)
           \/ \E q \in All(IT) : /\ r = Flag(q) /\ q.serial = r.serial
                                 /\ \/ \E p \in All(IT) : p.serial = q.serial /\ p # q
                                    \/ \E n \in Models, s \in Shards :
                                          ValidatedAt(n, s) /\ q.serial = work[n].serial
           \/ \E n \in Models, s \in Shards : PersistAt(n, s) /\ r = NewTrajectory(n)
  BY <1>0, <1>4, TrajectoryOrigins, FlagKeeps DEF TokenInv, Torn
<1>6. CASE InFlight(m) /\ flight[m].op = "insert" /\ flight'[m].row = flight[m].row
  <2> DEFINE row == flight[m].row
  <2>1. /\ row.key = TrajectoryKey(m)
        /\ \A r \in All(IT) : r.serial = row.serial => r = row
    BY <1>6 DEF KeyInv, WorkKeyed, ModelKeyed
  <2>2. work[m].stage = "persist" /\ row.serial \in Nat /\ row.serial < next[IT]
    <3>1. WriteTyped(m) /\ m # "driver"
      BY <1>6, Names0 DEF Inv, Typed, FlightsTyped
    <3>2. flight[m].cls = IT
      BY <3>1 DEF WriteTyped
    <3> QED BY <1>6, <3>1, <3>2 DEF Inv, ModelWrites, ModelFlights, WriteTyped
  <2>3. ASSUME NEW n \in Models, NEW s \in Shards, ValidatedAt(n, s), row.serial = work[n].serial
        PROVE  FALSE
    <3>1. work[n].stage = "validate"
      BY <2>3 DEF ValidatedAt
    <3>2. Holds(m, row.serial) /\ Holds(n, row.serial)
      BY <1>6, <2>3, <3>1 DEF Holds
    <3>3. m = n
      BY <2>2, <3>2 DEF Inv, SerialsApart
    <3> QED BY <2>2, <3>1, <3>3
  <2>4. \A n \in Models : NewTrajectory(n).serial # row.serial
    BY <1>4, <2>2, TrajectoryFacts
  <2>5. ASSUME NEW r \in All(IT)', r.serial = row.serial
        PROVE  r = row
    <3>1. \A n \in Models : r # NewTrajectory(n)
      BY <2>4, <2>5
    <3>2. \A q \in All(IT), p \in All(IT) : q.serial = row.serial /\ p.serial = q.serial => p = q
      BY <2>1
    <3> QED BY <1>5, <2>1, <2>3, <2>5, <3>1, <3>2
  <2> QED BY <1>3, <1>6, <2>1, <2>5
<1>7. ASSUME NEW s \in Shards, PersistAt(m, s), flight'[m].row = NewTrajectory(m)
      PROVE  /\ flight'[m].row.key = TrajectoryKey(m)'
             /\ \A r \in All(IT)' : r.serial = flight'[m].row.serial => r = flight'[m].row
  <2>1. /\ NewTrajectory(m).serial = next[IT] /\ NewTrajectory(m).key = TrajectoryKey(m)
    BY TrajectoryFacts
  <2>2. \A q \in All(IT) : q.serial # next[IT]
    BY <1>4
  <2>3. \A n \in Models, t \in Shards : PersistAt(n, t) => n = m
    BY <1>7, OnePersists
  <2>4. ASSUME NEW r \in All(IT)', r.serial = next[IT]
        PROVE  r = NewTrajectory(m)
    BY <1>5, <2>2, <2>3, <2>4
  <2> QED BY <1>3, <1>7, <2>1, <2>4
<1> QED BY <1>0, <1>6, <1>7, FlightOrigins

LEMMA ModelSerial ==
    ASSUME Inv, KeyInv, NEW m \in Models, work[m].stage \in {"validate", "done"}, NEW s0 \in Shards
    PROVE  work[m].serial # next[IT]
<1>1. next[IT] \in Nat /\ \A r \in All(IT) : r.serial # next[IT]
  <2>1. \A r \in All(IT) : r.serial \in Nat /\ r.serial < next[IT]
    BY ApartFacts
  <2>2. next[IT] \in Nat
    BY Names0 DEF Inv, Typed
  <2> QED BY <2>1, <2>2
<1>2. \E r \in rows[s0][IT] : r.serial = work[m].serial
  BY DEF Inv, WorkShown, ModelShown, Shown, Valid, Trajectories, IT
<1> QED BY <1>1, <1>2 DEF All

\* The trajectory of a model is its own and stays the only validated one
LEMMA OwnKept ==
    ASSUME Inv, TokenInv, CiteInv, KeyInv, Quiet \/ Moves, got' = got, NEW m \in Models,
           work[m].stage \in {"validate", "done"}
    PROVE  /\ \A r \in All(IT)' : r.serial = work[m].serial => r.key = TrajectoryKey(m)'
           /\ work[m].stage = "validate" =>
                 \A r \in All(IT)' : r.validated /\ r.key = TrajectoryKey(m)' => r.serial = work[m].serial
<1>0. TrajectoryKey(m)' = TrajectoryKey(m)
  BY KeyStays
<1>1. /\ \A q \in All(IT) : q.serial = work[m].serial => q.key = TrajectoryKey(m)
      /\ work[m].stage = "validate" =>
            \A q \in All(IT) : q.validated /\ q.key = TrajectoryKey(m) => q.serial = work[m].serial
  BY DEF KeyInv, WorkKeyed, ModelKeyed
<1>2. \A r \in All(IT)' :
         \/ \E q \in All(IT) : /\ q.serial = r.serial /\ q.key = r.key
                               /\ r.validated => \/ q.validated
                                                 \/ \E n \in Models, s \in Shards :
                                                       ValidatedAt(n, s) /\ q.serial = work[n].serial
         \/ \E n \in Models, s \in Shards : PersistAt(n, s) /\ r = NewTrajectory(n)
  BY Traced
<1>3. \A n \in Models, s \in Shards : /\ NewTrajectory(n).serial # work[m].serial
                                      /\ ~NewTrajectory(n).validated
  BY ModelSerial, TrajectoryFacts
<1>4. \A n \in Models, s \in Shards, q \in All(IT) :
         ValidatedAt(n, s) /\ q.serial = work[n].serial /\ q.key = TrajectoryKey(m) => m = n
  BY ValidatedKeyed
<1>5. \A r \in All(IT)' : r.serial = work[m].serial => r.key = TrajectoryKey(m)
  BY <1>1, <1>2, <1>3
<1>6. ASSUME work[m].stage = "validate", NEW r \in All(IT)', r.validated, r.key = TrajectoryKey(m)
      PROVE  r.serial = work[m].serial
  BY <1>1, <1>2, <1>3, <1>4, <1>6
<1> QED BY <1>0, <1>5, <1>6

LEMMA ModelKeyedKept ==
    ASSUME Inv, Inv', TokenInv, CiteInv, KeyInv, [Next]_vars, NEW m \in Models
    PROVE  ModelKeyed(m)'
<1>0. Quiet \/ Moves
  BY RowMoves
<1> DEFINE stage == work[m].stage
<1>1. InFlight(m)' /\ flight'[m].op = "insert" =>
         /\ flight'[m].row.key = TrajectoryKey(m)'
         /\ \A r \in All(IT)' : r.serial = flight'[m].row.serial => r = flight'[m].row
  BY FlightKeyedKept
<1>2. /\ \/ work'[m].stage = "lookup"
         \/ got' = got /\ work'[m] = work[m]
         \/ UNCHANGED <<got, rows, next>> /\ Onward(m)
      /\ ModelKeyed(m)
  BY WorkCases DEF KeyInv, WorkKeyed
<1>3. work'[m].stage # "lookup" => Len(got') = Len(Startup)
  BY <1>2 DEF ModelKeyed, Onward, TokenInv, Started
<1>4. ASSUME work'[m].stage # "lookup"
      PROVE  got' = got /\ TrajectoryKey(m)' = TrajectoryKey(m)
  BY <1>2, <1>4, KeyStays
\* A look-up that finds nothing on one shard
<1>5. ASSUME NEW s \in Shards, Stored(s, m) = {}, \A n \in Models : work[n].stage = "lookup"
      PROVE  Missing(m)
  <2>1. \A n \in Models : ~InFlight(n)
    BY <1>5 DEF Inv, ModelWrites, ModelFlights
  <2>2. \A r \in All(IT) : r \in rows[s][IT]
    BY <2>1, TrajectoriesAgree DEF All
  <2> QED BY <1>5, <2>2 DEF Missing, Stored, Trajectories, IT
<1>6. ASSUME work'[m].stage \in {"compute", "mint", "persist"}
      PROVE  Missing(m)'
  <2>1. Missing(m) /\ work[m].stage # "validate"
    <3>1. CASE work'[m] = work[m]
      BY <1>2, <1>6, <3>1 DEF ModelKeyed
    <3>2. CASE Onward(m)
      BY <1>2, <1>5, <1>6, <3>2 DEF ModelKeyed, Onward
    <3> QED BY <1>2, <1>6, <3>1, <3>2
  <2> QED BY <1>0, <1>4, <1>6, <2>1, MissingKept
<1>7. ASSUME work'[m].stage = "validate"
      PROVE  /\ \A r \in All(IT)' : r.validated /\ r.key = TrajectoryKey(m)' => r.serial = work'[m].serial
             /\ \A r \in All(IT)' : r.serial = work'[m].serial => r.key = TrajectoryKey(m)'
  <2>1. CASE work'[m] = work[m]
    BY <1>0, <1>4, <1>7, <2>1, OwnKept
  <2>2. CASE UNCHANGED <<got, rows, next>> /\ Onward(m)
    <3>1. /\ InFlight(m) /\ flight[m].op = "insert" /\ work[m].stage = "persist"
          /\ work'[m].serial = flight[m].row.serial
      BY <1>7, <2>2 DEF Onward
    <3>2. Missing(m) /\ \A r \in All(IT) : r.serial = work'[m].serial => r.key = TrajectoryKey(m)
      BY <1>2, <3>1 DEF ModelKeyed
    <3>3. All(IT)' = All(IT)
      BY <2>2 DEF All
    <3> QED BY <1>4, <1>7, <3>2, <3>3 DEF Missing
  <2> QED BY <1>2, <1>7, <2>1, <2>2
<1>8. ASSUME work'[m].stage = "done"
      PROVE  \A r \in All(IT)' : r.serial = work'[m].serial => r.key = TrajectoryKey(m)'
  <2>1. CASE work'[m] = work[m]
    BY <1>0, <1>4, <1>8, <2>1, OwnKept
  <2>2. CASE UNCHANGED <<got, rows, next>> /\ Onward(m)
    <3>1. All(IT)' = All(IT)
      BY <2>2 DEF All
    <3>2. CASE work[m].stage = "validate" /\ work'[m].serial = work[m].serial
      BY <1>2, <1>4, <1>8, <3>1, <3>2 DEF ModelKeyed
    <3>3. ASSUME NEW s \in Shards, NEW r \in Stored(s, m), work'[m].serial = r.serial
          PROVE  \A q \in All(IT) : q.serial = work'[m].serial => q.key = TrajectoryKey(m)
      <4>1. r \in All(IT) /\ r.key = TrajectoryKey(m)
        BY <3>3 DEF Stored, Trajectories, IT, All
      <4> QED BY <3>3, <4>1, ApartFacts
    <3> QED BY <1>4, <1>8, <2>2, <3>1, <3>2, <3>3 DEF Onward
  <2> QED BY <1>2, <1>8, <2>1, <2>2
<1>9. /\ InFlight(m)' <=> flight'[m].op # "none"
  BY DEF InFlight
<1> QED BY <1>1, <1>3, <1>6, <1>7, <1>8 DEF ModelKeyed, Missing

-----------------------------------------------------------------------------
(***************************************************************************)
(* What makes a run raise.                                                 *)
(***************************************************************************)
LEMMA AtMostOne ==
    ASSUME NEW S, \A x, y \in S : x = y
    PROVE  Cardinality(S) \in Nat /\ ~(Cardinality(S) > 1)
<1>1. CASE S = {}
  BY <1>1, FS_EmptySet
<1>2. CASE S # {}
  <2>1. PICK x \in S : TRUE
    BY <1>2
  <2>2. S = {x}
    BY <2>1
  <2>3. Cardinality(S) = 1
    BY <2>2, FS_Singleton
  <2> QED BY <2>3
<1> QED BY <1>1, <1>2

\* No look-up meets two rows
LEMMA NoneRefuses ==
    ASSUME Inv, TokenInv, Wanted # NULL, NEW s \in Shards
    PROVE  ~Refuses(rows[s][Wanted.cls], Wanted.cls, Wanted.key)
<1> DEFINE c == Wanted.cls
           hits == Hits(rows[s][c], c, Wanted.key)
<1>1. c \in Classes /\ c # IT /\ (c \in Tokens => Wanted.key \in KeysOf(c))
  BY WantedKey DEF TokenInv
<1>2. CASE c \in Tokens
  <2>1. ASSUME NEW q \in hits, NEW r \in hits
        PROVE  q = r
    <3>1. q \in All(c) /\ r \in All(c) /\ Answers(c, q.key, Wanted.key) /\ Answers(c, r.key, Wanted.key)
      BY DEF Hits, All
    <3>2. q.key \in KeysOf(c) /\ r.key \in KeysOf(c)
      BY <1>2, <3>1 DEF TokenInv, TokensTyped
    <3>3. Same(c, q.key, Wanted.key) /\ Same(c, r.key, Wanted.key)
      BY <1>1, <1>2, <3>1, <3>2, AnswersIsSame
    <3>4. Same(c, q.key, r.key)
      BY <1>1, <1>2, <3>2, <3>3, SameFacts
    <3> QED BY <1>2, <3>1, <3>4 DEF TokenInv, TokensUnique
  <2>2. ~(Cardinality(hits) > 1)
    <3> HIDE DEF hits
    <3> QED BY <2>1, AtMostOne
  <2> QED BY <2>2 DEF Refuses
<1>3. CASE c \notin Tokens
  BY <1>1, <1>3 DEF Tokens, Refuses
<1> QED BY <1>2, <1>3

\* nor does one of trajectories
LEMMA OneStored ==
    ASSUME Inv, KeyInv, NEW s \in Shards, NEW m
    PROVE  ~(Cardinality(Stored(s, m)) > 1)
<1>1. ASSUME NEW q \in Stored(s, m), NEW r \in Stored(s, m)
      PROVE  q = r
  <2>1. /\ q \in rows[s][IT] /\ q.validated /\ q.key = TrajectoryKey(m)
        /\ r \in rows[s][IT] /\ r.validated /\ r.key = TrajectoryKey(m)
    BY DEF Stored, Trajectories, IT
  <2>2. q.serial = r.serial
    BY <2>1 DEF KeyInv, OneValidated, All
  <2> QED BY <2>1, <2>2, ApartFacts
<1> QED BY <1>1, AtMostOne

\* and no two points of a grid have one token
LEMMA GridInjective ==
    ASSUME Inv, TokenInv, CiteInv, NEW m \in Models, work[m].stage = "persist", NEW s0 \in Shards
    PROVE  IsInjective(work[m].minted)
<1> DEFINE ev == "efold_value"
           values == work[m].minted
           grid == SampleGrid(work[m].verdict)
<1>1. values \in Seq(Nat) /\ DOMAIN values = 1 .. Len(values) /\ Samples(values, work[m].verdict)
  <2>1. values \in Seq(Nat) /\ Samples(values, work[m].verdict)
    BY WorkShape DEF CiteInv, MintedFits
  <2> HIDE DEF values
  <2> QED BY <2>1
<1>2. CASE work[m].verdict = NULL
  <2>1. values = <<>>
    BY <1>2 DEF TokenInv, Gridded
  <2>2. DOMAIN values = {}
    BY <2>1
  <2> QED BY <2>2 DEF IsInjective
<1>3. CASE work[m].verdict # NULL
  <2> SUFFICES ASSUME NEW j \in 1 .. Len(values), NEW k \in 1 .. Len(values), values[j] = values[k]
               PROVE  j = k
    BY <1>1 DEF IsInjective
  <2>1. work[m].verdict \in Floats(NEnd[m])
    BY <1>3 DEF TokenInv, Gridded
  <2>2. /\ DOMAIN grid = 1 .. Len(grid)
        /\ \A i \in 1 .. Len(grid) : grid[i] \in KeysOf(ev)
        /\ \A a, b \in 1 .. Len(grid) : a # b => Abs(grid[a] - grid[b]) > Spread
    BY <2>1, EndFacts
  <2>3. /\ j \in 1 .. Len(grid) /\ k \in 1 .. Len(grid)
        /\ Cites(ev, values[j], grid[j]) /\ Cites(ev, values[j], grid[k])
    BY <1>1, <2>2 DEF Samples
  <2>4. Same(ev, grid[j], grid[k])
    BY <2>2, <2>3, CitesOne, TokenClasses
  <2>5. Abs(grid[j] - grid[k]) <= Spread /\ Abs(grid[j] - grid[k]) \in Int /\ Spread \in Nat
    <3>1. grid[j] \in Nat /\ grid[k] \in Nat
      BY <2>2, <2>3, PointsAreNat
    <3> QED BY <2>4, <3>1, NumbersApart DEF Same, Measured, Abs
  <2> QED BY <2>2, <2>3, <2>5
<1> QED BY <1>2, <1>3

FailedOnly(v) ==
    /\ \A m \in Models : work[m].stage = "done"
    /\ \E m \in Models : \A s \in Shards :
          \E r \in Stored(s, m) : r.serial = work[m].serial /\ r.nend = v

LEMMA RaisesKept ==
    ASSUME Inv, TokenInv, CiteInv, KeyInv, [Next]_vars
    PROVE  RaisesOnFailure'
<1> SUFFICES ASSUME phase' = "raised"
             PROVE  FailedOnly(NULL)'
  BY DEF RaisesOnFailure, FailedOnly
<1>0. \A v : UNCHANGED <<rows, work, got>> => FailedOnly(v)' = FailedOnly(v)
  <2>1. \A s, m : UNCHANGED <<rows, work, got>> => Stored(s, m)' = Stored(s, m)
    BY DEF Stored, Trajectories, TrajectoryKey
  <2> QED BY <2>1 DEF FailedOnly
\* A run that has raised does nothing more
<1>1. CASE phase = "raised"
  <2>1. FailedOnly(NULL)
    BY <1>1 DEF KeyInv, RaisesOnFailure, FailedOnly
  <2>2. Wanted = NULL /\ ~IsOpen
    BY <1>1 DEF Wanted, IsOpen
  <2>3. ~(LookUp \/ Mint \/ TokenWritten \/ StartStage1 \/ LookupModels \/ HandOver \/ RunBranches \/ Kill)
    BY <1>1, <2>2
       DEF LookUp, Mint, TokenWritten, StartStage1, LookupModels, HandOver, RunBranches, Kill
  <2>4. \A w \in Writers : ~Replicate(w)
    BY <2>2 DEF Replicate
  <2>5. \A m \in Models : ~(Resolve(m) \/ Persist(m) \/ TrajectoryWritten(m) \/ ValidateStored(m))
    BY <1>1 DEF Resolve, Persist, TrajectoryWritten, ValidateStored
  <2>6. ~Open
    BY DEF Open
  <2>7. UNCHANGED vars
    BY <2>3, <2>4, <2>5, <2>6 DEF Next, Progress
  <2> QED BY <1>0, <2>1, <2>7 DEF vars
<1>2. CASE phase # "raised"
  <2>1. ~LookUp
    <3>1. ASSUME LookUp
          PROVE  FALSE
      <4>1. PICK s \in Shards : Refuses(rows[s][Wanted.cls], Wanted.cls, Wanted.key)
        BY <1>2, <3>1 DEF LookUp
      <4> QED BY <3>1, <4>1, NoneRefuses DEF LookUp
    <3> QED BY <3>1
  <2>2. ~LookupModels
    <3>1. ASSUME LookupModels
          PROVE  FALSE
      <4>1. PICK s \in Shards : \E m \in Models : Cardinality(Stored(s, m)) > 1
        BY <1>2, <3>1, LookupShape
      <4> QED BY <4>1, OneStored
    <3> QED BY <3>1
  <2>3. ~(Mint \/ TokenWritten \/ StartStage1 \/ HandOver \/ Kill \/ Open \/ UNCHANGED vars)
    BY <1>2 DEF Mint, TokenWritten, StartStage1, HandOver, Kill, Open, vars
  <2>4. ASSUME NEW w \in Writers, Replicate(w)
        PROVE  FALSE
    BY <1>2, <2>4 DEF Replicate, ReplicaRow
  <2>5. ASSUME NEW m \in Models, Resolve(m) \/ TrajectoryWritten(m) \/ ValidateStored(m)
        PROVE  FALSE
    BY <1>2, <2>5 DEF Resolve, TrajectoryWritten, ValidateStored
  <2>6. ASSUME RunBranches
        PROVE  FailedOnly(NULL)'
    <3>1. /\ phase = "handed" /\ UNCHANGED <<rows, work, got>>
          /\ \E m \in Models : work[m].verdict = NULL
      BY <1>2, <2>6 DEF RunBranches
    <3>2. \A m \in Models : work[m].stage = "done"
      BY <3>1 DEF Inv, ModelWrites
    <3>3. PICK m \in Models : work[m].verdict = NULL
      BY <3>1
    <3>4. ASSUME NEW s \in Shards
          PROVE  \E r \in Stored(s, m) : r.serial = work[m].serial /\ r.nend = NULL
      <4>1. PICK r \in rows[s][IT] : r.serial = work[m].serial /\ r.nend = NULL /\ r.validated
        BY <3>2, <3>3 DEF Inv, WorkShown, ModelShown, Valid, Trajectories, IT
      <4>2. r.key = TrajectoryKey(m)
        BY <3>2, <4>1 DEF KeyInv, WorkKeyed, ModelKeyed, All
      <4> QED BY <4>1, <4>2 DEF Stored, Trajectories, IT
    <3>5. FailedOnly(NULL)
      BY <3>2, <3>4 DEF FailedOnly
    <3> QED BY <1>0, <3>1, <3>5
  <2>7. ASSUME NEW m \in Models, Persist(m)
        PROVE  FALSE
    <3>1. work[m].stage = "persist" /\ (IsInjective(work[m].minted) => phase' = phase)
      BY <2>7 DEF Persist
    <3>2. PICK s0 \in Shards : TRUE
      BY RunParameters
    <3> QED BY <1>2, <3>1, <3>2, GridInjective
  <2> HIDE DEF FailedOnly
  <2> QED BY <2>1, <2>2, <2>3, <2>4, <2>5, <2>6, <2>7 DEF Next, Progress
<1> QED BY <1>1, <1>2

LEMMA KeyInvKept ==
    ASSUME Inv, TokenInv, CiteInv, KeyInv, [Next]_vars
    PROVE  KeyInv'
<1>1. Quiet \/ Moves
  BY RowMoves
<1>2. TrajectoriesApart' /\ OneValidated'
  BY <1>1, ApartKept, OneValidatedKept
<1>3. WorkKeyed'
  <2>1. Inv'
    BY InvKept
  <2> QED BY <2>1, ModelKeyedKept DEF WorkKeyed
<1> QED BY <1>2, <1>3, RaisesKept DEF KeyInv

LEMMA InitKeyInv ==
    ASSUME Init
    PROVE  KeyInv
<1>1. /\ rows = [s \in Shards |-> [c \in Classes |-> {}]] /\ phase = "closed"
      /\ flight = [w \in Writers |-> NoWrite] /\ work = [m \in Models |-> NewWork]
  BY DEF Init
<1>2. All(IT) = {} /\ \A s \in Shards : Trajectories(s) = {}
  BY <1>1, Names0 DEF All, Trajectories, IT
<1>3. \A m \in Models : work[m].stage = "lookup" /\ ~InFlight(m)
  BY <1>1, Names0 DEF NewWork, InFlight, NoWrite
<1>4. WorkKeyed
  BY <1>3 DEF WorkKeyed, ModelKeyed
<1>5. TrajectoriesApart /\ OneValidated /\ RaisesOnFailure
  BY <1>1, <1>2 DEF TrajectoriesApart, OneValidated, RaisesOnFailure
<1> QED BY <1>4, <1>5 DEF KeyInv

\* Only a trajectory that failed makes a run raise: no look-up of a number or of a
\* trajectory ever meets two rows, no two samples of a trajectory are given one token,
\* and no replica answers with a serial of its own, whatever earlier runs left when
\* they were killed.  The failure that raises is stored and validated on every shard,
\* so that the next run meets it again.
THEOREM OnlyFailuresRaise == Spec => []RaisesOnFailure
<1>1. Init => Inv /\ TokenInv /\ CiteInv /\ KeyInv
  BY InitInv, InitTokenInv, InitCiteInv, InitKeyInv
<1>2. Inv /\ TokenInv /\ CiteInv /\ KeyInv /\ [Next]_vars => (Inv /\ TokenInv /\ CiteInv /\ KeyInv)'
  BY InvKept, TokenInvKept, GotFitsKept, MintedFitsKept, TrajectoriesWholeKept, KeyInvKept DEF CiteInv
<1>3. KeyInv => RaisesOnFailure
  BY DEF KeyInv
<1> QED BY <1>1, <1>2, <1>3, PTL DEF Spec
=============================================================================
