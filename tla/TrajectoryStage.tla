-------------------------- MODULE TrajectoryStage --------------------------
(***************************************************************************)
(* The replicated half of the store, and the two parts of a run that write *)
(* it: the registration of the run's parameters (config/pipeline_setup.py, *)
(* config/model_list.py, main.py execute) and Stage 1, the background      *)
(* trajectory of each model (main.py, ComputeTargets/InflatonTrajectory.py,*)
(* its factory).  Every replicated row is written on one shard and then    *)
(* copied to the others under a record kept on the primary; a kill may     *)
(* strike between any two of these steps, and the next open repairs what   *)
(* the record says is unfinished (the external datastorekit).              *)
(*                                                                         *)
(* The same numbers asked for by two runs need not be the same floats:     *)
(* each run shifts them by its own rounding.                               *)
(***************************************************************************)
EXTENDS TokenTables, StoreSchema, Sequences, SequencesExt, FiniteSetsExt, Functions

CONSTANTS
    Shards, Models,
    Startup,        \* the parameters registered, in order: [cls |-> class, key |-> number]
    Potential,      \* the entry of Startup that is a model's potential
    NEnd,           \* where inflation ends in a model, when it does
    SampleWidth,    \* 1 / samples_per_N
    Solvers,        \* the chain of integrators
    Spread,         \* how far the floats of two runs for one number may lie apart
    DropRequests,   \* the --drop options given
    MaxStarts, NULL

Classes == {Startup[i].cls : i \in DOMAIN Startup} \union {"efold_value", "InflatonTrajectory"}

\* Classes whose numbers come out of floating-point arithmetic
Rounded == {"phi_value", "pi_value", "inflaton_mass", "quartic_coupling", "N_init", "N_final",
            "delta_Nstar"}

\* The rounding of one run, and what stands for a number in one run or another
Shifts == 0 .. Spread
Floats(x) == IF x = 0 THEN {0} ELSE {x + d : d \in Shifts}
Numbers(i) == IF Startup[i].cls \in Rounded THEN Floats(Startup[i].key) ELSE {Startup[i].key}

\* A potential is made of an earlier parameter
MadeOf == [QuadraticPotential |-> "inflaton_mass", QuarticPotential |-> "quartic_coupling"]

\* A model of the list stands for a potential of its own, and numbers that are
\* two numbers stay two whatever the rounding; the run's parameters are replicated
ASSUME ModelsApart ==
    /\ IsInjective(Potential) /\ Classes \subseteq Replicated
    /\ \A i, j \in DOMAIN Startup : i # j /\ Startup[i].cls = Startup[j].cls =>
          \A x \in Numbers(i), y \in Numbers(j) : ~Answers(Startup[i].cls, x, y)

\* The parameters are a list of numbers, none of them a trajectory or a sample
\* point, and a model, which is not the driver, has one of the potentials; a
\* store has its primary shard
ASSUME RunParameters ==
    /\ Len(Startup) \in Nat /\ DOMAIN Startup = 1 .. Len(Startup)
    /\ \A i \in DOMAIN Startup :
          /\ DOMAIN Startup[i] = {"cls", "key"}
          /\ Startup[i].cls \notin {"InflatonTrajectory", "InflatonTrajectoryValue", "efold_value"}
          /\ Startup[i].cls \in DOMAIN MadeOf =>
                /\ Startup[i].key \in 1 .. i - 1
                /\ Startup[Startup[i].key].cls = MadeOf[Startup[i].cls]
          /\ Startup[i].cls = "alpha_regularization" => Startup[i].key \in Int
    /\ Potential \in [Models -> {i \in DOMAIN Startup : Startup[i].cls \in DOMAIN MadeOf}]
    /\ "driver" \notin Models /\ NULL \notin Int /\ Shards # {}
    /\ DropRequests \subseteq SUBSET DOMAIN DropGroups

Writers == Models \union {"driver"}

VARIABLES
    rows,       \* rows[s][c]: the rows of class c on shard s
    results,    \* serials of the trajectories named by rows of the sharded tables
    next,       \* next[c]: the serial leased next (SerialPoolBroker)
    flight,     \* flight[w]: the replicated write w has in progress, or NoWrite
    phase,      \* "closed", "startup", "stage1", "handed", "finished" or "raised"
    shift,      \* this start's rounding
    got,        \* serials of the parameters registered so far
    work,       \* work[m]: Stage 1 for a model
    starts
vars == <<rows, results, next, flight, phase, shift, got, work, starts>>

NoWrite == [op |-> "none", left |-> {}]
InFlight(w) == flight[w].op # "none"

NewWork == [stage |-> "lookup", verdict |-> NULL, minted |-> <<>>, serial |-> NULL]
IsOpen == phase \in {"startup", "stage1", "handed"}

(***************************************************************************)
(* What is asked for.                                                      *)
(***************************************************************************)
Shifted(x) == IF x = 0 THEN 0 ELSE x + shift

\* build_pipeline_inputs, build_model_list, execute: a potential is asked for
\* by the serial its mass was given
Parameter(i) ==
    LET asked == Startup[i] IN
    IF asked.cls \in DOMAIN MadeOf
    THEN [asked EXCEPT !.key = got[asked.key]]
    ELSE IF asked.cls \in Rounded THEN [asked EXCEPT !.key = Shifted(asked.key)] ELSE asked

\* Slip: the end point of the interval is left out
SampleGridOpen(nend) ==
    LET n == Max({2, nend \div SampleWidth + (IF nend % SampleWidth = 0 THEN 0 ELSE 1)})
    IN  [k \in 1 .. n |-> ((k - 1) * nend) \div n]

\* linspace(0, N_end, max(2, ceil(N_end * samples_per_N)), endpoint = True)
SampleGrid(nend) ==
    LET n == Max({2, nend \div SampleWidth + (IF nend % SampleWidth = 0 THEN 0 ELSE 1)})
    IN  [k \in 1 .. n |-> ((k - 1) * nend) \div (n - 1)]

\* All numbers a class is asked for, in one run or another
Asked(c) ==
    IF c = "efold_value"
    THEN UNION {{SampleGrid(nend)[k] : k \in DOMAIN SampleGrid(nend)} :
                    nend \in UNION {Floats(NEnd[m]) : m \in Models}}
    ELSE UNION {Numbers(i) : i \in {j \in DOMAIN Startup : Startup[j].cls = c}}

Precision(c) ==
    IF c \in {"efold_value", "N_init", "N_final", "delta_Nstar"} THEN EfoldRel ELSE QuantityRel

\* What rounding moves is within the tolerance of a look-up, and what is within the
\* tolerance is one number; the points of one grid are as many numbers
ASSUME NumbersApart ==
    /\ EfoldRel \in Nat /\ QuantityRel \in Nat /\ Spread \in Nat
    /\ SampleWidth \in Nat \ {0} /\ NEnd \in [Models -> Nat \ {0}]
    /\ \A c \in Classes \intersect (Rounded \union {"efold_value"}) : \A x, y \in Asked(c) :
          /\ x \in Int
          /\ Abs(x - y) <= Spread <=> x = y \/ Abs(x - y) * Precision(c) < Abs(y)
          /\ \A z \in Asked(c) :
                Abs(x - y) <= Spread /\ Abs(y - z) <= Spread => Abs(x - z) <= Spread
    /\ \A m \in Models : \A nend \in Floats(NEnd[m]) : \A j, k \in DOMAIN SampleGrid(nend) :
          j # k => Abs(SampleGrid(nend)[j] - SampleGrid(nend)[k]) > Spread

Minting == {m \in Models : work[m].stage = "mint"}
Wanted ==
    IF phase = "startup" /\ Len(got) < Len(Startup) THEN Parameter(Len(got) + 1)
    ELSE IF phase = "stage1" /\ Minting # {}
    THEN LET w == work[CHOOSE m \in Minting : TRUE] IN
         [cls |-> "efold_value", key |-> SampleGrid(w.verdict)[Len(w.minted) + 1]]
    ELSE NULL

\* The answer of a look-up goes to whoever asked.  The store handler has all
\* the tokens of its grid before the trajectory is persisted.
Deliver(serial) ==
    IF phase = "startup"
    THEN got' = Append(got, serial) /\ UNCHANGED work
    ELSE LET m == CHOOSE x \in Minting : TRUE
             minted == Append(work[m].minted, serial)
         IN  /\ work' = [work EXCEPT ![m].minted = minted,
                              ![m].stage = IF Len(minted) = Len(SampleGrid(work[m].verdict))
                                           THEN "persist" ELSE "mint"]
             /\ UNCHANGED got

(***************************************************************************)
(* The table of trajectories: a row, with its value rows in the same       *)
(* transaction, for each model, tolerance and initial condition.  N_end is *)
(* NULL exactly when the integration failed.                               *)
(***************************************************************************)
Trajectories(s) == rows[s]["InflatonTrajectory"]

\* The potential by its type and serial, the serials of the initial condition and the
\* tolerances
TrajectoryKey(m) ==
    <<Startup[Potential[m]].cls, got[Potential[m]],
      [i \in {j \in DOMAIN Startup : Startup[j].cls \in {"phi_value", "pi_value", "tolerance"}} |-> got[i]]>>

\* build(): the number of samples is not part of the identity of a trajectory
Stored(s, m) == {r \in Trajectories(s) : r.validated /\ r.key = TrajectoryKey(m)}

\* _populate(): the value rows joined with their tokens, in the order of N and
\* not of the serials, which follow the first trajectory that used a token
Loaded(s, r) ==
    LET N == {q.key : q \in {t \in rows[s]["efold_value"] : \E i \in DOMAIN r.values : r.values[i] = t.serial}}
    IN  [k \in 1 .. Cardinality(N) |-> CHOOSE x \in N : Cardinality({y \in N : y < x}) = k - 1]

\* validate(): a failure as it is, anything else with all the values it expects
Validated(table, serial) ==
    {IF r.serial = serial
     THEN [r EXCEPT !.validated = (r.nend = NULL \/ (r.values # <<>> /\ Len(r.values) = r.expected))]
     ELSE r : r \in table}

\* revalidate(): "at least one value" stands for "all of them"
Revalidated(r) == [r EXCEPT !.validated = (r.nend = NULL \/ r.values # <<>>)]

(***************************************************************************)
(* A replicated write: on a controlling shard, on each of the others with  *)
(* the serial the first gave, and done when all have answered.             *)
(***************************************************************************)
Insert(s, cls, row) == rows' = [rows EXCEPT ![s][cls] = @ \union {row}]

\* object_get of a token: a shard looks it up - one_or_none() raises on a
\* second row - and inserts it on a miss
LookUp ==
    /\ Wanted # NULL /\ ~InFlight("driver")
    /\ \E s \in Shards :
          LET table == rows[s][Wanted.cls]
              hits == Hits(table, Wanted.cls, Wanted.key)
          IN  /\ hits # {}
              /\ IF Refuses(table, Wanted.cls, Wanted.key)
                 THEN phase' = "raised" /\ UNCHANGED <<got, work>>
                 ELSE (\E r \in hits : Deliver(r.serial)) /\ UNCHANGED phase
    /\ UNCHANGED <<rows, results, next, flight, shift, starts>>

Mint ==
    /\ Wanted # NULL /\ ~InFlight("driver")
    /\ LET cls == Wanted.cls
           row == [serial |-> next[cls], key |-> Written(cls, Wanted.key)] IN
       \E s \in Shards :
          /\ Hits(rows[s][cls], cls, Wanted.key) = {}
          /\ Insert(s, cls, row)
          /\ next' = [next EXCEPT ![cls] = @ + 1]
          /\ flight' = [flight EXCEPT !["driver"] =
                [op |-> "insert", cls |-> cls, row |-> row, left |-> Shards \ {s}]]
    /\ UNCHANGED <<results, phase, shift, got, work, starts>>

\* Slip: the replica looks the number up and, missing it, takes the serial its
\* own table would give next
ReplicaRowOwn(s, f) ==
    [f.row EXCEPT !.serial = 1 + Cardinality(rows[s][f.cls]) + Cardinality(rows[s]["efold_value"])]

\* build() and store() on a replica use the serial in the payload
ReplicaRow(s, f) == f.row

Replicate(w) ==
    /\ IsOpen /\ InFlight(w)
    /\ \E s \in flight[w].left :
          /\ LET f == flight[w] IN
             /\ IF f.op = "insert" THEN Insert(s, f.cls, ReplicaRow(s, f))
                ELSE rows' = [rows EXCEPT ![s][f.cls] = Validated(@, f.row.serial)]
             /\ IF ReplicaRow(s, f).serial = f.row.serial
                THEN flight' = [flight EXCEPT ![w].left = @ \ {s}] /\ UNCHANGED phase
                ELSE phase' = "raised" /\ UNCHANGED flight      \* ReplicationMismatch
    /\ UNCHANGED <<results, next, shift, got, work, starts>>

TokenWritten ==
    /\ IsOpen /\ InFlight("driver") /\ flight["driver"].left = {}
    /\ Deliver(flight["driver"].row.serial)
    /\ flight' = [flight EXCEPT !["driver"] = NoWrite]
    /\ UNCHANGED <<rows, results, next, phase, shift, starts>>

(***************************************************************************)
(* Stage 1.                                                                *)
(***************************************************************************)
\* pipeline_setup and execute have everything they asked for
StartStage1 ==
    /\ phase = "startup" /\ Len(got) = Len(Startup)
    /\ phase' = "stage1"
    /\ UNCHANGED <<rows, results, next, flight, shift, got, work, starts>>

\* task_builder: every model is looked up before the first result is stored
LookupModels ==
    /\ phase = "stage1" /\ \A m \in Models : work[m].stage = "lookup"
    /\ \E s \in Shards :
          IF \E m \in Models : Cardinality(Stored(s, m)) > 1
          THEN phase' = "raised" /\ UNCHANGED work
          ELSE /\ work' = [m \in Models |->
                    IF Stored(s, m) = {} THEN [work[m] EXCEPT !.stage = "compute"]
                    ELSE LET r == CHOOSE x \in Stored(s, m) : TRUE IN
                         [work[m] EXCEPT !.stage = "done", !.serial = r.serial, !.verdict = r.nend]]
               /\ UNCHANGED phase
    /\ UNCHANGED <<rows, results, next, flight, shift, got, starts>>

\* integrate_noiseless_trajectory: the first integrator of the chain that
\* neither fails nor raises decides
FirstAnswer(answers) ==
    LET good == {k \in DOMAIN answers : answers[k] # "failed"} IN
    IF good = {} THEN "failed" ELSE answers[Min(good)]

\* _compute_inflaton_trajectory: nothing to integrate, no integrator, no end
\* of inflation within the span - or N_end
Verdict(m, over, answers) ==
    IF over \/ FirstAnswer(answers) # "ended" THEN NULL ELSE Shifted(NEnd[m])

\* The worker answers and the driver's store handler takes the answer: a
\* trajectory that did not fail has its sample points turned into tokens first
Resolve(m) ==
    /\ phase = "stage1" /\ work[m].stage = "compute" /\ Minting = {}
    /\ \E over \in BOOLEAN, answers \in [1 .. Len(Solvers) -> {"failed", "ended", "endless"}] :
          LET nend == Verdict(m, over, answers) IN
          work' = [work EXCEPT ![m].verdict = nend,
                        ![m].stage = IF nend = NULL THEN "persist" ELSE "mint"]
    /\ UNCHANGED <<rows, results, next, flight, phase, shift, got, starts>>

NewTrajectory(m) ==
    [serial |-> next["InflatonTrajectory"], key |-> TrajectoryKey(m), nend |-> work[m].verdict,
     values |-> work[m].minted,
     expected |-> IF work[m].verdict = NULL THEN 0 ELSE Len(SampleGrid(work[m].verdict)),
     validated |-> FALSE]

\* Two sample points with one token violate the value table's primary key
Persist(m) ==
    /\ phase = "stage1" /\ work[m].stage = "persist" /\ ~InFlight(m)
    /\ IF ~IsInjective(work[m].minted)
       THEN phase' = "raised" /\ UNCHANGED <<rows, next, flight>>
       ELSE /\ \E s \in Shards :
                 /\ Insert(s, "InflatonTrajectory", NewTrajectory(m))
                 /\ flight' = [flight EXCEPT ![m] =
                       [op |-> "insert", cls |-> "InflatonTrajectory", row |-> NewTrajectory(m),
                        left |-> Shards \ {s}]]
            /\ next' = [next EXCEPT !["InflatonTrajectory"] = @ + 1]
            /\ UNCHANGED phase
    /\ UNCHANGED <<results, shift, got, work, starts>>

TrajectoryWritten(m) ==
    /\ phase = "stage1" /\ InFlight(m) /\ flight[m].left = {}
    /\ flight' = [flight EXCEPT ![m] = NoWrite]
    /\ work' = [work EXCEPT ![m].serial = flight[m].row.serial,
                      ![m].stage = IF flight[m].op = "insert" THEN "validate" ELSE "done"]
    /\ UNCHANGED <<rows, results, next, phase, shift, got, starts>>

ValidateStored(m) ==
    /\ phase = "stage1" /\ work[m].stage = "validate" /\ ~InFlight(m)
    /\ \E s \in Shards :
          /\ rows' = [rows EXCEPT ![s]["InflatonTrajectory"] = Validated(@, work[m].serial)]
          /\ flight' = [flight EXCEPT ![m] =
                [op |-> "validate", cls |-> "InflatonTrajectory", row |-> [serial |-> work[m].serial],
                 left |-> Shards \ {s}]]
    /\ UNCHANGED <<results, next, phase, shift, got, work, starts>>

\* Slip: a trajectory without an N_end is taken for one that is not available yet
HandOverSolved ==
    /\ phase = "stage1" /\ \A m \in Models : work[m].stage = "done" /\ work[m].verdict # NULL
    /\ phase' \in {"finished", "handed"}
    /\ UNCHANGED <<rows, results, next, flight, shift, got, work, starts>>

\* Every model has a stored trajectory: the branches get their proxies, unless
\* --stop-after inflaton-trajectory, which is looked at before --targets
HandOver ==
    /\ phase = "stage1" /\ \A m \in Models : work[m].stage = "done"
    /\ phase' \in {"finished", "handed"}
    /\ UNCHANGED <<rows, results, next, flight, shift, got, work, starts>>

\* The branches store rows that name the trajectories; compute() of an instanton
\* whose trajectory has no N_end raises, which ends the run
RunBranches ==
    /\ phase = "handed"
    /\ LET usable == {work[m].serial : m \in {x \in Models : work[x].verdict # NULL}} IN
       IF \A m \in Models : work[m].verdict # NULL
       THEN phase' = "finished" /\ results' = results \union usable
       ELSE phase' = "raised" /\ \E some \in SUBSET usable : results' = results \union some
    /\ UNCHANGED <<rows, next, flight, shift, got, work, starts>>

(***************************************************************************)
(* A kill, and the next start.                                             *)
(***************************************************************************)
Kill ==
    /\ IsOpen
    /\ phase' = "closed"
    /\ UNCHANGED <<rows, results, next, flight, shift, got, work, starts>>

\* The tables of all shards made the same again: a row that is missing is
\* copied; a flag that differs is computed anew
Reconciled ==
    LET all(c) == UNION {rows[s][c] : s \in Shards}
        torn(c, r) == \E q \in all(c) : q.serial = r.serial /\ q # r
    IN  [s \in Shards |-> [c \in Classes |->
            {IF c = "InflatonTrajectory" /\ torn(c, r) THEN Revalidated(r) ELSE r : r \in all(c)}]]

\* validate_on_startup(prune = True): unvalidated rows go, with their values
Prune(table) == [table EXCEPT !["InflatonTrajectory"] = {r \in @ : r.validated}]

Emptied(tables, table) ==
    [c \in Classes |-> IF c \in tables THEN {} ELSE table[c]]

\* Slip: each shard prunes its own rows before the shards are compared
OpenedEarly(prune, tables) ==
    [s \in Shards |-> Emptied(tables, IF prune THEN Prune(rows[s]) ELSE Reconciled[s])]

Opened(prune, tables) ==
    [s \in Shards |-> Emptied(tables, IF prune THEN Prune(Reconciled[s]) ELSE Reconciled[s])]

Open ==
    /\ ~IsOpen /\ starts < MaxStarts
    /\ \E prune \in BOOLEAN, drop \in DropRequests :
          /\ MayDrop(drop)
          /\ rows' = Opened(prune, Tables(drop))
          /\ results' = IF "FullInstanton" \in Tables(drop) THEN {} ELSE results
    /\ shift' \in Shifts
    /\ flight' = [w \in Writers |-> NoWrite]
    /\ phase' = "startup" /\ got' = <<>> /\ work' = [m \in Models |-> NewWork]
    /\ starts' = starts + 1
    /\ UNCHANGED next

Init ==
    /\ rows = [s \in Shards |-> [c \in Classes |-> {}]]
    /\ results = {} /\ next = [c \in Classes |-> 1]
    /\ flight = [w \in Writers |-> NoWrite]
    /\ phase = "closed" /\ shift = 0
    /\ got = <<>> /\ work = [m \in Models |-> NewWork] /\ starts = 0

Progress ==
    \/ LookUp \/ Mint \/ TokenWritten \/ StartStage1 \/ LookupModels
    \/ HandOver \/ RunBranches
    \/ \E w \in Writers : Replicate(w)
    \/ \E m \in Models : Resolve(m) \/ Persist(m) \/ TrajectoryWritten(m) \/ ValidateStored(m)

Next == Progress \/ Kill \/ Open
Spec == Init /\ [][Next]_vars /\ WF_vars(Progress)

(***************************************************************************)
(* Properties.                                                             *)
(***************************************************************************)
\* Between writes every shard of an open store holds the same replicated rows,
\* under the same serials and with the same validated flags, whatever was in
\* progress when earlier runs were killed
ReplicasAgree ==
    IsOpen /\ (\A w \in Writers : ~InFlight(w)) =>
        \A s, t \in Shards : rows[s] = rows[t]

\* A number has one token: no two rows of a class on a shard hold what two
\* runs, rounding differently, made of one number, so that no later look-up
\* finds two rows and results of both runs cite the same serial
OneTokenPerNumber ==
    \A s \in Shards, c \in Classes \intersect (Rounded \union {"efold_value"}) :
        \A q, r \in rows[s][c] : (\E d, e \in Shifts : q.key - r.key = d - e) => q = r

\* A validated trajectory that did not fail loads with every sample it was
\* stored with, on every shard, and spans [0, N_end], so that an instanton can
\* interpolate it up to the end of inflation
ValidatedSpans ==
    \A s \in Shards : \A r \in Trajectories(s) :
        r.validated /\ r.nend # NULL =>
            LET N == Loaded(s, r) IN
            /\ Len(N) = Len(r.values)
            /\ N[1] = 0 /\ \E d, e \in Shifts : Last(N) - r.nend = d - e

\* A result names a trajectory that stands, validated and not failed, on every
\* shard, across kills, prunes and drops
ResultsStand ==
    IsOpen => \A serial \in results : \A s \in Shards :
        \E r \in Trajectories(s) : r.serial = serial /\ r.validated /\ r.nend # NULL

\* Only a trajectory that failed makes a run raise, and then it does so in
\* every later run: the failure was stored and validated
RaisesOnFailure ==
    phase = "raised" =>
        /\ \A m \in Models : work[m].stage = "done"
        /\ \E m \in Models : \A s \in Shards :
              \E r \in Stored(s, m) : r.serial = work[m].serial /\ r.nend = NULL

\* A run that is not killed ends, finished or raised
StageEnds == [](IsOpen => <>(~IsOpen))
=============================================================================
