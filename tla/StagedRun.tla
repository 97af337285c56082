----------------------------- MODULE StagedRun -----------------------------
(***************************************************************************)
(* The driver of main.py, run again and again on one store: full           *)
(* instantons, slow-roll instantons, compaction functions and gradient-    *)
(* coupled instantons, one queue after the other, each looking up what the *)
(* store holds and computing what is missing.  --targets chooses the       *)
(* branches, --stop-after ends the homogeneous one early, and              *)
(* --no-store-values makes one queue of its three (UnifiedPipeline has     *)
(* that mode by itself, in finer steps) and rows without values to load.   *)
(*                                                                         *)
(* A grid names each point once (UnifiedPipeline shows what happens        *)
(* otherwise), so a point stands for its grid item.  Stage 1 has a solved  *)
(* trajectory.  The solvers' answers do not change, so that the scalars of *)
(* a stored row agree with those computed again.                           *)
(***************************************************************************)
EXTENDS InstantonStore, FiniteSets

CONSTANTS
    Combos,         \* (n_collocation_points, alpha_regularization)
    Answers,        \* what the solvers may return at the points: see OutcomeType
    Configs,        \* command lines: see ConfigType
    MaxRuns         \* bound: how often the program is started

OutcomeType ==
    [fi : BOOLEAN, sri : BOOLEAN, full : BOOLEAN, slow : BOOLEAN, gci : BOOLEAN]

Targets == {"homogeneous", "gradient"}

\* "nowhere": no --stop-after, or the one after the last stage
Stops == {"inflaton-trajectory", "full-instanton", "slow-roll-instanton", "nowhere"}

\* scalars: --no-store-values
ConfigType == [targets : SUBSET Targets, stop : Stops, scalars : BOOLEAN]

ASSUME StagedAssumption ==
    /\ Answers \subseteq [Points -> OutcomeType]
    /\ \A a \in Answers, p \in Points : (a[p].full => a[p].fi) /\ (a[p].slow => a[p].sri)
    /\ Configs \subseteq ConfigType
    /\ MaxRuns \in Nat
    /\ NULL \notin (Points \cup (Points \X Combos)) \X Nat

VARIABLES
    table,      \* the rows of each kind
    run,        \* how often the program was started
    config,     \* its command line
    phase,      \* what the driver is doing ...
    kind,       \* ... for which kind of object
    result,     \* what the solvers return at each point
    found,      \* serials of fi_results_all and sr_results_all
    stage,      \* where each item of the current queue is
    settled     \* targets that some run has brought to their end

vars == <<table, run, config, phase, kind, result, found, stage, settled>>

FI == "FullInstanton"
SRI == "SlowRollInstanton"
CF == "CompactionFunction"
GCI == "GradientCoupledInstanton"

Kinds == {FI, SRI, CF, GCI}

\* build_gradient_grid: a base point with one of the combinations
GradientPoints == Points \X Combos

Items == Points \cup GradientPoints
ItemsOf(k) == IF k = GCI THEN GradientPoints ELSE Points

Phases ==
    {"down", "lookup", "populate", "seed", "work", "pipelineLookup", "pipeline", "finished", "raised"}

\* Between its solve and its end an item of the unified queue persists three objects
HandlerStages == {"validatingFI", "storingSRI", "validatingSRI"}
PipelineStages == HandlerStages \cup {"storingCF", "validatingCF"}

Stages == {"idle", "queued", "computing", "validating", "done"} \cup PipelineStages

MySerial(w) == <<w, run>>
NothingFound == [p \in Points |-> [fi |-> NULL, sri |-> NULL]]
NothingQueued == [w \in Items |-> "idle"]

HasCF(p) == result[p].fi \/ result[p].sri

Init ==
    /\ result \in Answers
    /\ table = [k \in Kinds |-> {}]
    /\ run = 0
    /\ config = CHOOSE c \in Configs : TRUE         \* there is none yet
    /\ phase = "down" /\ kind = FI
    /\ found = NothingFound
    /\ stage = NothingQueued
    /\ settled = {}

-----------------------------------------------------------------------------
(***************************************************************************)
(* The order of the stages.                                                *)
(***************************************************************************)
Goto(ph, k) == phase' = ph /\ kind' = k

\* Slip: the gradient branch is left out when the homogeneous one was stopped
BranchesAfterStop ==
    IF "gradient" \in config.targets /\ config.stop = "nowhere"
      THEN Goto("seed", GCI) ELSE Goto("finished", kind)

AfterHomogeneous ==
    IF "gradient" \in config.targets THEN Goto("seed", GCI) ELSE Goto("finished", kind)

\* run_all_pipelines from Stage 1 on
Begin ==
    IF config'.stop = "inflaton-trajectory" THEN Goto("finished", FI)
    ELSE IF "homogeneous" \in config'.targets
      THEN (IF config'.scalars THEN Goto("pipelineLookup", CF) ELSE Goto("lookup", FI))
    ELSE IF "gradient" \in config'.targets THEN Goto("seed", GCI)
    ELSE Goto("finished", FI)

\* ... and on from the queue of the current kind
Advance ==
    CASE kind = FI -> IF config.stop = "full-instanton"
                        THEN AfterHomogeneous ELSE Goto("lookup", SRI)
      [] kind = SRI -> IF config.stop = "slow-roll-instanton"
                         THEN AfterHomogeneous ELSE Goto("lookup", CF)
      [] kind = CF -> AfterHomogeneous
      [] kind = GCI -> Goto("finished", GCI)

\* With --prune-unvalidated the tables are swept before anything else
Open ==
    /\ phase = "down"
    /\ run < MaxRuns
    /\ run' = run + 1
    /\ config' \in Configs
    /\ table' \in {table, [k \in Kinds |-> Prune(table[k])]}
    /\ Begin
    /\ UNCHANGED <<result, found, stage, settled>>

-----------------------------------------------------------------------------
(***************************************************************************)
(* Looking up.                                                             *)
(***************************************************************************)
Existing(w) ==
    IF kind = CF THEN MatchingCompaction(table[CF], found[w].fi, found[w].sri)
                 ELSE Matching(table[kind], w)

Enqueue(missing) == stage' = [w \in Items |-> IF w \in missing THEN "queued" ELSE "idle"]

Raise == phase' = "raised" /\ UNCHANGED <<kind, found, stage>>

\* Pass 1 of _run_instanton_queue
LookupInstantons ==
    /\ phase = "lookup"
    /\ kind # CF
    /\ LET missing == {w \in ItemsOf(kind) : Existing(w) = {}} IN
          IF \E w \in ItemsOf(kind) : Ambiguous(Existing(w)) THEN Raise
          ELSE /\ Enqueue(missing)
               /\ UNCHANGED found
               /\ IF missing = {} THEN Advance ELSE Goto("work", kind)
    /\ UNCHANGED <<table, run, config, result, settled>>

\* Both instantons, and the compaction function under the serials they have, NULL for the
\* one that is absent: nobody else writes while the driver looks up
Instantons(p) == [fi |-> Matching(table[FI], p), sri |-> Matching(table[SRI], p)]

SerialsFound(p) == [fi |-> SerialIn(Instantons(p).fi), sri |-> SerialIn(Instantons(p).sri)]

CompactionFound(p) ==
    MatchingCompaction(table[CF], SerialsFound(p).fi, SerialsFound(p).sri)

Checkable == {p \in Points : Instantons(p).fi # {} \/ Instantons(p).sri # {}}

LookupRaises ==
    \/ \E p \in Points : Ambiguous(Instantons(p).fi) \/ Ambiguous(Instantons(p).sri)
    \/ \E p \in Checkable : Ambiguous(CompactionFound(p))

QueueMissing(missing, ph) ==
    /\ found' = [p \in Points |-> SerialsFound(p)]
    /\ Enqueue(missing)
    /\ IF missing = {} THEN Advance ELSE Goto(ph, CF)

\* Passes 1a to 1c of Stage 4
LookupCompactions ==
    /\ phase = "lookup"
    /\ kind = CF
    /\ IF LookupRaises THEN Raise
       ELSE QueueMissing({p \in Checkable : CompactionFound(p) = {}}, "populate")
    /\ UNCHANGED <<table, run, config, result, settled>>

\* Steps A to C of the unified queue: an item with neither instanton is missing as well
LookupPipeline ==
    /\ phase = "pipelineLookup"
    /\ IF LookupRaises THEN Raise
       ELSE QueueMissing({p \in Points : p \in Checkable => CompactionFound(p) = {}}, "pipeline")
    /\ UNCHANGED <<table, run, config, result, settled>>

\* Passes 2a and 2b: the instantons of the missing items again, with their values
Populate ==
    /\ phase = "populate"
    /\ IF \E p \in Points : /\ stage[p] = "queued"
                            /\ \/ CannotPopulate(Matching(table[FI], p))
                               \/ CannotPopulate(Matching(table[SRI], p))
         THEN Raise
         ELSE Goto("work", CF) /\ UNCHANGED <<found, stage>>
    /\ UNCHANGED <<table, run, config, result, settled>>

\* Pass 0 of the gradient branch: a full instanton with its values for every base point
FetchSeeds ==
    /\ phase = "seed"
    /\ IF \E p \in Points : \/ Ambiguous(Matching(table[FI], p))
                            \/ CannotPopulate(Matching(table[FI], p))
         THEN Raise
         ELSE Goto("lookup", GCI) /\ UNCHANGED <<found, stage>>
    /\ UNCHANGED <<table, run, config, result, settled>>

-----------------------------------------------------------------------------
(***************************************************************************)
(* Working off a queue.                                                    *)
(***************************************************************************)
Move(w, s) == stage' = [stage EXCEPT ![w] = s]

\* The object is fetched once more, for its values; one that is there by now is done
Dispatch(w) ==
    /\ phase = "work"
    /\ stage[w] = "queued"
    /\ Move(w, IF Existing(w) = {} THEN "computing" ELSE "done")
    /\ UNCHANGED <<table, run, config, phase, kind, result, found, settled>>

\* Slip: the object that was computed keeps a serial of its own
FreshSerialOnly(p) == MySerial(p)

\* The serials an item of the unified queue goes on with: those of the rows that were there
FISerial(p) == IF found[p].fi # NULL THEN found[p].fi ELSE MySerial(p)
SRISerial(p) == IF found[p].sri # NULL THEN found[p].sri ELSE MySerial(p)

\* There the compaction function is built without the instanton whose solve has failed
FIKey(p) == IF ~config.scalars THEN found[p].fi ELSE IF result[p].fi THEN FISerial(p) ELSE NULL
SRIKey(p) == IF ~config.scalars THEN found[p].sri ELSE IF result[p].sri THEN SRISerial(p) ELSE NULL

NewRow(k, w) ==
    CASE k = FI -> InstantonRow(MySerial(w), w, result[w].fi, config.scalars)
      [] k = SRI -> InstantonRow(MySerial(w), w, result[w].sri, config.scalars)
      [] k = CF -> CompactionRow(MySerial(w), FIKey(w), SRIKey(w),
                                 result[w].full, result[w].slow, config.scalars)
      [] k = GCI -> InstantonRow(MySerial(w), w, result[w[1]].gci, config.scalars)

Insert(k, w) == table' = [table EXCEPT ![k] = @ \cup {NewRow(k, w)}]
SetValid(k, w) == table' = [table EXCEPT ![k] = Validate(@, MySerial(w))]

\* The solve ends, the object takes its result and is stored
Store(w) ==
    /\ phase = "work"
    /\ stage[w] = "computing"
    /\ Insert(kind, w)
    /\ Move(w, "validating")
    /\ UNCHANGED <<run, config, phase, kind, result, found, settled>>

ValidateRow(w) ==
    /\ phase = "work"
    /\ stage[w] = "validating"
    /\ SetValid(kind, w)
    /\ Move(w, "done")
    /\ UNCHANGED <<run, config, phase, kind, result, found, settled>>

(***************************************************************************)
(* The unified queue.  An instanton that is there is reused, the others    *)
(* are stored and validated by the driver, which does nothing else in the  *)
(* meantime; then the compaction function is, if either solve succeeded.   *)
(* (If neither did, the full instanton is validated a second time.)        *)
(***************************************************************************)
HandlerFree(w) == \A v \in Items \ {w} : stage[v] \notin HandlerStages

StartItem(w) ==
    /\ stage[w] = "queued" /\ HandlerFree(w)
    /\ Move(w, "computing")
    /\ UNCHANGED table

\* Slip: the row that is there is not reused
PersistFIAnew(w) ==
    /\ stage[w] = "computing" /\ HandlerFree(w)
    /\ Insert(FI, w) /\ Move(w, "validatingFI")

PersistFI(w) ==
    /\ stage[w] = "computing" /\ HandlerFree(w)
    /\ IF found[w].fi # NULL THEN Move(w, "storingSRI") /\ UNCHANGED table
       ELSE Insert(FI, w) /\ Move(w, "validatingFI")

ValidateFI(w) ==
    /\ stage[w] = "validatingFI"
    /\ SetValid(FI, w)
    /\ Move(w, "storingSRI")

PersistSRI(w) ==
    /\ stage[w] = "storingSRI"
    /\ IF found[w].sri # NULL THEN Move(w, "storingCF") /\ UNCHANGED table
       ELSE Insert(SRI, w) /\ Move(w, "validatingSRI")

ValidateSRI(w) ==
    /\ stage[w] = "validatingSRI"
    /\ SetValid(SRI, w)
    /\ Move(w, "storingCF")

PersistCF(w) ==
    /\ stage[w] = "storingCF"
    /\ IF HasCF(w) THEN Insert(CF, w) /\ Move(w, "validatingCF")
       ELSE Move(w, "done") /\ UNCHANGED table

ValidateCF(w) ==
    /\ stage[w] = "validatingCF" /\ HandlerFree(w)
    /\ SetValid(CF, w)
    /\ Move(w, "done")

Pipeline(w) ==
    /\ phase = "pipeline"
    /\ \/ StartItem(w) \/ PersistFI(w) \/ ValidateFI(w) \/ PersistSRI(w) \/ ValidateSRI(w)
       \/ PersistCF(w) \/ ValidateCF(w)
    /\ UNCHANGED <<run, config, phase, kind, result, found, settled>>

\* Slip: the items that were never queued are waited for, too
QueueAllDone ==
    /\ phase \in {"work", "pipeline"}
    /\ \A w \in ItemsOf(kind) : stage[w] = "done"
    /\ stage' = NothingQueued
    /\ Advance
    /\ UNCHANGED <<table, run, config, result, found, settled>>

QueueDone ==
    /\ phase \in {"work", "pipeline"}
    /\ \A w \in Items : stage[w] \in {"idle", "done"}
    /\ stage' = NothingQueued
    /\ Advance
    /\ UNCHANGED <<table, run, config, result, found, settled>>

-----------------------------------------------------------------------------
Gone ==
    /\ phase' = "down"
    /\ found' = NothingFound
    /\ stage' = NothingQueued
    /\ UNCHANGED <<table, run, config, kind, result>>

\* Stage 1 stops both branches, the later stages the homogeneous one alone, and the unified
\* queue is not stopped by them
Completed ==
    config.targets \cap
        (CASE config.stop = "inflaton-trajectory" -> {}
           [] config.stop = "nowhere" -> Targets
           [] OTHER -> IF config.scalars THEN Targets ELSE {"gradient"})

\* What no run has to do again: a scalar one returns to the points of which a solve failed
Lasting == IF config.scalars THEN Completed \ {"homogeneous"} ELSE Completed

Exit ==
    /\ phase \in {"finished", "raised"}
    /\ settled' = settled \cup (IF phase = "finished" THEN Lasting ELSE {})
    /\ Gone

\* The last run of the bound is spared
Kill == phase \notin {"down", "finished"} /\ run < MaxRuns /\ Gone /\ UNCHANGED settled

Step(w) == Dispatch(w) \/ Store(w) \/ ValidateRow(w) \/ Pipeline(w)

Driver ==
    \/ Open \/ LookupInstantons \/ LookupCompactions \/ LookupPipeline \/ Populate \/ FetchSeeds
    \/ QueueDone \/ Exit

Next == Driver \/ (\E w \in Items : Step(w)) \/ Kill

Spec == Init /\ [][Next]_vars

\* The driver and the workers do not stop by themselves, and the program is run again
FairSpec == Spec /\ WF_vars(Driver) /\ \A w \in Items : WF_vars(Step(w))

-----------------------------------------------------------------------------
Serials == Items \X (0 .. MaxRuns)

(***************************************************************************)
(* A run that ends regularly leaves every point settled in the branches it *)
(* was not told to stop, whatever runs of either mode were killed before   *)
(* it: both instantons and a compaction function that names one of them    *)
(* (of a point that neither solver solves, a scalar run stores none), and  *)
(* every gradient-coupled instanton.                                       *)
(***************************************************************************)
CompactionOf(p) ==
    {c \in table[CF] : /\ c.validated
                       /\ \/ \E r \in Matching(table[FI], p) : c.fi = r.serial
                          \/ \E r \in Matching(table[SRI], p) : c.sri = r.serial}

FinishedIsComplete ==
    phase = "finished" =>
        /\ "homogeneous" \in Completed =>
              \A p \in Points : /\ Matching(table[FI], p) # {}
                                /\ Matching(table[SRI], p) # {}
                                /\ HasCF(p) \/ ~config.scalars => CompactionOf(p) # {}
        /\ "gradient" \in Completed =>
              \A g \in GradientPoints : Matching(table[GCI], g) # {}

(***************************************************************************)
(* However runs of both modes and kills alternate, a compaction function   *)
(* never names a row that is gone or not validated, and of those that name *)
(* both instantons of a point at most one is validated.  (Of a point one   *)
(* solve of which failed, each scalar run stores a further one that names  *)
(* the other instanton alone, because it looks for one that names both.)   *)
(***************************************************************************)
NamesBoth(c) == c.fi # NULL /\ c.sri # NULL

CompactionsSound ==
    /\ \A c \in table[CF] :
          /\ c.fi # NULL => \E r \in table[FI] : r.validated /\ r.serial = c.fi
          /\ c.sri # NULL => \E r \in table[SRI] : r.validated /\ r.serial = c.sri
    /\ \A p \in Points : ~Ambiguous({c \in CompactionOf(p) : NamesBoth(c)})

(***************************************************************************)
(* A run raises only where it wants the values of an instanton that was    *)
(* stored without: whatever was stored, twice or in part, no look-up finds *)
(* two rows.                                                               *)
(***************************************************************************)
RaisesOnScalarRowsOnly ==
    phase = "raised" =>
        \E p \in Points : CannotPopulate(Instantons(p).fi) \/ CannotPopulate(Instantons(p).sri)

(***************************************************************************)
(* The full mode is idempotent, failures included: what a completed run of *)
(* it has settled is never computed again, by whatever run of either mode; *)
(* nor is a gradient branch that was completed in either.                  *)
(***************************************************************************)
SerialsOf(k) == {r.serial : r \in table[k]}

SettledStoresNothing ==
    [][ /\ "homogeneous" \in settled =>
              \A k \in {FI, SRI, CF} : SerialsOf(k)' \subseteq SerialsOf(k)
        /\ "gradient" \in settled => SerialsOf(GCI)' \subseteq SerialsOf(GCI) ]_vars

(***************************************************************************)
(* No run hangs: once its queue is worked off it goes on to the next, and  *)
(* it comes to its end, whatever the command line and the store.           *)
(***************************************************************************)
RunsEnd == phase # "down" ~> phase = "down"

=============================================================================
