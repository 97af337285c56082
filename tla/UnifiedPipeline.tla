-------------------------- MODULE UnifiedPipeline --------------------------
(***************************************************************************)
(* The driver of main.py with --no-store-values: one work item per grid    *)
(* point computes its FullInstanton, SlowRollInstanton and Compaction-     *)
(* Function together.  The program is started, killed at any instant and   *)
(* started again on the same store, with or without --prune-unvalidated.   *)
(*                                                                         *)
(* A run opens the store, looks up the instantons (steps A and B), looks   *)
(* up the compaction functions under the serials it found (step C) and     *)
(* puts the grid points that have none through a RayWorkPool.  The driver  *)
(* handles one completed reference at a time: from store_handler to the    *)
(* submission of the compaction function nothing else of the driver runs,  *)
(* while the other items' remote tasks go on.                              *)
(***************************************************************************)
EXTENDS InstantonStore, FiniteSets

CONSTANTS
    Tasks,          \* items of the grid, in CSV or Cartesian order
    PointOf,        \* the identity each item resolves to
    Outcomes,       \* what compute_pipeline may return: see OutcomeType
    CodeChanges,    \* may the solver's answers differ from one run to the next?
    MaxInFlight,    \* max_task_queue
    MaxRuns         \* bound: how often the program is started

OutcomeType == [fi : BOOLEAN, sri : BOOLEAN, full : BOOLEAN, slow : BOOLEAN]

(***************************************************************************)
(* A path of the compaction function is computed only from a solved        *)
(* instanton (and may fail on its own).                                    *)
(***************************************************************************)
ASSUME PipelineAssumption ==
    /\ PointOf \in [Tasks -> Points]
    /\ Outcomes \subseteq OutcomeType
    /\ Outcomes # {}
    /\ \A o \in Outcomes : (o.full => o.fi) /\ (o.slow => o.sri)
    /\ CodeChanges \in BOOLEAN
    /\ MaxInFlight \in Nat \ {0}
    /\ MaxRuns \in Nat
    /\ NULL \notin Tasks \X Nat

\* Two items of the grid never name the same point
DistinctTasks == \A t, u \in Tasks : PointOf[t] = PointOf[u] => t = u

VARIABLES
    fiTable,    \* FullInstanton
    sriTable,   \* SlowRollInstanton
    cfTable,    \* CompactionFunction
    run,        \* how often the program was started
    phase,      \* where the driver is
    unpruned,   \* tables validate_on_startup has still to go through
    result,     \* what a solve of each point returns in this run
    found,      \* serials of fi_existing and sri_existing
    stage,      \* where each grid item is in the work queue
    settled     \* has a run ever come to its regular end?

store == <<fiTable, sriTable, cfTable>>
vars == <<fiTable, sriTable, cfTable, run, phase, unpruned, result, found, stage, settled>>

Tables == {"FullInstanton", "SlowRollInstanton", "CompactionFunction"}

Phases == {"down", "opening", "lookupSRI", "lookupCF", "work", "finished", "raised"}

\* Stages of the driver's store and persist handlers, which run to the end undisturbed
HandlerStages == {"persistFI", "validateFI", "persistSRI", "validateSRI", "persistCF"}

RemoteStages == {"computing", "storingCF", "validatingCF", "validatingFI"}

Stages == {"idle", "queued", "computed", "done"} \cup HandlerStages \cup RemoteStages

\* The serial of the row an item inserts: no two insertions get the same one
Serials == Tasks \X (1 .. MaxRuns)
MySerial(t) == <<t, run>>

NothingFound == [t \in Tasks |-> [fi |-> NULL, sri |-> NULL]]

InFlight == {t \in Tasks : stage[t] \notin {"idle", "queued", "done"}}
HandlerBusy == \E t \in Tasks : stage[t] \in HandlerStages

Outcome(t) == result[PointOf[t]]

\* item.fi.store_id and item.sri.store_id once the item has persisted them
FISerial(t) == IF found[t].fi # NULL THEN found[t].fi ELSE MySerial(t)
SRISerial(t) == IF found[t].sri # NULL THEN found[t].sri ELSE MySerial(t)

Init ==
    /\ fiTable = {} /\ sriTable = {} /\ cfTable = {}
    /\ run = 0
    /\ phase = "down"
    /\ unpruned = {}
    /\ result \in [Points -> Outcomes]
    /\ found = NothingFound
    /\ stage = [t \in Tasks |-> "idle"]
    /\ settled = FALSE

-----------------------------------------------------------------------------
(***************************************************************************)
(* Opening the store and looking up what it holds.                         *)
(***************************************************************************)

Open ==
    /\ phase = "down"
    /\ run < MaxRuns
    /\ run' = run + 1
    /\ phase' = "opening"
    /\ unpruned' \in {{}, Tables}                       \* --prune-unvalidated
    /\ IF CodeChanges THEN result' \in [Points -> Outcomes] ELSE UNCHANGED result
    /\ UNCHANGED <<store, found, stage, settled>>

PruneTable(T) ==
    /\ phase = "opening"
    /\ T \in unpruned
    /\ unpruned' = unpruned \ {T}
    /\ fiTable' = IF T = "FullInstanton" THEN Prune(fiTable) ELSE fiTable
    /\ sriTable' = IF T = "SlowRollInstanton" THEN Prune(sriTable) ELSE sriTable
    /\ cfTable' = IF T = "CompactionFunction" THEN Prune(cfTable) ELSE cfTable
    /\ UNCHANGED <<run, phase, result, found, stage, settled>>

\* Step A
LookupFI ==
    /\ phase = "opening"
    /\ unpruned = {}
    /\ IF \E t \in Tasks : Ambiguous(Matching(fiTable, PointOf[t]))
         THEN phase' = "raised" /\ UNCHANGED found
         ELSE /\ phase' = "lookupSRI"
              /\ found' = [t \in Tasks |->
                    [fi |-> SerialIn(Matching(fiTable, PointOf[t])), sri |-> NULL]]
    /\ UNCHANGED <<store, run, unpruned, result, stage, settled>>

\* Step B
LookupSRI ==
    /\ phase = "lookupSRI"
    /\ IF \E t \in Tasks : Ambiguous(Matching(sriTable, PointOf[t]))
         THEN phase' = "raised" /\ UNCHANGED found
         ELSE /\ phase' = "lookupCF"
              /\ found' = [t \in Tasks |->
                    [fi |-> found[t].fi, sri |-> SerialIn(Matching(sriTable, PointOf[t]))]]
    /\ UNCHANGED <<store, run, unpruned, result, stage, settled>>

(***************************************************************************)
(* Step C.  An item with neither instanton is skipped by the query and     *)
(* joins cf_missing; the others are looked up under the serials found,     *)
(* NULL for the one that is absent.                                        *)
(***************************************************************************)
Checkable(t) == found[t].fi # NULL \/ found[t].sri # NULL

StoredCF(t) == MatchingCompaction(cfTable, found[t].fi, found[t].sri)

\* Slip: the skipped items are left out of cf_missing
LookupCFOfCheckable ==
    /\ phase = "lookupCF"
    /\ LET missing == {t \in Tasks : Checkable(t) /\ StoredCF(t) = {}} IN
        /\ stage' = [t \in Tasks |-> IF t \in missing THEN "queued" ELSE "idle"]
        /\ phase' = IF missing = {} THEN "finished" ELSE "work"
        /\ settled' = (settled \/ missing = {})
    /\ UNCHANGED <<store, run, unpruned, result, found>>

LookupCF ==
    /\ phase = "lookupCF"
    /\ IF \E t \in Tasks : Checkable(t) /\ Ambiguous(StoredCF(t))
         THEN phase' = "raised" /\ UNCHANGED <<stage, settled>>
         ELSE LET missing == {t \in Tasks : Checkable(t) => StoredCF(t) = {}} IN
              /\ stage' = [t \in Tasks |-> IF t \in missing THEN "queued" ELSE "idle"]
              /\ phase' = IF missing = {} THEN "finished" ELSE "work"
              /\ settled' = (settled \/ missing = {})
    /\ UNCHANGED <<store, run, unpruned, result, found>>

-----------------------------------------------------------------------------
(***************************************************************************)
(* The work queue.                                                         *)
(***************************************************************************)

Move(t, s) == stage' = [stage EXCEPT ![t] = s]

\* Slip: the item about to be taken is counted as if it were in flight
DispatchBelowCap(t) ==
    /\ phase = "work"
    /\ ~HandlerBusy
    /\ stage[t] = "queued"
    /\ Cardinality(InFlight) + 1 < MaxInFlight
    /\ Move(t, "computing")
    /\ UNCHANGED <<store, run, phase, unpruned, result, found, settled>>

\* RayWorkPool takes a new item while its in-flight count is below the cap
Dispatch(t) ==
    /\ phase = "work"
    /\ ~HandlerBusy
    /\ stage[t] = "queued"
    /\ Cardinality(InFlight) < MaxInFlight
    /\ Move(t, "computing")
    /\ UNCHANGED <<store, run, phase, unpruned, result, found, settled>>

\* compute_pipeline ends on a worker
ComputeDone(t) ==
    /\ phase = "work"
    /\ stage[t] = "computing"
    /\ Move(t, "computed")
    /\ UNCHANGED <<store, run, phase, unpruned, result, found, settled>>

(***************************************************************************)
(* _check_scalar_integrity.  A fresh failure passes.  A fresh success      *)
(* passes against a row of a success; against the row of a failure, whose  *)
(* msr_action and N_total are skipped, it raises, because the row has no   *)
(* noise_phi1_mean and the fresh result does.  The numbers of two          *)
(* successes, which rows do not keep here, may be too far apart if the     *)
(* code has changed.                                                       *)
(***************************************************************************)
\* Slips: a NULL in the stored row is skipped throughout; a fresh failure is compared too
NullsSkipped(table, serial, ok) == TRUE
FailureCompared(table, serial, ok) == \A r \in table : r.serial = serial => r.ok

ScalarsAgree(table, serial, ok) ==
    ~ok \/ \A r \in table : r.serial = serial => r.ok

IntegrityHolds(t) ==
    /\ found[t].fi # NULL => ScalarsAgree(fiTable, found[t].fi, Outcome(t).fi)
    /\ found[t].sri # NULL => ScalarsAgree(sriTable, found[t].sri, Outcome(t).sri)

NumbersMayDisagree(t) ==
    /\ CodeChanges
    /\ \/ found[t].fi # NULL /\ Outcome(t).fi
       \/ found[t].sri # NULL /\ Outcome(t).sri

\* PipelineWorkItem.store(); an exception ends RayWorkPool.run() and the program
StoreHandler(t) ==
    /\ phase = "work"
    /\ ~HandlerBusy
    /\ stage[t] = "computed"
    /\ \/ IntegrityHolds(t) /\ Move(t, "persistFI") /\ UNCHANGED phase
       \/ /\ ~IntegrityHolds(t) \/ NumbersMayDisagree(t)
          /\ phase' = "raised" /\ UNCHANGED stage
    /\ UNCHANGED <<store, run, unpruned, result, found, settled>>

\* _persist_pipeline_item, step by step: each is a call the driver waits for
PersistFI(t) ==
    /\ phase = "work"
    /\ stage[t] = "persistFI"
    /\ IF found[t].fi # NULL
         THEN Move(t, "persistSRI") /\ UNCHANGED fiTable
         ELSE /\ fiTable' = fiTable \cup
                    {InstantonRow(MySerial(t), PointOf[t], Outcome(t).fi, TRUE)}
              /\ Move(t, "validateFI")
    /\ UNCHANGED <<sriTable, cfTable, run, phase, unpruned, result, found, settled>>

ValidateFI(t) ==
    /\ phase = "work"
    /\ stage[t] = "validateFI"
    /\ fiTable' = Validate(fiTable, FISerial(t))
    /\ Move(t, "persistSRI")
    /\ UNCHANGED <<sriTable, cfTable, run, phase, unpruned, result, found, settled>>

PersistSRI(t) ==
    /\ phase = "work"
    /\ stage[t] = "persistSRI"
    /\ IF found[t].sri # NULL
         THEN Move(t, "persistCF") /\ UNCHANGED sriTable
         ELSE /\ sriTable' = sriTable \cup
                    {InstantonRow(MySerial(t), PointOf[t], Outcome(t).sri, TRUE)}
              /\ Move(t, "validateSRI")
    /\ UNCHANGED <<fiTable, cfTable, run, phase, unpruned, result, found, settled>>

ValidateSRI(t) ==
    /\ phase = "work"
    /\ stage[t] = "validateSRI"
    /\ sriTable' = Validate(sriTable, SRISerial(t))
    /\ Move(t, "persistCF")
    /\ UNCHANGED <<fiTable, cfTable, run, phase, unpruned, result, found, settled>>

(***************************************************************************)
(* The last call of the handler submits the compaction function without    *)
(* waiting; when both solves failed there is none, and the queue gets the  *)
(* FullInstanton to validate a second time.                                *)
(***************************************************************************)
HasCF(t) == Outcome(t).fi \/ Outcome(t).sri

PersistCF(t) ==
    /\ phase = "work"
    /\ stage[t] = "persistCF"
    /\ Move(t, IF HasCF(t) THEN "storingCF" ELSE "validatingFI")
    /\ UNCHANGED <<store, run, phase, unpruned, result, found, settled>>

(***************************************************************************)
(* The shard's actor stores the compaction function.  The work item built  *)
(* it without the instanton whose solve failed: that foreign key is NULL.  *)
(* (A submitted call that is carried out after another item has made the   *)
(* driver raise is the same as one carried out just before.)               *)
(***************************************************************************)
\* Slip: the foreign keys are read before the instantons have theirs
NewCFStaleKeys(t) ==
    CompactionRow(MySerial(t), found[t].fi, found[t].sri,
                  Outcome(t).full, Outcome(t).slow, TRUE)

NewCF(t) ==
    CompactionRow(MySerial(t),
                  IF Outcome(t).fi THEN FISerial(t) ELSE NULL,
                  IF Outcome(t).sri THEN SRISerial(t) ELSE NULL,
                  Outcome(t).full, Outcome(t).slow, TRUE)

CFStored(t) ==
    /\ phase = "work"
    /\ stage[t] = "storingCF"
    /\ cfTable' = cfTable \cup {NewCF(t)}
    /\ Move(t, "validatingCF")
    /\ UNCHANGED <<fiTable, sriTable, run, phase, unpruned, result, found, settled>>

\* RayWorkPool's validation_handler, submitted by the driver when the store has returned
ValidateCF(t) ==
    /\ phase = "work"
    /\ ~HandlerBusy
    /\ stage[t] = "validatingCF"
    /\ cfTable' = Validate(cfTable, MySerial(t))
    /\ Move(t, "done")
    /\ UNCHANGED <<fiTable, sriTable, run, phase, unpruned, result, found, settled>>

RevalidateFI(t) ==
    /\ phase = "work"
    /\ ~HandlerBusy
    /\ stage[t] = "validatingFI"
    /\ fiTable' = Validate(fiTable, FISerial(t))
    /\ Move(t, "done")
    /\ UNCHANGED <<sriTable, cfTable, run, phase, unpruned, result, found, settled>>

QueueDone ==
    /\ phase = "work"
    /\ \A t \in Tasks : stage[t] \in {"idle", "done"}
    /\ phase' = "finished"
    /\ settled' = TRUE
    /\ UNCHANGED <<store, run, unpruned, result, found, stage>>

-----------------------------------------------------------------------------
(***************************************************************************)
(* The end of the program, regular or not: what it held in memory is gone. *)
(* A kill may strike at any instant; the last run of the bound is spared.  *)
(***************************************************************************)
Gone ==
    /\ phase' = "down"
    /\ unpruned' = {}
    /\ found' = NothingFound
    /\ stage' = [t \in Tasks |-> "idle"]
    /\ UNCHANGED <<store, run, result, settled>>

Exit == phase \in {"finished", "raised"} /\ Gone

Kill == phase \notin {"down", "finished"} /\ run < MaxRuns /\ Gone

Step(t) ==
    \/ Dispatch(t) \/ ComputeDone(t) \/ StoreHandler(t)
    \/ PersistFI(t) \/ ValidateFI(t) \/ PersistSRI(t) \/ ValidateSRI(t)
    \/ PersistCF(t) \/ CFStored(t) \/ ValidateCF(t) \/ RevalidateFI(t)

Driver ==
    \/ Open \/ LookupFI \/ LookupSRI \/ LookupCF \/ QueueDone \/ Exit
    \/ \E T \in Tables : PruneTable(T)

Next == Driver \/ (\E t \in Tasks : Step(t)) \/ Kill

Spec == Init /\ [][Next]_vars

(***************************************************************************)
(* The driver and the workers do not stop by themselves, and somebody runs *)
(* the program again; nobody has to kill it.                               *)
(***************************************************************************)
Fairness == WF_vars(Driver) /\ \A t \in Tasks : WF_vars(Step(t))

FairSpec == Spec /\ Fairness

-----------------------------------------------------------------------------
TypeOK ==
    /\ fiTable \subseteq InstantonRows(Serials)
    /\ sriTable \subseteq InstantonRows(Serials)
    /\ cfTable \subseteq CompactionRows(Serials, Serials \cup {NULL})
    /\ run \in 0 .. MaxRuns
    /\ phase \in Phases
    /\ unpruned \subseteq Tables
    /\ result \in [Points -> Outcomes]
    /\ found \in [Tasks -> [fi : Serials \cup {NULL}, sri : Serials \cup {NULL}]]
    /\ stage \in [Tasks -> Stages]
    /\ settled \in BOOLEAN

(***************************************************************************)
(* No point has two validated rows of one kind: the lookups of steps A and *)
(* B, which raise on a second row (one_or_none), never do.                 *)
(***************************************************************************)
OneValidatedRow ==
    \A p \in Points :
        /\ ~Ambiguous(Matching(fiTable, p))
        /\ ~Ambiguous(Matching(sriTable, p))

(***************************************************************************)
(* A stored compaction function, validated or not, names at least one      *)
(* instanton, and those it names are in the store, validated and of one    *)
(* point: neither a kill between two of the driver's calls nor a prune at  *)
(* the next start leaves a dangling reference behind.                      *)
(***************************************************************************)
ReferencesHold ==
    \A c \in cfTable :
        /\ c.fi # NULL \/ c.sri # NULL
        /\ c.fi # NULL => \E r \in fiTable : r.validated /\ r.serial = c.fi
        /\ c.sri # NULL => \E r \in sriTable : r.validated /\ r.serial = c.sri
        /\ \A r \in fiTable, s \in sriTable :
               r.serial = c.fi /\ s.serial = c.sri => r.point = s.point

(***************************************************************************)
(* A path of a stored compaction function has a result only if the row it  *)
(* names is that of a solved instanton: also when the solver changed       *)
(* between runs, no result hangs on the row of a failure.                  *)
(***************************************************************************)
ResultsHaveSources ==
    \A c \in cfTable :
        /\ c.full => \E r \in fiTable : r.serial = c.fi /\ r.ok
        /\ c.slow => \E r \in sriTable : r.serial = c.sri /\ r.ok

(***************************************************************************)
(* When a run has come to its regular end, every grid item has both        *)
(* instantons in the store and, unless its solves both fail, a validated   *)
(* compaction function that names those it can solve.                      *)
(***************************************************************************)
FinishedIsComplete ==
    phase = "finished" =>
        \A t \in Tasks :
            LET fi == Matching(fiTable, PointOf[t])
                sri == Matching(sriTable, PointOf[t])
            IN  /\ fi # {} /\ sri # {}
                /\ \/ stage[t] = "done" /\ ~HasCF(t)
                   \/ \E c \in cfTable :
                        /\ c.validated
                        /\ c.fi \in {SerialIn(fi)} \cup (IF Outcome(t).fi THEN {} ELSE {NULL})
                        /\ c.sri \in {SerialIn(sri)} \cup (IF Outcome(t).sri THEN {} ELSE {NULL})

\* As long as the solver gives the same answers, no run ends in an exception
NeverRaises == phase # "raised"

(***************************************************************************)
(* Rows, once validated, stay as they are: no later run rewrites, prunes   *)
(* or invalidates them.                                                    *)
(***************************************************************************)
ValidatedRowsStay ==
    [][ /\ \A r \in fiTable : r.validated => r \in fiTable'
        /\ \A r \in sriTable : r.validated => r \in sriTable'
        /\ \A r \in cfTable : r.validated => r \in cfTable' ]_vars

(***************************************************************************)
(* After one complete run a grid point that both solvers solve is never    *)
(* computed again.                                                         *)
(***************************************************************************)
Solved(t) == Outcome(t).fi /\ Outcome(t).sri

SolvedNotRecomputed ==
    [][ \A t \in Tasks : settled /\ Solved(t) /\ stage[t] = "idle" => stage'[t] = "idle" ]_vars

(***************************************************************************)
(* Each kind of instanton gets one verdict per point, for good.            *)
(***************************************************************************)
Verdict(table) ==
    [p \in Points |->
        IF Matching(table, p) = {} THEN "none"
        ELSE IF \E r \in Matching(table, p) : r.ok THEN "solved" ELSE "failed"]

FILedger == INSTANCE InstantonLedger WITH verdict <- Verdict(fiTable)
SRILedger == INSTANCE InstantonLedger WITH verdict <- Verdict(sriTable)

ImplementsFILedger == FILedger!Spec
ImplementsSRILedger == SRILedger!Spec

(***************************************************************************)
(* However often it is killed, a campaign that is started again in the end *)
(* completes.                                                              *)
(***************************************************************************)
EventuallySettles == <>settled

=============================================================================
