------------------------ MODULE UnifiedPipelineInv ------------------------
(***************************************************************************)
(* Why UnifiedPipeline is right: the facts about the tables and the items  *)
(* in the queue that together survive every step, and from which its       *)
(* safety properties follow.                                               *)
(***************************************************************************)
EXTENDS UnifiedPipeline

(***************************************************************************)
(* A row comes from one item in one run, this one or an earlier one, and   *)
(* its serial tells it from every other row.                               *)
(***************************************************************************)
Provenance(table, last) ==
    \A r \in table :
        /\ r.point = PointOf[r.serial[1]]
        /\ r.serial[2] <= last
        /\ \A s \in table : s.serial = r.serial => s = r

(***************************************************************************)
(* The way of an item through the handler, for either instanton.           *)
(***************************************************************************)
BeforeFI == {"idle", "queued", "computing", "computed", "persistFI"}
BeforeSRI == BeforeFI \cup {"validateFI", "persistSRI"}
AfterSRI == {"persistCF", "storingCF", "validatingCF", "validatingFI", "done"}
AfterFI == {"persistSRI", "validateSRI"} \cup AfterSRI

\* Before its turn an item has no row of this run ...
Fresh ==
    phase # "down" =>
        \A t \in Tasks :
            /\ stage[t] \in BeforeFI => \A r \in fiTable : r.serial # MySerial(t)
            /\ stage[t] \in BeforeSRI => \A r \in sriTable : r.serial # MySerial(t)

\* ... and the queue is empty until the lookups are over
AtRest ==
    phase \in {"down", "opening", "lookupSRI", "lookupCF"} =>
        \A t \in Tasks : stage[t] = "idle"

Valid(table, serial, p) ==
    \E r \in table : r.validated /\ r.serial = serial /\ r.point = p

Pending(table, serial, p, ok) ==
    \E r \in table : r.serial = serial /\ r.point = p /\ r.ok = ok

Settled(table, serial, p, ok) ==
    \E r \in table : r.validated /\ r.serial = serial /\ r.point = p /\ (ok => r.ok)

FoundIsValid ==
    \A t \in Tasks :
        /\ found[t].fi # NULL => Valid(fiTable, found[t].fi, PointOf[t])
        /\ found[t].sri # NULL => Valid(sriTable, found[t].sri, PointOf[t])

FIProgress ==
    \A t \in Tasks :
        /\ stage[t] = "validateFI" =>
              found[t].fi = NULL /\ Pending(fiTable, MySerial(t), PointOf[t], Outcome(t).fi)
        /\ stage[t] \in AfterFI =>
              Settled(fiTable, FISerial(t), PointOf[t], Outcome(t).fi)

SRIProgress ==
    \A t \in Tasks :
        /\ stage[t] = "validateSRI" =>
              found[t].sri = NULL /\ Pending(sriTable, MySerial(t), PointOf[t], Outcome(t).sri)
        /\ stage[t] \in AfterSRI =>
              Settled(sriTable, SRISerial(t), PointOf[t], Outcome(t).sri)

\* What store() compared, and what the end of the handler decided, stays true
Decided ==
    \A t \in Tasks :
        /\ stage[t] \in {"persistFI", "validateFI", "persistSRI"} => IntegrityHolds(t)
        /\ stage[t] \in {"storingCF", "validatingCF"} => HasCF(t)

Founded(c) ==
    /\ c.fi # NULL \/ c.sri # NULL
    /\ \E p \in Points :
          /\ c.fi # NULL => Settled(fiTable, c.fi, p, c.full)
          /\ c.sri # NULL => Settled(sriTable, c.sri, p, c.slow)
    /\ (c.full => c.fi # NULL) /\ (c.slow => c.sri # NULL)

CompactionsFounded == \A c \in cfTable : Founded(c)

(***************************************************************************)
(* The inductive invariant behind ReferencesHold and ResultsHaveSources.   *)
(***************************************************************************)
PipelineInv ==
    /\ Provenance(fiTable, run) /\ Provenance(sriTable, run)
    /\ Fresh /\ AtRest
    /\ FoundIsValid /\ FIProgress /\ SRIProgress /\ Decided
    /\ CompactionsFounded

(***************************************************************************)
(* What OneValidatedRow needs besides, where grid items are distinct: a    *)
(* point that was looked up in vain has no validated row until its own     *)
(* item validates one.                                                     *)
(***************************************************************************)
Absent ==
    \A t \in Tasks :
        /\ phase \in {"lookupSRI", "lookupCF", "work"} /\ found[t].fi = NULL
             /\ stage[t] \in BeforeFI \cup {"validateFI"} => Matching(fiTable, PointOf[t]) = {}
        /\ phase \in {"lookupCF", "work"} /\ found[t].sri = NULL
             /\ stage[t] \in BeforeSRI \cup {"validateSRI"} => Matching(sriTable, PointOf[t]) = {}

UniqueInv == OneValidatedRow /\ Absent

-----------------------------------------------------------------------------
(***************************************************************************)
(* What a regular end means.  A compaction function is written after both  *)
(* instantons of its point are settled, whether they were solved or not,   *)
(* so that a lookup that misses one of them has no compaction function to  *)
(* find.                                                                   *)
(***************************************************************************)
BothSettled(c) ==
    \E p \in Points :
        /\ Matching(fiTable, p) # {} /\ Matching(sriTable, p) # {}
        /\ c.fi # NULL => Valid(fiTable, c.fi, p)
        /\ c.sri # NULL => Valid(sriTable, c.sri, p)

\* The keys of the compaction function an item stores
CFKeys(t) == [fi |-> IF Outcome(t).fi THEN FISerial(t) ELSE NULL,
              sri |-> IF Outcome(t).sri THEN SRISerial(t) ELSE NULL]

HasKeys(c, k) == c.fi = k.fi /\ c.sri = k.sri

\* The way of an item from its compaction function's insertion to its end
CFProgress ==
    \A t \in Tasks :
        /\ stage[t] = "validatingCF" =>
              \E c \in cfTable : c.serial = MySerial(t) /\ HasKeys(c, CFKeys(t))
        /\ stage[t] = "done" /\ HasCF(t) =>
              \E c \in cfTable : c.validated /\ HasKeys(c, CFKeys(t))
        /\ stage[t] = "validatingFI" => ~HasCF(t)

\* An item that is not in the queue was found complete
IdleIsServed ==
    phase \in {"work", "finished"} =>
        \A t \in Tasks :
            stage[t] = "idle" =>
                /\ found[t].fi # NULL /\ found[t].sri # NULL
                /\ \E c \in cfTable : c.validated /\ HasKeys(c, found[t])

QueueIsEmpty == phase = "finished" => \A t \in Tasks : stage[t] \in {"idle", "done"}

CompletionInv ==
    /\ \A c \in cfTable : BothSettled(c)
    /\ CFProgress /\ IdleIsServed /\ QueueIsEmpty

(***************************************************************************)
(* Why step C, which raises on a second row too, never does: a compaction  *)
(* function with both keys is written only where the lookup found none.    *)
(***************************************************************************)
CFProvenance ==
    \A c \in cfTable :
        /\ c.serial[2] <= run
        /\ \A d \in cfTable : d.serial = c.serial => d = c

CFFresh ==
    phase # "down" =>
        \A t \in Tasks :
            stage[t] \notin {"validatingCF", "done"} =>
                \A c \in cfTable : c.serial # MySerial(t)

OneCompaction ==
    \A c, d \in cfTable :
        /\ c.validated /\ d.validated
        /\ c.fi # NULL /\ c.sri # NULL /\ HasKeys(c, d)
        => c = d

CFAbsent ==
    phase = "work" =>
        \A t \in Tasks :
            stage[t] \notin {"idle", "done"} =>
                MatchingCompaction(cfTable, FISerial(t), SRISerial(t)) = {}

CompactionInv == CFProvenance /\ CFFresh /\ OneCompaction /\ CFAbsent

(***************************************************************************)
(* While the solver gives the same answers: rows say what it says, and     *)
(* after a regular end a solved point has its compaction function.         *)
(***************************************************************************)
RowsAreAnswers ==
    /\ \A r \in fiTable : r.ok = result[r.point].fi
    /\ \A r \in sriTable : r.ok = result[r.point].sri

SolvedIsStored ==
    settled =>
        \A t \in Tasks : Solved(t) =>
            \E c \in cfTable :
                /\ c.validated
                /\ Valid(fiTable, c.fi, PointOf[t]) /\ Valid(sriTable, c.sri, PointOf[t])

SameAnswersInv == RowsAreAnswers /\ NeverRaises /\ SolvedIsStored

=============================================================================
