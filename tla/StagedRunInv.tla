---------------------------- MODULE StagedRunInv ----------------------------
(***************************************************************************)
(* Why StagedRun is right: what the tables and the current queue satisfy   *)
(* between any two steps.                                                  *)
(***************************************************************************)
EXTENDS StagedRun

InstantonKinds == {FI, SRI, GCI}

Refs == Serials \cup {NULL}

ItemRows ==
    [serial : Serials, point : Items, ok : BOOLEAN, scalarsOnly : BOOLEAN, validated : BOOLEAN]

TypeOK ==
    /\ table \in [Kinds -> SUBSET (ItemRows \cup CompactionRows(Serials, Refs))]
    /\ \A k \in InstantonKinds : table[k] \subseteq ItemRows
    /\ table[CF] \subseteq CompactionRows(Serials, Refs)
    /\ run \in 0 .. MaxRuns
    /\ phase \in Phases /\ kind \in Kinds
    /\ phase # "down" => config \in Configs
    /\ result \in Answers
    /\ found \in [Points -> [fi : Refs, sri : Refs]]
    /\ stage \in [Items -> Stages]

-----------------------------------------------------------------------------
(***************************************************************************)
(* Rows.                                                                   *)
(***************************************************************************)
\* A serial tells the item and the run a row comes from, and the row from all others
Provenance ==
    /\ \A k \in Kinds : \A r \in table[k] :
          /\ r.serial[2] <= run
          /\ \A s \in table[k] : s.serial = r.serial => s = r
    /\ \A k \in InstantonKinds : \A r \in table[k] : r.serial[1] = r.point

Valid(k, serial, w) ==
    \E r \in table[k] : r.validated /\ r.serial = serial /\ r.point = w

Stored(k, w) == Matching(table[k], w) # {}

OneRow == \A k \in InstantonKinds, w \in Items : ~Ambiguous(Matching(table[k], w))

(***************************************************************************)
(* A compaction function names what is stored of a point, of which both    *)
(* instantons are stored.  It is whole if it names both of them.           *)
(***************************************************************************)
BelongsTo(c, p) ==
    /\ c.fi # NULL \/ c.sri # NULL
    /\ c.fi # NULL => Valid(FI, c.fi, p)
    /\ c.sri # NULL => Valid(SRI, c.sri, p)
    /\ Stored(FI, p) /\ Stored(SRI, p)

CompactionsBelong == \A c \in table[CF] : \E p \in Points : BelongsTo(c, p)

HasCompaction(p) == \E c \in table[CF] : c.validated /\ BelongsTo(c, p)

Whole(c, p) == c.validated /\ NamesBoth(c) /\ BelongsTo(c, p)

HasWhole(p) == \E c \in table[CF] : Whole(c, p)

OneWhole == \A p \in Points : \A c, d \in table[CF] : Whole(c, p) /\ Whole(d, p) => c = d

-----------------------------------------------------------------------------
(***************************************************************************)
(* The current queue.                                                      *)
(***************************************************************************)
Staged == {"lookup", "populate", "seed", "work"}
Unified == {"pipelineLookup", "pipeline"}
Busy == Staged \cup Unified

\* The kinds whose turn comes after
Later(k) ==
    IF k = FI THEN {SRI, CF, GCI} ELSE IF k = SRI THEN {CF, GCI} ELSE IF k = CF THEN {GCI} ELSE {}

\* Where an item of the unified queue has not stored its object of a kind yet
Before(k) ==
    {"idle", "queued", "computing"}
        \cup (IF k = FI THEN {} ELSE {"validatingFI", "storingSRI"})
        \cup (IF k \in {FI, SRI} THEN {} ELSE {"validatingSRI", "storingCF"})

Pending(k, w) ==
    IF phase \in Unified THEN k # GCI /\ stage[w] \in Before(k)
                         ELSE k = kind /\ stage[w] \notin {"validating", "done"}

\* No row of this run yet where none was stored
Fresh ==
    phase \in Busy =>
        /\ \A k \in Later(kind) : \A r \in table[k] : r.serial[2] # run
        /\ \A k \in Kinds, w \in Items :
              Pending(k, w) => \A r \in table[k] : r.serial # MySerial(w)

\* Only the items of the current kind are in the queue, and only while there is one
AtRest ==
    \A w \in Items : stage[w] # "idle" =>
        /\ phase \in {"populate", "work", "pipeline", "raised"}
        /\ phase # "raised" => w \in ItemsOf(kind)
        /\ phase = "populate" => stage[w] = "queued"

\* A stage is reached when the stages before it have come to their end
Reached ==
    /\ phase \in {"seed", "populate"} => kind = IF phase = "seed" THEN GCI ELSE CF
    /\ phase \in Unified => kind = CF /\ config.scalars
    /\ phase \in Staged /\ kind # GCI => ~config.scalars
    /\ phase \in Staged /\ kind \in {SRI, CF} => \A p \in Points : Stored(FI, p)
    /\ phase \in Staged /\ kind = CF => \A p \in Points : Stored(SRI, p)

\* The row that is to be validated
Inserted(k, w) == \E r \in table[k] : r.serial = MySerial(w) /\ r.point = w

InsertedKeyed(p) ==
    \E c \in table[CF] : c.serial = MySerial(p) /\ c.fi = FIKey(p) /\ c.sri = SRIKey(p)

InstantonQueue ==
    phase = "work" /\ kind # CF =>
        \A w \in ItemsOf(kind) :
            /\ stage[w] \in {"idle", "done"} => Stored(kind, w)
            /\ stage[w] \in {"computing", "validating"} => ~Stored(kind, w)
            /\ stage[w] = "validating" => Inserted(kind, w)

CompactionQueue ==
    phase \in {"populate", "work"} /\ kind = CF =>
        \A p \in Points :
            /\ Valid(FI, found[p].fi, p) /\ Valid(SRI, found[p].sri, p)
            /\ stage[p] \in {"idle", "done"} => HasWhole(p)
            /\ stage[p] \in {"queued", "computing", "validating"} => ~HasWhole(p)
            /\ stage[p] = "validating" => InsertedKeyed(p)

\* An object that was not found is not stored before the item validates its own
UnifiedItem(p) ==
    /\ found[p].fi # NULL => Valid(FI, found[p].fi, p)
    /\ found[p].sri # NULL => Valid(SRI, found[p].sri, p)
    /\ found[p].fi = NULL /\ stage[p] \in {"queued", "computing", "validatingFI"} => ~Stored(FI, p)
    /\ /\ found[p].sri = NULL
       /\ stage[p] \in {"queued", "computing", "validatingFI", "storingSRI", "validatingSRI"}
       => ~Stored(SRI, p)
    /\ stage[p] = "validatingFI" => found[p].fi = NULL /\ Inserted(FI, p)
    /\ stage[p] \in {"storingSRI", "validatingSRI", "storingCF", "validatingCF"} =>
          Valid(FI, FISerial(p), p)
    /\ stage[p] = "validatingSRI" => found[p].sri = NULL /\ Inserted(SRI, p)
    /\ stage[p] \in {"storingCF", "validatingCF"} => Valid(SRI, SRISerial(p), p)
    /\ stage[p] = "validatingCF" => HasCF(p) /\ InsertedKeyed(p)
    /\ stage[p] \notin {"idle", "done"} => ~HasWhole(p)
    /\ stage[p] \in {"idle", "done"} =>
          Stored(FI, p) /\ Stored(SRI, p) /\ (HasCF(p) => HasCompaction(p))

UnifiedQueue == phase = "pipeline" => \A p \in Points : UnifiedItem(p)

-----------------------------------------------------------------------------
(***************************************************************************)
(* What has been brought to an end.                                        *)
(***************************************************************************)
HomogeneousDone ==
    \A p \in Points : Stored(FI, p) /\ Stored(SRI, p) /\ HasWhole(p)

\* A scalar run stores no compaction function of a point that neither solver solves
ScalarsDone ==
    \A p \in Points : Stored(FI, p) /\ Stored(SRI, p) /\ (HasCF(p) => HasCompaction(p))

GradientDone == \A g \in GradientPoints : Stored(GCI, g)

Brought ==
    /\ /\ phase = "finished" \/ (phase # "down" /\ kind = GCI)
       /\ "homogeneous" \in Completed
       => IF config.scalars THEN ScalarsDone ELSE HomogeneousDone
    /\ phase = "finished" /\ "gradient" \in Completed => GradientDone
    /\ "homogeneous" \in settled => HomogeneousDone
    /\ "gradient" \in settled => GradientDone

StagedInv ==
    /\ Provenance /\ OneRow /\ CompactionsBelong /\ OneWhole
    /\ Fresh /\ AtRest /\ Reached /\ InstantonQueue /\ CompactionQueue /\ UnifiedQueue
    /\ Brought /\ RaisesOnScalarRowsOnly

=============================================================================
