-------------------------- MODULE StagedRunProofs --------------------------
(***************************************************************************)
(* Proofs about StagedRun for every set of points and combinations, every  *)
(* set of outcomes and command lines of either mode, and any number of     *)
(* runs and kills.  What holds between two steps is StagedInv of           *)
(* StagedRunInv.                                                           *)
(***************************************************************************)
EXTENDS StagedRunInv, TLAPS

Inv == TypeOK /\ StagedInv

LEMMA KindsDistinct ==
    /\ FI # SRI /\ FI # CF /\ FI # GCI /\ SRI # CF /\ SRI # GCI /\ CF # GCI
    /\ Kinds = {FI, SRI, CF, GCI} /\ InstantonKinds = Kinds \ {CF}
BY DEF FI, SRI, CF, GCI, Kinds, InstantonKinds

LEMMA NullIsNoSerial == NULL \notin Serials
BY StagedAssumption DEF Serials, Items, GradientPoints

-----------------------------------------------------------------------------
(***************************************************************************)
(* The operations of the store.  Two rows of a kind have the same content  *)
(* when all but their flags agree.                                         *)
(***************************************************************************)
Content(k, q, r) ==
    /\ q.serial = r.serial
    /\ IF k = CF THEN q.fi = r.fi /\ q.sri = r.sri ELSE q.point = r.point

RowsOf(k) == IF k = CF THEN CompactionRows(Serials, Refs) ELSE ItemRows

LEMMA TableTyped ==
    ASSUME TypeOK, NEW k \in Kinds
    PROVE  table[k] \subseteq RowsOf(k)
BY KindsDistinct DEF TypeOK, RowsOf

\* validate() changes one flag and nothing else
LEMMA ValidateFacts ==
    ASSUME NEW k \in Kinds, NEW rows \in SUBSET RowsOf(k), NEW x
    PROVE  /\ Validate(rows, x) \subseteq RowsOf(k)
           /\ \A r \in rows : r.validated \/ r.serial # x => r \in Validate(rows, x)
           /\ \A r \in rows : r.serial = x =>
                 \E q \in Validate(rows, x) : Content(k, q, r) /\ q.validated
           /\ \A q \in Validate(rows, x) :
                 \E r \in rows : Content(k, q, r) /\ (r.serial # x => q = r)
<1> DEFINE Image(r) == IF r.serial = x THEN [r EXCEPT !.validated = TRUE] ELSE r
<1>1. ASSUME NEW r \in rows
      PROVE  /\ Image(r) \in RowsOf(k) /\ Content(k, Image(r), r)
             /\ r.serial = x => Image(r).validated
             /\ r.validated \/ r.serial # x => Image(r) = r
  <2>1. CASE k = CF
    BY <2>1 DEF RowsOf, CompactionRows, Content
  <2>2. CASE k # CF
    BY <2>2 DEF RowsOf, ItemRows, Content
  <2> QED BY <2>1, <2>2
<1>2. \A q : q \in Validate(rows, x) <=> \E r \in rows : q = Image(r)
  BY DEF Validate
<1> HIDE DEF Image
<1>3. \A r \in rows : r.serial # x => Image(r) = r
  BY DEF Image
<1> QED BY <1>1, <1>2, <1>3

\* Serials still tell rows apart
LEMMA ValidateOneSerial ==
    ASSUME NEW k \in Kinds, NEW rows \in SUBSET RowsOf(k), NEW x,
           \A r, s \in rows : s.serial = r.serial => s = r
    PROVE  \A p, q \in Validate(rows, x) : p.serial = q.serial => p = q
<1> SUFFICES ASSUME NEW p \in Validate(rows, x), NEW q \in Validate(rows, x), p.serial = q.serial
             PROVE  p = q
  OBVIOUS
<1> DEFINE Image(r) == IF r.serial = x THEN [r EXCEPT !.validated = TRUE] ELSE r
<1>1. \A r \in rows : Image(r).serial = r.serial
  BY DEF RowsOf, CompactionRows, ItemRows
<1>2. PICK r \in rows : p = Image(r)
  BY DEF Validate
<1>3. PICK s \in rows : q = Image(s)
  BY DEF Validate
<1> HIDE DEF Image
<1> QED BY <1>1, <1>2, <1>3

\* The row that one_or_none returns
LEMMA TheRow ==
    ASSUME NEW rows, ~Ambiguous(rows), NEW r \in rows
    PROVE  SerialIn(rows) = r.serial
<1>1. (CHOOSE s \in rows : TRUE) \in rows
  OBVIOUS
<1>2. (CHOOSE s \in rows : TRUE) = r
  BY <1>1 DEF Ambiguous
<1> QED BY <1>2 DEF SerialIn

-----------------------------------------------------------------------------
(***************************************************************************)
(* Types.                                                                  *)
(***************************************************************************)
LEMMA OutcomeIsTyped ==
    ASSUME TypeOK, NEW p \in Points
    PROVE  result[p] \in OutcomeType
BY StagedAssumption DEF TypeOK

LEMMA MySerialType ==
    ASSUME TypeOK, NEW w \in Items
    PROVE  MySerial(w) \in Serials
BY DEF TypeOK, MySerial, Serials

LEMMA ItemsFacts ==
    /\ \A k \in Kinds : ItemsOf(k) \subseteq Items
    /\ ItemsOf(FI) = Points /\ ItemsOf(SRI) = Points /\ ItemsOf(CF) = Points
    /\ ItemsOf(GCI) = GradientPoints
BY KindsDistinct DEF ItemsOf, Items

\* An item that is not idle while the queue is worked off is of the current kind
LEMMA InQueue ==
    ASSUME Inv, NEW w \in Items, phase \in {"work", "pipeline"}, stage[w] # "idle"
    PROVE  w \in ItemsOf(kind) /\ (phase = "pipeline" => w \in Points /\ kind = CF)
<1>1. w \in ItemsOf(kind)
  BY DEF Inv, StagedInv, AtRest
<1>2. phase = "pipeline" => kind = CF
  BY DEF Inv, StagedInv, Reached, Unified
<1> QED BY <1>1, <1>2, ItemsFacts

LEMMA NewRowFacts ==
    ASSUME Inv, phase # "down", NEW k \in Kinds, NEW w \in ItemsOf(k)
    PROVE  /\ NewRow(k, w) \in RowsOf(k) /\ ~NewRow(k, w).validated
           /\ NewRow(k, w).serial = MySerial(w)
           /\ IF k = CF THEN NewRow(k, w).fi = FIKey(w) /\ NewRow(k, w).sri = SRIKey(w)
                        ELSE NewRow(k, w).point = w
<1>0. TypeOK /\ w \in Items /\ config.scalars \in BOOLEAN
  BY ItemsFacts, StagedAssumption DEF Inv, TypeOK, ConfigType
<1>1. MySerial(w) \in Serials
  BY <1>0, MySerialType
<1>2. ASSUME k # GCI PROVE w \in Points /\ result[w] \in OutcomeType
  BY <1>0, <1>2, OutcomeIsTyped DEF ItemsOf
<1>3. CASE k = FI
  BY <1>0, <1>1, <1>2, <1>3, KindsDistinct
     DEF NewRow, InstantonRow, RowsOf, ItemRows, OutcomeType
<1>4. CASE k = SRI
  BY <1>0, <1>1, <1>2, <1>4, KindsDistinct
     DEF NewRow, InstantonRow, RowsOf, ItemRows, OutcomeType
<1>5. CASE k = CF
  <2>1. found[w].fi \in Refs /\ found[w].sri \in Refs /\ MySerial(w) \in Refs /\ NULL \in Refs
    BY <1>0, <1>1, <1>2, <1>5, KindsDistinct DEF TypeOK, Refs
  <2>2. FIKey(w) \in Refs /\ SRIKey(w) \in Refs
    BY <2>1 DEF FIKey, SRIKey, FISerial, SRISerial
  <2>3. result[w].full \in BOOLEAN /\ result[w].slow \in BOOLEAN
    BY <1>2, <1>5, KindsDistinct DEF OutcomeType
  <2>4. NewRow(k, w) = CompactionRow(MySerial(w), FIKey(w), SRIKey(w),
                                     result[w].full, result[w].slow, config.scalars)
    BY <1>5, KindsDistinct DEF NewRow
  <2> QED BY <1>0, <1>1, <1>5, <2>2, <2>3, <2>4 DEF CompactionRow, RowsOf, CompactionRows
<1>6. CASE k = GCI
  <2>1. w[1] \in Points
    BY <1>6 DEF ItemsOf, GradientPoints
  <2>2. result[w[1]] \in OutcomeType
    BY <1>0, <2>1, OutcomeIsTyped
  <2> QED BY <1>0, <1>1, <1>6, <2>2, KindsDistinct
             DEF NewRow, InstantonRow, RowsOf, ItemRows, OutcomeType
<1> QED BY <1>3, <1>4, <1>5, <1>6, KindsDistinct

-----------------------------------------------------------------------------
(***************************************************************************)
(* What a step does to the tables: it adds a row, validates one, prunes    *)
(* every table or leaves them alone.                                       *)
(***************************************************************************)
\* Where an item is when it stores, and validates, its object of a kind
Storing(k, w) ==
    \/ phase = "work" /\ k = kind /\ stage[w] = "computing" /\ stage'[w] = "validating"
    \/ /\ phase = "pipeline"
       /\ \/ /\ k = FI /\ found[w].fi = NULL
             /\ stage[w] = "computing" /\ stage'[w] = "validatingFI"
          \/ /\ k = SRI /\ found[w].sri = NULL
             /\ stage[w] = "storingSRI" /\ stage'[w] = "validatingSRI"
          \/ /\ k = CF /\ HasCF(w)
             /\ stage[w] = "storingCF" /\ stage'[w] = "validatingCF"

Validating(k, w) ==
    \/ phase = "work" /\ k = kind /\ stage[w] = "validating" /\ stage'[w] = "done"
    \/ /\ phase = "pipeline"
       /\ \/ k = FI /\ stage[w] = "validatingFI" /\ stage'[w] = "storingSRI"
          \/ k = SRI /\ stage[w] = "validatingSRI" /\ stage'[w] = "storingCF"
          \/ k = CF /\ stage[w] = "validatingCF" /\ stage'[w] = "done"

Adds(k, w) == /\ Step(w) /\ w \in ItemsOf(k) /\ Storing(k, w)
              /\ table' = [table EXCEPT ![k] = @ \cup {NewRow(k, w)}]
Validates(k, w) == /\ Step(w) /\ w \in ItemsOf(k) /\ Validating(k, w)
                   /\ table' = [table EXCEPT ![k] = Validate(@, MySerial(w))]
Prunes == Open /\ table' = [k \in Kinds |-> Prune(table[k])]

\* While an item steps, the rest stands still
LEMMA StepFacts ==
    ASSUME Inv, NEW w \in Items, Step(w)
    PROVE  /\ phase \in {"work", "pipeline"} /\ w \in ItemsOf(kind)
           /\ phase = "pipeline" => w \in Points /\ kind = CF
           /\ UNCHANGED <<run, config, phase, kind, result, found, settled>>
           /\ stage' \in [Items -> Stages]
           /\ \A v \in Items : v # w => stage'[v] = stage[v]
<1>0. stage \in [Items -> Stages]
  BY DEF Inv, TypeOK
<1>1. CASE Dispatch(w)
  BY <1>0, <1>1, InQueue DEF Dispatch, Move, Stages
<1>2. CASE Store(w)
  BY <1>0, <1>2, InQueue DEF Store, Move, Stages
<1>3. CASE ValidateRow(w)
  BY <1>0, <1>3, InQueue DEF ValidateRow, Move, Stages
<1>4. CASE Pipeline(w)
  <2>1. /\ phase = "pipeline" /\ UNCHANGED <<run, config, phase, kind, result, found, settled>>
        /\ \/ StartItem(w) \/ PersistFI(w) \/ ValidateFI(w) \/ PersistSRI(w) \/ ValidateSRI(w)
           \/ PersistCF(w) \/ ValidateCF(w)
    BY <1>4 DEF Pipeline
  <2>2. stage[w] # "idle" /\ \E s \in Stages : stage' = [stage EXCEPT ![w] = s]
    BY <2>1 DEF StartItem, PersistFI, ValidateFI, PersistSRI, ValidateSRI, PersistCF, ValidateCF,
                Move, Stages, PipelineStages, HandlerStages
  <2> QED BY <1>0, <2>1, <2>2, InQueue
<1> QED BY <1>1, <1>2, <1>3, <1>4 DEF Step

\* The item goes on without a change of the tables
Passes(w) ==
    \/ /\ phase = "work" /\ stage[w] = "queued"
       /\ stage'[w] = IF Existing(w) = {} THEN "computing" ELSE "done"
    \/ /\ phase = "pipeline"
       /\ \/ stage[w] = "queued" /\ stage'[w] = "computing"
          \/ stage[w] = "computing" /\ found[w].fi # NULL /\ stage'[w] = "storingSRI"
          \/ stage[w] = "storingSRI" /\ found[w].sri # NULL /\ stage'[w] = "storingCF"
          \/ stage[w] = "storingCF" /\ ~HasCF(w) /\ stage'[w] = "done"

LEMMA OwnStep ==
    ASSUME Inv, NEW w \in Items, Step(w)
    PROVE  \/ table' = table /\ Passes(w)
           \/ \E k \in Kinds : Adds(k, w) \/ Validates(k, w)
<1>0. /\ stage \in [Items -> Stages] /\ w \in ItemsOf(kind) /\ kind \in Kinds
      /\ phase = "pipeline" => w \in Points
      /\ FI \in Kinds /\ SRI \in Kinds /\ CF \in Kinds
      /\ w \in Points => w \in ItemsOf(FI) /\ w \in ItemsOf(SRI) /\ w \in ItemsOf(CF)
  BY StepFacts, KindsDistinct, ItemsFacts DEF Inv, TypeOK
<1>1. CASE Dispatch(w)
  BY <1>0, <1>1 DEF Dispatch, Move, Passes
<1>2. CASE Store(w)
  <2>1. Storing(kind, w) /\ table' = [table EXCEPT ![kind] = @ \cup {NewRow(kind, w)}]
    BY <1>0, <1>2 DEF Store, Insert, Move, Storing
  <2> QED BY <1>0, <2>1 DEF Adds
<1>3. CASE ValidateRow(w)
  <2>1. Validating(kind, w) /\ table' = [table EXCEPT ![kind] = Validate(@, MySerial(w))]
    BY <1>0, <1>3 DEF ValidateRow, SetValid, Move, Validating
  <2> QED BY <1>0, <2>1 DEF Validates
<1>4. CASE Pipeline(w)
  <2>0. phase = "pipeline" /\ w \in ItemsOf(FI) /\ w \in ItemsOf(SRI) /\ w \in ItemsOf(CF)
    BY <1>0, <1>4 DEF Pipeline
  <2>1. CASE StartItem(w)
    BY <1>0, <2>0, <2>1 DEF StartItem, Move, Passes
  <2>2. CASE PersistFI(w)
    <3>1. CASE found[w].fi # NULL
      BY <1>0, <2>0, <2>2, <3>1 DEF PersistFI, Move, Passes
    <3>2. CASE found[w].fi = NULL
      <4>1. Storing(FI, w) /\ table' = [table EXCEPT ![FI] = @ \cup {NewRow(FI, w)}]
        BY <1>0, <2>0, <2>2, <3>2 DEF PersistFI, Insert, Move, Storing
      <4> QED BY <1>0, <2>0, <4>1 DEF Adds
    <3> QED BY <3>1, <3>2
  <2>3. CASE ValidateFI(w)
    <3>1. Validating(FI, w) /\ table' = [table EXCEPT ![FI] = Validate(@, MySerial(w))]
      BY <1>0, <2>0, <2>3 DEF ValidateFI, SetValid, Move, Validating
    <3> QED BY <1>0, <2>0, <3>1 DEF Validates
  <2>4. CASE PersistSRI(w)
    <3>1. CASE found[w].sri # NULL
      BY <1>0, <2>0, <2>4, <3>1 DEF PersistSRI, Move, Passes
    <3>2. CASE found[w].sri = NULL
      <4>1. Storing(SRI, w) /\ table' = [table EXCEPT ![SRI] = @ \cup {NewRow(SRI, w)}]
        BY <1>0, <2>0, <2>4, <3>2 DEF PersistSRI, Insert, Move, Storing
      <4> QED BY <1>0, <2>0, <4>1 DEF Adds
    <3> QED BY <3>1, <3>2
  <2>5. CASE ValidateSRI(w)
    <3>1. Validating(SRI, w) /\ table' = [table EXCEPT ![SRI] = Validate(@, MySerial(w))]
      BY <1>0, <2>0, <2>5 DEF ValidateSRI, SetValid, Move, Validating
    <3> QED BY <1>0, <2>0, <3>1 DEF Validates
  <2>6. CASE PersistCF(w)
    <3>1. CASE ~HasCF(w)
      BY <1>0, <2>0, <2>6, <3>1 DEF PersistCF, Move, Passes
    <3>2. CASE HasCF(w)
      <4>1. Storing(CF, w) /\ table' = [table EXCEPT ![CF] = @ \cup {NewRow(CF, w)}]
        BY <1>0, <2>0, <2>6, <3>2 DEF PersistCF, Insert, Move, Storing
      <4> QED BY <1>0, <2>0, <4>1 DEF Adds
    <3> QED BY <3>1, <3>2
  <2>7. CASE ValidateCF(w)
    <3>1. Validating(CF, w) /\ table' = [table EXCEPT ![CF] = Validate(@, MySerial(w))]
      BY <1>0, <2>0, <2>7 DEF ValidateCF, SetValid, Move, Validating
    <3> QED BY <1>0, <2>0, <3>1 DEF Validates
  <2> QED BY <1>4, <2>1, <2>2, <2>3, <2>4, <2>5, <2>6, <2>7 DEF Pipeline
<1> QED BY <1>1, <1>2, <1>3, <1>4 DEF Step

LEMMA TableChange ==
    ASSUME Inv, [Next]_vars
    PROVE  \/ table' = table
           \/ Prunes
           \/ \E k \in Kinds, w \in Items : Adds(k, w) \/ Validates(k, w)
<1>1. CASE Open
  BY <1>1 DEF Open, Prunes
<1>2. CASE LookupInstantons \/ LookupCompactions \/ LookupPipeline \/ Populate \/ FetchSeeds
           \/ QueueDone
  BY <1>2 DEF LookupInstantons, LookupCompactions, LookupPipeline, Populate, FetchSeeds, QueueDone
<1>3. CASE Exit \/ Kill
  BY <1>3 DEF Exit, Kill, Gone
<1>4. CASE UNCHANGED vars
  BY <1>4 DEF vars
<1>5. ASSUME NEW w \in Items, Step(w)
      PROVE  table' = table \/ \E k \in Kinds : Adds(k, w) \/ Validates(k, w)
  BY <1>5, OwnStep
<1> QED BY <1>1, <1>2, <1>3, <1>4, <1>5 DEF Next, Driver

\* The tables of a step at the queue
LEMMA QueueTables ==
    ASSUME Inv, NEW k \in Kinds, NEW w \in Items, Adds(k, w) \/ Validates(k, w)
    PROVE  /\ phase \in {"work", "pipeline"} /\ w \in ItemsOf(k)
           /\ phase = "work" => k = kind
           /\ phase = "pipeline" => k # GCI
           /\ UNCHANGED <<run, config, phase, kind, result, found>>
           /\ \A l \in Kinds : l # k => table'[l] = table[l]
           /\ Adds(k, w) => Storing(k, w) /\ table'[k] = table[k] \cup {NewRow(k, w)}
           /\ Validates(k, w) => Validating(k, w) /\ table'[k] = Validate(table[k], MySerial(w))
<1>0. DOMAIN table = Kinds /\ Step(w) /\ w \in ItemsOf(k)
  BY DEF Inv, TypeOK, Adds, Validates
<1>1. /\ phase \in {"work", "pipeline"} /\ (phase = "pipeline" => kind = CF)
      /\ UNCHANGED <<run, config, phase, kind, result, found>>
  BY <1>0, StepFacts
<1>2. phase = "work" => k = kind
  BY DEF Adds, Validates, Storing, Validating
<1>3. phase = "pipeline" => k # GCI
  BY KindsDistinct DEF Adds, Validates, Storing, Validating
<1>4. Adds(k, w) => Storing(k, w) /\ table' = [table EXCEPT ![k] = @ \cup {NewRow(k, w)}]
  BY DEF Adds
<1>5. Validates(k, w) =>
         Validating(k, w) /\ table' = [table EXCEPT ![k] = Validate(@, MySerial(w))]
  BY DEF Validates
<1> QED BY <1>0, <1>1, <1>2, <1>3, <1>4, <1>5

\* Validated rows stay, rows come from rows, or from the queue
LEMMA RowsKept ==
    ASSUME Inv, [Next]_vars, NEW k \in Kinds
    PROVE  \A r \in table[k] : r.validated => r \in table'[k]
<1>0. table[k] \subseteq RowsOf(k)
  BY TableTyped DEF Inv
<1>1. ASSUME NEW l \in Kinds, NEW w \in Items, Adds(l, w) \/ Validates(l, w)
      PROVE  \A r \in table[k] : r.validated => r \in table'[k]
  <2>1. CASE k # l
    BY <1>1, <2>1, QueueTables
  <2>2. CASE k = l
    BY <1>0, <1>1, <2>2, QueueTables, ValidateFacts
  <2> QED BY <2>1, <2>2
<1>2. CASE Prunes
  BY <1>2 DEF Prunes, Prune
<1> QED BY <1>1, <1>2, TableChange

LEMMA RowsCome ==
    ASSUME Inv, [Next]_vars, NEW k \in Kinds
    PROVE  \A q \in table'[k] :
              \/ q \in table[k]
              \/ \E w \in Items : Adds(k, w) /\ q = NewRow(k, w)
              \/ \E w \in Items : /\ Validates(k, w)
                                  /\ \E r \in table[k] : /\ Content(k, q, r)
                                                         /\ r.serial = MySerial(w)
<1>0. table[k] \subseteq RowsOf(k)
  BY TableTyped DEF Inv
<1>1. ASSUME NEW l \in Kinds, NEW w \in Items, Adds(l, w), NEW q \in table'[k]
      PROVE  q \in table[k] \/ (k = l /\ q = NewRow(k, w))
  BY <1>1, QueueTables
<1>2. ASSUME NEW l \in Kinds, NEW w \in Items, Validates(l, w), NEW q \in table'[k]
      PROVE  \/ q \in table[k]
             \/ k = l /\ \E r \in table[k] : Content(k, q, r) /\ r.serial = MySerial(w)
  <2>1. CASE k # l
    BY <1>2, <2>1, QueueTables
  <2>2. CASE k = l
    BY <1>0, <1>2, <2>2, QueueTables, ValidateFacts
  <2> QED BY <2>1, <2>2
<1>3. CASE Prunes
  BY <1>3 DEF Prunes, Prune
<1> QED BY <1>1, <1>2, <1>3, TableChange

LEMMA TablesTyped ==
    ASSUME Inv, [Next]_vars
    PROVE  /\ table' \in [Kinds -> SUBSET (ItemRows \cup CompactionRows(Serials, Refs))]
           /\ \A k \in InstantonKinds : table'[k] \subseteq ItemRows
           /\ table'[CF] \subseteq CompactionRows(Serials, Refs)
<1>1. DOMAIN table' = Kinds /\ table' = [k \in Kinds |-> table'[k]]
  <2>1. table = [k \in Kinds |-> table[k]]
    BY DEF Inv, TypeOK
  <2> QED BY <2>1, TableChange DEF Adds, Validates, Prunes
<1>2. ASSUME NEW k \in Kinds PROVE table'[k] \subseteq RowsOf(k)
  <2>0. table[k] \subseteq RowsOf(k)
    BY TableTyped DEF Inv
  <2>1. ASSUME NEW l \in Kinds, NEW w \in Items, Adds(l, w) PROVE table'[k] \subseteq RowsOf(k)
    <3>1. NewRow(l, w) \in RowsOf(l)
      BY <2>1, QueueTables, NewRowFacts
    <3> QED BY <2>0, <2>1, <3>1, QueueTables
  <2>2. ASSUME NEW l \in Kinds, NEW w \in Items, Validates(l, w)
        PROVE  table'[k] \subseteq RowsOf(k)
    <3>1. CASE k # l
      BY <2>0, <2>2, <3>1, QueueTables
    <3>2. CASE k = l
      BY <2>0, <2>2, <3>2, QueueTables, ValidateFacts
    <3> QED BY <3>1, <3>2
  <2>3. CASE Prunes
    BY <2>0, <2>3 DEF Prunes, Prune
  <2> QED BY <2>0, <2>1, <2>2, <2>3, TableChange
<1>3. \A k \in InstantonKinds : k \in Kinds /\ RowsOf(k) = ItemRows
  BY KindsDistinct DEF RowsOf
<1>4. CF \in Kinds /\ RowsOf(CF) = CompactionRows(Serials, Refs)
  BY KindsDistinct DEF RowsOf
<1>5. \A k \in Kinds : RowsOf(k) \subseteq ItemRows \cup CompactionRows(Serials, Refs)
  BY DEF RowsOf
<1> QED BY <1>1, <1>2, <1>3, <1>4, <1>5

-----------------------------------------------------------------------------
(***************************************************************************)
(* Where a row comes from.                                                 *)
(***************************************************************************)
LEMMA RunGrows ==
    ASSUME Inv, [Next]_vars
    PROVE  run \in Nat /\ run' \in 0 .. MaxRuns /\ (run' = run \/ (Open /\ run' = run + 1))
<1>1. run \in 0 .. MaxRuns /\ MaxRuns \in Nat
  BY StagedAssumption DEF Inv, TypeOK
<1>2. CASE Open
  BY <1>1, <1>2 DEF Open
<1>3. CASE LookupInstantons \/ LookupCompactions \/ LookupPipeline \/ Populate \/ FetchSeeds
           \/ QueueDone
  BY <1>1, <1>3
     DEF LookupInstantons, LookupCompactions, LookupPipeline, Populate, FetchSeeds, QueueDone
<1>4. CASE Exit \/ Kill
  BY <1>1, <1>4 DEF Exit, Kill, Gone
<1>5. CASE UNCHANGED vars
  BY <1>1, <1>5 DEF vars
<1>6. ASSUME NEW w \in Items, Step(w) PROVE run' = run
  BY <1>6, StepFacts
<1> QED BY <1>1, <1>2, <1>3, <1>4, <1>5, <1>6 DEF Next, Driver

\* A serial counts runs
LEMMA SerialFacts ==
    ASSUME TypeOK, NEW k \in Kinds, NEW r \in table[k]
    PROVE  r.serial \in Serials /\ r.serial[2] \in Nat /\ r.serial # NULL
<1>1. r.serial \in Serials
  BY TableTyped DEF RowsOf, ItemRows, CompactionRows
<1> QED BY <1>1, StagedAssumption, NullIsNoSerial DEF Serials

\* Where an item has not stored its row yet, no row has its serial
LEMMA FreshSerial ==
    ASSUME Inv, NEW k \in Kinds, NEW w \in Items, Adds(k, w)
    PROVE  \A r \in table[k] : r.serial # MySerial(w)
<1>1. phase \in Busy
  BY QueueTables DEF Busy, Staged, Unified
<1>2. Pending(k, w)
  <2>1. CASE phase = "work"
    BY <2>1 DEF Adds, Storing, Pending, Unified
  <2>2. CASE phase = "pipeline"
    BY <2>2, QueueTables, KindsDistinct DEF Adds, Storing, Pending, Unified, Before
  <2> QED BY <2>1, <2>2, QueueTables
<1> QED BY <1>1, <1>2 DEF Inv, StagedInv, Fresh

LEMMA ProvenanceKept ==
    ASSUME Inv, [Next]_vars
    PROVE  Provenance'
<1>0. Provenance /\ TypeOK
  BY DEF Inv, StagedInv
<1>1. ASSUME NEW k \in Kinds, NEW q \in table'[k]
      PROVE  /\ q.serial[2] <= run'
             /\ k \in InstantonKinds => q.serial[1] = q.point
  <2>0. k \in InstantonKinds => k # CF
    BY KindsDistinct
  <2>1. ASSUME NEW r \in table[k], Content(k, q, r)
        PROVE  /\ q.serial[2] <= run'
               /\ k \in InstantonKinds => q.serial[1] = q.point
    <3>1. r.serial[2] <= run /\ r.serial[2] \in Nat /\ q.serial = r.serial
      BY <1>0, <2>1, SerialFacts DEF Provenance, Content
    <3>2. q.serial[2] <= run'
      BY <3>1, RunGrows
    <3>3. k \in InstantonKinds => q.point = r.point /\ r.serial[1] = r.point
      BY <1>0, <2>0, <2>1 DEF Provenance, Content
    <3> QED BY <3>1, <3>2, <3>3
  <2>2. ASSUME NEW w \in Items, Adds(k, w), q = NewRow(k, w)
        PROVE  /\ q.serial[2] <= run'
               /\ k \in InstantonKinds => q.serial[1] = q.point
    <3>1. q.serial = <<w, run>> /\ (k # CF => q.point = w)
      BY <2>2, NewRowFacts, QueueTables DEF MySerial
    <3>2. run' = run /\ run \in Nat
      BY <2>2, QueueTables, RunGrows
    <3> QED BY <2>0, <3>1, <3>2
  <2>3. \A r \in table[k] : Content(k, r, r)
    BY DEF Content
  <2> QED BY <2>1, <2>2, <2>3, RowsCome
<1>2. ASSUME NEW k \in Kinds PROVE \A r, s \in table'[k] : s.serial = r.serial => s = r
  <2>0. /\ \A r, s \in table[k] : s.serial = r.serial => s = r
        /\ table[k] \in SUBSET RowsOf(k)
    BY <1>0, TableTyped DEF Provenance
  <2>1. CASE Prunes
    BY <2>0, <2>1 DEF Prunes, Prune
  <2>2. ASSUME NEW w \in Items, Adds(k, w)
        PROVE  \A r, s \in table'[k] : s.serial = r.serial => s = r
    <3>1. table'[k] = table[k] \cup {NewRow(k, w)} /\ NewRow(k, w).serial = MySerial(w)
      BY <2>2, QueueTables, NewRowFacts
    <3>2. \A r \in table[k] : r.serial # MySerial(w)
      BY <2>2, FreshSerial
    <3> QED BY <2>0, <3>1, <3>2
  <2>3. ASSUME NEW w \in Items, Validates(k, w)
        PROVE  \A r, s \in table'[k] : s.serial = r.serial => s = r
    <3>1. table'[k] = Validate(table[k], MySerial(w))
      BY <2>3, QueueTables
    <3> QED BY <2>0, <3>1, ValidateOneSerial
  <2>4. ASSUME NEW l \in Kinds, NEW w \in Items, Adds(l, w) \/ Validates(l, w), k # l
        PROVE  table'[k] = table[k]
    BY <2>4, QueueTables
  <2> QED BY <2>0, <2>1, <2>2, <2>3, <2>4, TableChange
<1>3. InstantonKinds \subseteq Kinds
  BY KindsDistinct
<1> QED BY <1>1, <1>2, <1>3 DEF Provenance

\* A serial is valid for one point only
LEMMA OnePoint ==
    ASSUME Provenance, NEW k \in InstantonKinds, NEW x, NEW v, NEW w, Valid(k, x, v), Valid(k, x, w)
    PROVE  v = w
BY KindsDistinct DEF Provenance, Valid

LEMMA ValidFacts ==
    ASSUME TypeOK, NEW k \in Kinds, NEW x, NEW w, Valid(k, x, w)
    PROVE  x # NULL /\ Stored(k, w)
BY SerialFacts DEF Valid, Stored, Matching

-----------------------------------------------------------------------------
(***************************************************************************)
(* What is settled stays settled.                                          *)
(***************************************************************************)
LEMMA SettledStays ==
    ASSUME Inv, [Next]_vars
    PROVE  /\ \A k \in Kinds : \A w : Stored(k, w) => Stored(k, w)'
           /\ \A k \in Kinds : \A x, w : Valid(k, x, w) => Valid(k, x, w)'
<1>1. \A k \in Kinds : \A r \in table[k] : r.validated => r \in table'[k]
  BY RowsKept
<1>2. \A k \in Kinds : \A w : Matching(table[k], w) \subseteq Matching(table'[k], w)
  BY <1>1 DEF Matching
<1>3. \A k \in Kinds : \A w : Stored(k, w) => Stored(k, w)'
  BY <1>2 DEF Stored
<1>4. \A k \in Kinds : \A x, w : Valid(k, x, w) => Valid(k, x, w)'
  BY <1>1 DEF Valid
<1> QED BY <1>3, <1>4

LEMMA BelongsStays ==
    ASSUME Inv, [Next]_vars, NEW c, NEW p, BelongsTo(c, p)
    PROVE  BelongsTo(c, p)'
<1>1. FI \in Kinds /\ SRI \in Kinds
  BY KindsDistinct
<1> QED BY <1>1, SettledStays DEF BelongsTo

LEMMA HasStays ==
    ASSUME Inv, [Next]_vars, NEW p
    PROVE  /\ HasCompaction(p) => HasCompaction(p)'
           /\ HasWhole(p) => HasWhole(p)'
<1>1. ASSUME NEW c \in table[CF], c.validated, BelongsTo(c, p)
      PROVE  c \in table'[CF] /\ BelongsTo(c, p)'
  BY <1>1, BelongsStays, RowsKept, KindsDistinct
<1>2. HasCompaction(p) => HasCompaction(p)'
  BY <1>1 DEF HasCompaction
<1>3. HasWhole(p) => HasWhole(p)'
  BY <1>1 DEF HasWhole, Whole
<1> QED BY <1>2, <1>3

LEMMA DoneStays ==
    ASSUME Inv, [Next]_vars, result' = result
    PROVE  /\ HomogeneousDone => HomogeneousDone'
           /\ ScalarsDone => ScalarsDone'
           /\ GradientDone => GradientDone'
<1>1. FI \in Kinds /\ SRI \in Kinds /\ GCI \in Kinds
  BY KindsDistinct
<1>2. HomogeneousDone => HomogeneousDone'
  BY <1>1, SettledStays, HasStays DEF HomogeneousDone
<1>3. \A p : HasCF(p)' <=> HasCF(p)
  BY DEF HasCF
<1>4. ScalarsDone => ScalarsDone'
  BY <1>1, <1>3, SettledStays, HasStays DEF ScalarsDone
<1>5. GradientDone => GradientDone'
  BY <1>1, SettledStays DEF GradientDone
<1> QED BY <1>2, <1>4, <1>5

\* A compaction function belongs to one point, and keeps to it
LEMMA OneOwner ==
    ASSUME Provenance, NEW c, NEW p, NEW q, BelongsTo(c, p), BelongsTo(c, q)
    PROVE  p = q
<1>1. FI \in InstantonKinds /\ SRI \in InstantonKinds
  BY KindsDistinct
<1> QED BY <1>1, OnePoint DEF BelongsTo

LEMMA OneOwnerNext ==
    ASSUME Provenance', NEW c, NEW p, NEW q, BelongsTo(c, p)', BelongsTo(c, q)'
    PROVE  p = q
BY DEF Provenance, BelongsTo, Valid, InstantonKinds, Kinds

LEMMA BelongsAsBefore ==
    ASSUME Inv, [Next]_vars, NEW c \in table[CF], NEW p, BelongsTo(c, p)'
    PROVE  BelongsTo(c, p)
<1>1. PICK q \in Points : BelongsTo(c, q)
  BY DEF Inv, StagedInv, CompactionsBelong
<1>2. BelongsTo(c, q)' /\ Provenance'
  BY <1>1, BelongsStays, ProvenanceKept
<1>3. p = q
  BY <1>2, OneOwnerNext
<1> QED BY <1>1, <1>3

-----------------------------------------------------------------------------
(***************************************************************************)
(* A validation at the queue.                                              *)
(***************************************************************************)
\* The item validates what it has stored, of what nothing was valid
LEMMA ToValidate ==
    ASSUME Inv, NEW k \in Kinds, NEW w \in Items, Validates(k, w)
    PROVE  /\ k # CF => Inserted(k, w) /\ ~Stored(k, w)
           /\ k = CF => w \in Points /\ InsertedKeyed(w) /\ ~HasWhole(w)
<1>0. w \in ItemsOf(k) /\ Validating(k, w) /\ phase \in {"work", "pipeline"}
  BY QueueTables
<1>1. CASE phase = "work" /\ k # CF
  BY <1>0, <1>1 DEF Validating, Inv, StagedInv, InstantonQueue
<1>2. CASE phase = "work" /\ k = CF
  BY <1>0, <1>2, ItemsFacts DEF Validating, Inv, StagedInv, CompactionQueue
<1>3. CASE phase = "pipeline"
  <2>1. w \in Points
    BY <1>0, <1>3, ItemsFacts DEF Validating
  <2>2. UnifiedItem(w)
    BY <1>3, <2>1 DEF Inv, StagedInv, UnifiedQueue
  <2> QED BY <1>0, <1>3, <2>1, <2>2, KindsDistinct DEF Validating, UnifiedItem
<1> QED BY <1>0, <1>1, <1>2, <1>3

\* A row that has turned valid is the item's own
LEMMA ValidatedNow ==
    ASSUME Inv, [Next]_vars, NEW k \in Kinds, NEW q \in table'[k], q.validated, q \notin table[k]
    PROVE  \E w \in Items : /\ Validates(k, w) /\ q.serial = MySerial(w)
                            /\ \E r \in table[k] : Content(k, q, r)
<1>1. ASSUME NEW w \in Items, Adds(k, w) PROVE q # NewRow(k, w)
  BY <1>1, NewRowFacts, QueueTables
<1>2. PICK w \in Items : /\ Validates(k, w)
                         /\ \E r \in table[k] : Content(k, q, r) /\ r.serial = MySerial(w)
  BY <1>1, RowsCome
<1> QED BY <1>2 DEF Content

\* What an instanton's validation brings is about its own point
LEMMA StoredNow ==
    ASSUME Inv, [Next]_vars, NEW k \in InstantonKinds, NEW v,
           NEW q \in Matching(table'[k], v)
    PROVE  q \in Matching(table[k], v) \/ (v \in Items /\ Validates(k, v) /\ q.serial = MySerial(v))
<1>0. k \in Kinds
  BY KindsDistinct
<1>1. q \in table'[k] /\ q.validated /\ q.point = v /\ q.serial[1] = v
  BY ProvenanceKept DEF Matching, Provenance
<1>2. CASE q \in table[k]
  BY <1>1, <1>2 DEF Matching
<1>3. CASE q \notin table[k]
  <2>1. PICK w \in Items : Validates(k, w) /\ q.serial = MySerial(w)
    BY <1>0, <1>1, <1>3, ValidatedNow
  <2>2. w = v
    BY <1>1, <2>1 DEF MySerial
  <2> QED BY <2>1, <2>2
<1> QED BY <1>2, <1>3

LEMMA OneRowKept ==
    ASSUME Inv, [Next]_vars
    PROVE  OneRow'
<1> SUFFICES ASSUME NEW k \in InstantonKinds, NEW v \in Items,
                    NEW q \in Matching(table'[k], v), NEW r \in Matching(table'[k], v)
             PROVE  q = r
  BY DEF OneRow, Ambiguous
<1>0. /\ \A s, t \in Matching(table[k], v) : s = t
      /\ k \in Kinds /\ k # CF
  BY KindsDistinct DEF Inv, StagedInv, OneRow, Ambiguous
<1>1. Validates(k, v) => Matching(table[k], v) = {}
  BY <1>0, ToValidate DEF Stored
<1>2. q.serial = r.serial => q = r
  BY <1>0, ProvenanceKept DEF Provenance, Matching
<1> QED BY <1>0, <1>1, <1>2, StoredNow

-----------------------------------------------------------------------------
(***************************************************************************)
(* Compaction functions.                                                   *)
(***************************************************************************)
\* A compaction function under the keys of an item that stores one belongs to its point
LEMMA KeyedBelongs ==
    ASSUME Inv, NEW w \in Items, Adds(CF, w) \/ Validates(CF, w), NEW c,
           c.fi = FIKey(w), c.sri = SRIKey(w)
    PROVE  w \in Points /\ BelongsTo(c, w)
<1>0. /\ w \in Points /\ phase \in {"work", "pipeline"} /\ TypeOK
      /\ FI \in Kinds /\ SRI \in Kinds /\ CF \in Kinds
  BY QueueTables, ItemsFacts, KindsDistinct DEF Inv
<1>1. CASE phase = "work"
  <2>1. kind = CF
    BY <1>0, <1>1, QueueTables
  <2>2. Valid(FI, found[w].fi, w) /\ Valid(SRI, found[w].sri, w)
    BY <1>0, <1>1, <2>1 DEF Inv, StagedInv, CompactionQueue
  <2>3. ~config.scalars
    BY <1>1, <2>1, KindsDistinct DEF Inv, StagedInv, Reached, Staged
  <2>4. c.fi = found[w].fi /\ c.sri = found[w].sri
    BY <2>3 DEF FIKey, SRIKey
  <2> QED BY <1>0, <2>2, <2>4, ValidFacts DEF BelongsTo
<1>2. CASE phase = "pipeline"
  <2>1. UnifiedItem(w) /\ config.scalars
    BY <1>0, <1>2 DEF Inv, StagedInv, UnifiedQueue, Reached, Unified
  <2>2. (stage[w] = "storingCF" /\ HasCF(w)) \/ stage[w] = "validatingCF"
    BY <1>2, KindsDistinct DEF Adds, Validates, Storing, Validating
  <2>3. Valid(FI, FISerial(w), w) /\ Valid(SRI, SRISerial(w), w) /\ HasCF(w)
    BY <2>1, <2>2 DEF UnifiedItem
  <2>4. /\ c.fi = IF result[w].fi THEN FISerial(w) ELSE NULL
        /\ c.sri = IF result[w].sri THEN SRISerial(w) ELSE NULL
    BY <2>1 DEF FIKey, SRIKey
  <2>5. FISerial(w) # NULL /\ SRISerial(w) # NULL /\ Stored(FI, w) /\ Stored(SRI, w)
    BY <1>0, <2>3, ValidFacts
  <2> QED BY <1>0, <2>3, <2>4, <2>5 DEF BelongsTo, HasCF
<1> QED BY <1>0, <1>1, <1>2

LEMMA CompactionsBelongKept ==
    ASSUME Inv, [Next]_vars
    PROVE  CompactionsBelong'
<1> SUFFICES ASSUME NEW q \in table'[CF] PROVE \E p \in Points : BelongsTo(q, p)'
  BY DEF CompactionsBelong
<1>0. CF \in Kinds
  BY KindsDistinct
<1>1. ASSUME NEW c \in table[CF] PROVE \E p \in Points : BelongsTo(c, p)'
  BY BelongsStays DEF Inv, StagedInv, CompactionsBelong
<1>2. ASSUME NEW c \in table[CF], Content(CF, q, c) PROVE \E p \in Points : BelongsTo(q, p)'
  <2>1. PICK p \in Points : BelongsTo(c, p)'
    BY <1>1
  <2>2. q.fi = c.fi /\ q.sri = c.sri
    BY <1>2 DEF Content
  <2>3. BelongsTo(q, p)'
    BY <2>1, <2>2 DEF BelongsTo
  <2> QED BY <2>3
<1>3. ASSUME NEW w \in Items, Adds(CF, w), q = NewRow(CF, w)
      PROVE  \E p \in Points : BelongsTo(q, p)'
  <2>1. q.fi = FIKey(w) /\ q.sri = SRIKey(w)
    BY <1>0, <1>3, QueueTables, NewRowFacts
  <2>2. w \in Points /\ BelongsTo(q, w)
    BY <1>3, <2>1, KeyedBelongs
  <2> QED BY <2>2, BelongsStays
<1> QED BY <1>0, <1>1, <1>2, <1>3, RowsCome

\* What the validation of a compaction function brings belongs to its own point
LEMMA CompactionNow ==
    ASSUME Inv, [Next]_vars, NEW q \in table'[CF], q.validated, q \notin table[CF],
           NEW p, BelongsTo(q, p)'
    PROVE  p \in Points /\ Validates(CF, p) /\ q.serial = MySerial(p)
<1>0. CF \in Kinds
  BY KindsDistinct
<1>1. PICK w \in Items : /\ Validates(CF, w) /\ q.serial = MySerial(w)
                         /\ \E r \in table[CF] : Content(CF, q, r)
  BY <1>0, ValidatedNow
<1>2. PICK r \in table[CF] : Content(CF, q, r)
  BY <1>1
<1>3. PICK c \in table[CF] : c.serial = MySerial(w) /\ c.fi = FIKey(w) /\ c.sri = SRIKey(w)
  BY <1>0, <1>1, ToValidate DEF InsertedKeyed
<1>4. r = c
  BY <1>0, <1>1, <1>2, <1>3 DEF Content, Inv, StagedInv, Provenance
<1>5. q.fi = FIKey(w) /\ q.sri = SRIKey(w)
  BY <1>2, <1>3, <1>4 DEF Content
<1>6. w \in Points /\ BelongsTo(q, w)
  BY <1>1, <1>5, KeyedBelongs
<1>7. w = p
  BY <1>6, BelongsStays, ProvenanceKept, OneOwnerNext
<1> QED BY <1>1, <1>6, <1>7

\* A point gets its first compaction function that names both instantons by its own validation
LEMMA WholeNow ==
    ASSUME Inv, [Next]_vars, NEW p, NEW q \in table'[CF], Whole(q, p)'
    PROVE  \/ q \in table[CF] /\ Whole(q, p)
           \/ p \in Points /\ Validates(CF, p) /\ q.serial = MySerial(p)
<1>1. q.validated /\ NamesBoth(q) /\ BelongsTo(q, p)'
  BY DEF Whole
<1>2. CASE q \in table[CF]
  BY <1>1, <1>2, BelongsAsBefore DEF Whole
<1>3. CASE q \notin table[CF]
  BY <1>1, <1>3, CompactionNow
<1> QED BY <1>2, <1>3

LEMMA OneWholeKept ==
    ASSUME Inv, [Next]_vars
    PROVE  OneWhole'
<1> SUFFICES ASSUME NEW p \in Points, NEW c \in table'[CF], NEW d \in table'[CF],
                    Whole(c, p)', Whole(d, p)'
             PROVE  c = d
  BY DEF OneWhole
<1>0. CF \in Kinds /\ p \in Items
  BY KindsDistinct DEF Items
<1>1. \A a, b \in table[CF] : Whole(a, p) /\ Whole(b, p) => a = b
  BY DEF Inv, StagedInv, OneWhole
<1>2. Validates(CF, p) => \A a \in table[CF] : ~Whole(a, p)
  BY <1>0, ToValidate DEF HasWhole
<1>3. c.serial = d.serial => c = d
  BY <1>0, ProvenanceKept DEF Provenance
<1> QED BY <1>1, <1>2, <1>3, WholeNow

-----------------------------------------------------------------------------
(***************************************************************************)
(* The order of the stages.                                                *)
(***************************************************************************)
LEMMA AdvanceFacts ==
    ASSUME Advance, kind \in Kinds
    PROVE  /\ kind' \in Kinds /\ (kind' = kind \/ kind' \in Later(kind))
           /\ \/ phase' = "lookup" /\ kind = FI /\ kind' = SRI
              \/ phase' = "lookup" /\ kind = SRI /\ kind' = CF
              \/ phase' = "seed" /\ kind # GCI /\ kind' = GCI
              \/ phase' = "finished" /\ kind' = kind
           /\ phase' = "finished" /\ kind # GCI => "gradient" \notin config.targets
           /\ kind \in {FI, SRI} /\ phase' # "lookup" /\ ~config.scalars =>
                 "homogeneous" \notin Completed
<1>1. CASE kind = FI
  BY <1>1, KindsDistinct DEF Advance, AfterHomogeneous, Goto, Later, Completed
<1>2. CASE kind = SRI
  BY <1>2, KindsDistinct DEF Advance, AfterHomogeneous, Goto, Later, Completed
<1>3. CASE kind = CF
  BY <1>3, KindsDistinct DEF Advance, AfterHomogeneous, Goto, Later
<1>4. CASE kind = GCI
  BY <1>4, KindsDistinct DEF Advance, Goto, Later
<1> QED BY <1>1, <1>2, <1>3, <1>4, KindsDistinct

LEMMA BeginFacts ==
    ASSUME Begin, config' \in Configs
    PROVE  /\ kind' \in {FI, CF, GCI}
           /\ \/ phase' = "lookup" /\ kind' = FI /\ ~config'.scalars
              \/ phase' = "pipelineLookup" /\ kind' = CF /\ config'.scalars
              \/ phase' = "seed" /\ kind' = GCI /\ "homogeneous" \notin Completed'
              \/ phase' = "finished" /\ Completed' = {}
<1>1. config'.targets \subseteq Targets /\ config'.scalars \in BOOLEAN
  BY StagedAssumption DEF ConfigType
<1>2. CASE config'.stop = "inflaton-trajectory"
  BY <1>2 DEF Begin, Goto, Completed
<1>3. CASE config'.stop # "inflaton-trajectory" /\ "homogeneous" \in config'.targets
  BY <1>1, <1>3 DEF Begin, Goto
<1>4. CASE /\ config'.stop # "inflaton-trajectory" /\ "homogeneous" \notin config'.targets
           /\ "gradient" \in config'.targets
  BY <1>4 DEF Begin, Goto, Completed
<1>5. CASE /\ config'.stop # "inflaton-trajectory" /\ "homogeneous" \notin config'.targets
           /\ "gradient" \notin config'.targets
  BY <1>1, <1>5 DEF Begin, Goto, Completed, Targets
<1> QED BY <1>2, <1>3, <1>4, <1>5

\* The queue is empty, or its items are of the current kind
LEMMA EnqueueFacts ==
    ASSUME NEW missing, Enqueue(missing)
    PROVE  /\ stage' \in [Items -> Stages]
           /\ \A w \in Items : stage'[w] = IF w \in missing THEN "queued" ELSE "idle"
BY DEF Enqueue, Stages

LEMMA AllIdle ==
    ASSUME stage' = NothingQueued
    PROVE  stage' \in [Items -> Stages] /\ \A w \in Items : stage'[w] = "idle"
BY DEF NothingQueued, Stages

\* Outside a queue all items are idle
LEMMA IdleOutside ==
    ASSUME Inv, phase \in {"down", "lookup", "pipelineLookup", "seed", "finished"}, NEW w \in Items
    PROVE  stage[w] = "idle"
BY DEF Inv, StagedInv, AtRest

-----------------------------------------------------------------------------
(***************************************************************************)
(* What a look-up of both instantons and their compaction function finds.  *)
(***************************************************************************)
LEMMA SerialsFoundFacts ==
    ASSUME Inv, NEW p \in Points
    PROVE  LET s == SerialsFound(p)
           IN  /\ s \in [fi : Refs, sri : Refs]
               /\ IF Stored(FI, p) THEN Valid(FI, s.fi, p) ELSE s.fi = NULL
               /\ IF Stored(SRI, p) THEN Valid(SRI, s.sri, p) ELSE s.sri = NULL
<1>1. ASSUME NEW k \in {FI, SRI}
      PROVE  /\ SerialIn(Matching(table[k], p)) \in Refs
             /\ IF Stored(k, p) THEN Valid(k, SerialIn(Matching(table[k], p)), p)
                                ELSE SerialIn(Matching(table[k], p)) = NULL
  <2>0. k \in InstantonKinds /\ k \in Kinds /\ p \in Items /\ TypeOK
    BY KindsDistinct DEF Items, Inv
  <2>1. CASE Matching(table[k], p) = {}
    BY <2>1 DEF Stored, SerialIn, Refs
  <2>2. CASE Matching(table[k], p) # {}
    <3>1. PICK r \in Matching(table[k], p) : r \in table[k] /\ r.validated /\ r.point = p
      BY <2>2 DEF Matching
    <3>2. SerialIn(Matching(table[k], p)) = r.serial
      BY <2>0, <3>1, TheRow DEF Inv, StagedInv, OneRow
    <3>3. r.serial \in Serials
      BY <2>0, <3>1, SerialFacts
    <3> QED BY <2>2, <3>1, <3>2, <3>3 DEF Stored, Valid, Refs
  <2> QED BY <2>1, <2>2
<1> QED BY <1>1 DEF SerialsFound, Instantons

\* With both instantons valid under the keys, a compaction function of the point has them
LEMMA OwnKeys ==
    ASSUME Inv, NEW p \in Points, NEW x, NEW y, Valid(FI, x, p), Valid(SRI, y, p),
           NEW c \in table[CF], Whole(c, p)
    PROVE  c \in MatchingCompaction(table[CF], x, y)
<1>1. /\ ~Ambiguous(Matching(table[FI], p)) /\ ~Ambiguous(Matching(table[SRI], p))
  BY KindsDistinct DEF Inv, StagedInv, OneRow, Items
<1>2. Valid(FI, c.fi, p) /\ Valid(SRI, c.sri, p) /\ c.validated
  BY DEF BelongsTo, Whole, NamesBoth
<1>3. c.fi = x
  BY <1>1, <1>2 DEF Valid, Matching, Ambiguous
<1>4. c.sri = y
  BY <1>1, <1>2 DEF Valid, Matching, Ambiguous
<1> QED BY <1>2, <1>3, <1>4 DEF MatchingCompaction

LEMMA KeysAreWhole ==
    ASSUME TypeOK, NEW p, NEW x, NEW y, Valid(FI, x, p), Valid(SRI, y, p),
           NEW c \in MatchingCompaction(table[CF], x, y)
    PROVE  Whole(c, p)
<1>1. c.validated /\ c.fi = x /\ c.sri = y
  BY DEF MatchingCompaction
<1>2. x # NULL /\ y # NULL /\ Stored(FI, p) /\ Stored(SRI, p)
  BY ValidFacts, KindsDistinct
<1> QED BY <1>1, <1>2 DEF BelongsTo, Whole, NamesBoth

LEMMA CompactionFoundFacts ==
    ASSUME Inv, NEW p \in Points
    PROVE  /\ p \in Checkable => \A c \in CompactionFound(p) : c \in table[CF] /\ Whole(c, p)
           /\ p \in Checkable /\ CompactionFound(p) # {} <=> HasWhole(p)
<1> DEFINE s == SerialsFound(p)
<1>0. /\ p \in Checkable <=> Stored(FI, p) \/ Stored(SRI, p)
      /\ IF Stored(FI, p) THEN Valid(FI, s.fi, p) ELSE s.fi = NULL
      /\ IF Stored(SRI, p) THEN Valid(SRI, s.sri, p) ELSE s.sri = NULL
      /\ CompactionFound(p) = MatchingCompaction(table[CF], s.fi, s.sri)
      /\ TypeOK /\ Provenance
  BY SerialsFoundFacts DEF Checkable, Instantons, Stored, CompactionFound, Inv, StagedInv
<1> HIDE DEF s
<1>1. ASSUME p \in Checkable, NEW c \in CompactionFound(p) PROVE c \in table[CF] /\ Whole(c, p)
  <2>1. c \in table[CF] /\ c.fi = s.fi /\ c.sri = s.sri
    BY <1>0, <1>1 DEF MatchingCompaction
  <2>2. PICK q \in Points : BelongsTo(c, q)
    BY <2>1 DEF Inv, StagedInv, CompactionsBelong
  <2>3. FI \in InstantonKinds /\ SRI \in InstantonKinds /\ FI \in Kinds /\ SRI \in Kinds
    BY KindsDistinct
  <2>4. CASE Stored(FI, p)
    <3>1. Valid(FI, c.fi, p) /\ Valid(FI, c.fi, q)
      BY <1>0, <2>1, <2>2, <2>3, <2>4, ValidFacts DEF BelongsTo
    <3>2. p = q
      BY <1>0, <2>3, <3>1, OnePoint
    <3> QED BY <1>0, <1>1, <2>1, <2>2, <3>2, KeysAreWhole DEF BelongsTo
  <2>5. CASE Stored(SRI, p)
    <3>1. Valid(SRI, c.sri, p) /\ Valid(SRI, c.sri, q)
      BY <1>0, <2>1, <2>2, <2>3, <2>5, ValidFacts DEF BelongsTo
    <3>2. p = q
      BY <1>0, <2>3, <3>1, OnePoint
    <3> QED BY <1>0, <1>1, <2>1, <2>2, <3>2, KeysAreWhole DEF BelongsTo
  <2> QED BY <1>0, <1>1, <2>4, <2>5
<1>2. ASSUME NEW c \in table[CF], Whole(c, p) PROVE p \in Checkable /\ c \in CompactionFound(p)
  <2>1. Stored(FI, p) /\ Stored(SRI, p)
    BY <1>2 DEF Whole, BelongsTo
  <2> QED BY <1>0, <1>2, <2>1, OwnKeys
<1> QED BY <1>1, <1>2 DEF HasWhole

\* No look-up raises
LEMMA NeverAmbiguous ==
    ASSUME Inv
    PROVE  ~LookupRaises
<1>1. \A p \in Points : ~Ambiguous(Instantons(p).fi) /\ ~Ambiguous(Instantons(p).sri)
  BY KindsDistinct DEF Inv, StagedInv, OneRow, Items, Instantons
<1>2. \A p \in Checkable : ~Ambiguous(CompactionFound(p))
  <2>1. Checkable \subseteq Points
    BY DEF Checkable
  <2> QED BY <2>1, CompactionFoundFacts DEF Inv, StagedInv, OneWhole, Ambiguous
<1> QED BY <1>1, <1>2 DEF LookupRaises

-----------------------------------------------------------------------------
(***************************************************************************)
(* The outcomes of a step of the driver: it raises, it goes on with the    *)
(* items that are missing, or it is done with the kind.                    *)
(***************************************************************************)
AllFound == \A w \in ItemsOf(kind) : Stored(kind, w)

LEMMA LookupInstantonsFacts ==
    ASSUME Inv, LookupInstantons
    PROVE  /\ UNCHANGED <<table, run, config, result, settled, found>>
           /\ phase = "lookup" /\ kind # CF /\ kind \in Kinds
           /\ \/ Advance /\ AllFound /\ stage' = NothingQueued
              \/ /\ phase' = "work" /\ kind' = kind
                 /\ stage' \in [Items -> Stages]
                 /\ \A w \in Items :
                       stage'[w] = IF w \in ItemsOf(kind) /\ ~Stored(kind, w) THEN "queued" ELSE "idle"
<1> DEFINE missing == {w \in ItemsOf(kind) : Existing(w) = {}}
<1>1. /\ UNCHANGED <<table, run, config, result, settled>>
      /\ phase = "lookup" /\ kind # CF /\ kind \in Kinds
  BY DEF LookupInstantons, Inv, TypeOK
<1>2. \A w \in ItemsOf(kind) : Existing(w) = {} <=> ~Stored(kind, w)
  BY <1>1 DEF Existing, Stored
<1>3. ~(\E w \in ItemsOf(kind) : Ambiguous(Existing(w)))
  BY <1>1, ItemsFacts, KindsDistinct DEF Existing, Inv, StagedInv, OneRow
<1>4. CASE missing = {}
  <2>1. Advance /\ Enqueue({}) /\ found' = found
    BY <1>3, <1>4 DEF LookupInstantons
  <2>2. stage' = NothingQueued
    BY <2>1 DEF Enqueue, NothingQueued
  <2> QED BY <1>1, <1>2, <1>4, <2>1, <2>2 DEF AllFound
<1>5. CASE missing # {}
  <2>1. phase' = "work" /\ kind' = kind /\ Enqueue(missing) /\ found' = found
    BY <1>3, <1>5 DEF LookupInstantons, Goto
  <2>2. \A w \in Items : w \in missing <=> w \in ItemsOf(kind) /\ ~Stored(kind, w)
    BY <1>2
  <2> QED BY <1>1, <2>1, <2>2, EnqueueFacts
<1> QED BY <1>4, <1>5

LEMMA QueueDoneFacts ==
    ASSUME Inv, QueueDone
    PROVE  /\ UNCHANGED <<table, run, config, result, settled, found>>
           /\ phase \in {"work", "pipeline"} /\ kind \in Kinds
           /\ Advance /\ stage' = NothingQueued
           /\ \A w \in ItemsOf(kind) : stage[w] \in {"idle", "done"}
           /\ kind # CF => AllFound
<1>1. /\ UNCHANGED <<table, run, config, result, settled, found>>
      /\ phase \in {"work", "pipeline"} /\ kind \in Kinds /\ Advance /\ stage' = NothingQueued
      /\ \A w \in ItemsOf(kind) : stage[w] \in {"idle", "done"}
  BY ItemsFacts DEF QueueDone, Inv, TypeOK
<1>2. kind # CF => phase = "work"
  BY <1>1 DEF Inv, StagedInv, Reached, Unified
<1> QED BY <1>1, <1>2 DEF Inv, StagedInv, InstantonQueue, AllFound

\* The items of which there is no compaction function under both keys
LEMMA QueueMissingFacts ==
    ASSUME Inv, NEW ph, QueueMissing({p \in Points : ~HasWhole(p)}, ph)
    PROVE  /\ found' \in [Points -> [fi : Refs, sri : Refs]]
           /\ \A p \in Points : found'[p] = SerialsFound(p)
           /\ \/ Advance /\ stage' = NothingQueued /\ \A p \in Points : HasWhole(p)
              \/ /\ phase' = ph /\ kind' = CF /\ stage' \in [Items -> Stages]
                 /\ \A w \in Items : stage'[w] # "idle" => w \in Points /\ stage'[w] = "queued"
                 /\ \A p \in Points : stage'[p] = IF HasWhole(p) THEN "idle" ELSE "queued"
<1> DEFINE missing == {p \in Points : ~HasWhole(p)}
<1>1. /\ found' = [p \in Points |-> SerialsFound(p)] /\ Enqueue(missing)
      /\ IF missing = {} THEN Advance ELSE phase' = ph /\ kind' = CF
  BY DEF QueueMissing, Goto
<1>2. \A p \in Points : SerialsFound(p) \in [fi : Refs, sri : Refs]
  BY SerialsFoundFacts
<1>3. found' \in [Points -> [fi : Refs, sri : Refs]] /\ \A p \in Points : found'[p] = SerialsFound(p)
  BY <1>1, <1>2
<1>4. CASE missing = {}
  <2>1. stage' = NothingQueued
    BY <1>1, <1>4 DEF Enqueue, NothingQueued
  <2> QED BY <1>1, <1>3, <1>4, <2>1
<1>5. CASE missing # {}
  <2>1. /\ stage' \in [Items -> Stages]
        /\ \A w \in Items : stage'[w] = IF w \in missing THEN "queued" ELSE "idle"
    BY <1>1, EnqueueFacts
  <2>2. Points \subseteq Items
    BY DEF Items
  <2> QED BY <1>1, <1>3, <1>5, <2>1, <2>2
<1> QED BY <1>4, <1>5

LEMMA LookupCompactionsFacts ==
    ASSUME Inv, LookupCompactions
    PROVE  /\ UNCHANGED <<table, run, config, result, settled>>
           /\ phase = "lookup" /\ kind = CF
           /\ \A p \in Points : Stored(FI, p) /\ Stored(SRI, p)
           /\ QueueMissing({p \in Points : ~HasWhole(p)}, "populate")
<1>1. /\ UNCHANGED <<table, run, config, result, settled>>
      /\ phase = "lookup" /\ kind = CF
      /\ QueueMissing({p \in Checkable : CompactionFound(p) = {}}, "populate")
  BY NeverAmbiguous DEF LookupCompactions
<1>2. \A p \in Points : Stored(FI, p) /\ Stored(SRI, p)
  BY <1>1 DEF Inv, StagedInv, Reached, Staged
<1>3. Checkable = Points
  BY <1>2 DEF Checkable, Instantons, Stored
<1>4. {p \in Checkable : CompactionFound(p) = {}} = {p \in Points : ~HasWhole(p)}
  BY <1>3, CompactionFoundFacts
<1> QED BY <1>1, <1>2, <1>4

LEMMA LookupPipelineFacts ==
    ASSUME Inv, LookupPipeline
    PROVE  /\ UNCHANGED <<table, run, config, result, settled>>
           /\ phase = "pipelineLookup" /\ kind = CF
           /\ QueueMissing({p \in Points : ~HasWhole(p)}, "pipeline")
<1>1. /\ UNCHANGED <<table, run, config, result, settled>>
      /\ phase = "pipelineLookup"
      /\ QueueMissing({p \in Points : p \in Checkable => CompactionFound(p) = {}}, "pipeline")
  BY NeverAmbiguous DEF LookupPipeline
<1>2. {p \in Points : p \in Checkable => CompactionFound(p) = {}} = {p \in Points : ~HasWhole(p)}
  BY CompactionFoundFacts
<1>3. kind = CF
  BY <1>1 DEF Inv, StagedInv, Reached, Unified
<1> QED BY <1>1, <1>2, <1>3

LEMMA PopulateFacts ==
    ASSUME Inv, Populate
    PROVE  /\ UNCHANGED <<table, run, config, result, settled, kind, found, stage>>
           /\ phase = "populate" /\ kind = CF
           /\ \/ phase' = "raised" /\ RaisesOnScalarRowsOnly'
              \/ phase' = "work"
<1>1. phase = "populate" /\ kind = CF
  BY DEF Populate, Inv, StagedInv, Reached
<1> QED BY <1>1 DEF Populate, Raise, Goto, RaisesOnScalarRowsOnly, Instantons

LEMMA FetchSeedsFacts ==
    ASSUME Inv, FetchSeeds
    PROVE  /\ UNCHANGED <<table, run, config, result, settled, kind, found, stage>>
           /\ phase = "seed" /\ kind = GCI
           /\ \/ phase' = "raised" /\ RaisesOnScalarRowsOnly'
              \/ phase' = "lookup"
<1>1. phase = "seed" /\ kind = GCI
  BY DEF FetchSeeds, Inv, StagedInv, Reached
<1>2. \A p \in Points : ~Ambiguous(Matching(table[FI], p))
  BY KindsDistinct DEF Inv, StagedInv, OneRow, Items
<1> QED BY <1>1, <1>2 DEF FetchSeeds, Raise, Goto, RaisesOnScalarRowsOnly, Instantons

LEMMA DownFacts ==
    ASSUME Inv, Exit \/ Kill
    PROVE  /\ UNCHANGED <<table, run, config, kind, result>>
           /\ phase' = "down" /\ stage' = NothingQueued /\ found' = NothingFound
           /\ phase # "down"
           /\ settled' = settled \/ (phase = "finished" /\ settled' = settled \cup Lasting)
BY DEF Exit, Kill, Gone

LEMMA OpenFacts ==
    ASSUME Inv, Open
    PROVE  /\ UNCHANGED <<result, found, stage, settled>>
           /\ phase = "down" /\ run' = run + 1 /\ config' \in Configs
           /\ \A k \in Kinds : table'[k] \subseteq table[k]
           /\ kind' \in {FI, CF, GCI}
           /\ \/ phase' = "lookup" /\ kind' = FI /\ ~config'.scalars
              \/ phase' = "pipelineLookup" /\ kind' = CF /\ config'.scalars
              \/ phase' = "seed" /\ kind' = GCI /\ "homogeneous" \notin Completed'
              \/ phase' = "finished" /\ Completed' = {}
<1>1. \A k \in Kinds : table'[k] \subseteq table[k]
  BY DEF Open, Prune
<1> QED BY <1>1, BeginFacts DEF Open

-----------------------------------------------------------------------------
LEMMA TypeKept ==
    ASSUME Inv, [Next]_vars
    PROVE  TypeOK'
<1>0. TypeOK
  BY DEF Inv
<1>1. run' \in 0 .. MaxRuns
  BY RunGrows
<1>2. SUFFICES /\ phase' \in Phases /\ kind' \in Kinds
               /\ phase' # "down" => config' \in Configs
               /\ result' = result
               /\ found' \in [Points -> [fi : Refs, sri : Refs]]
               /\ stage' \in [Items -> Stages]
  BY <1>0, <1>1, TablesTyped DEF TypeOK
<1>3. ASSUME Advance PROVE phase' \in Phases /\ kind' \in Kinds
  BY <1>0, <1>3, AdvanceFacts DEF TypeOK, Phases
<1>4. CASE Open
  BY <1>0, <1>4, OpenFacts, KindsDistinct DEF TypeOK, Phases
<1>5. CASE LookupInstantons
  BY <1>0, <1>3, <1>5, LookupInstantonsFacts, AllIdle DEF TypeOK, Phases
<1>6. CASE LookupCompactions
  BY <1>0, <1>3, <1>6, LookupCompactionsFacts, QueueMissingFacts, AllIdle, KindsDistinct
     DEF TypeOK, Phases
<1>7. CASE LookupPipeline
  BY <1>0, <1>3, <1>7, LookupPipelineFacts, QueueMissingFacts, AllIdle, KindsDistinct
     DEF TypeOK, Phases
<1>8. CASE Populate
  BY <1>0, <1>8, PopulateFacts DEF TypeOK, Phases
<1>9. CASE FetchSeeds
  BY <1>0, <1>9, FetchSeedsFacts DEF TypeOK, Phases
<1>10. CASE QueueDone
  BY <1>0, <1>3, <1>10, QueueDoneFacts, AllIdle DEF TypeOK
<1>11. CASE Exit \/ Kill
  <2>1. NothingFound \in [Points -> [fi : Refs, sri : Refs]]
    BY DEF NothingFound, Refs
  <2> QED BY <1>0, <1>11, <2>1, DownFacts, AllIdle DEF TypeOK, Phases
<1>12. ASSUME NEW w \in Items, Step(w)
       PROVE  /\ phase' \in Phases /\ kind' \in Kinds
              /\ phase' # "down" => config' \in Configs
              /\ result' = result
              /\ found' \in [Points -> [fi : Refs, sri : Refs]]
              /\ stage' \in [Items -> Stages]
  BY <1>0, <1>12, StepFacts DEF TypeOK
<1>13. CASE UNCHANGED vars
  BY <1>0, <1>13 DEF vars, TypeOK
<1> QED BY <1>4, <1>5, <1>6, <1>7, <1>8, <1>9, <1>10, <1>11, <1>12, <1>13 DEF Next, Driver

LEMMA RaisesKept ==
    ASSUME Inv, [Next]_vars
    PROVE  RaisesOnScalarRowsOnly'
<1>0. RaisesOnScalarRowsOnly /\ kind \in Kinds
  BY DEF Inv, StagedInv, TypeOK
<1>1. ASSUME phase' # "raised" PROVE RaisesOnScalarRowsOnly'
  BY <1>1 DEF RaisesOnScalarRowsOnly
<1>2. Advance => phase' # "raised"
  BY <1>0, AdvanceFacts
<1>3. CASE Open
  BY <1>1, <1>3, OpenFacts
<1>4. CASE LookupInstantons
  BY <1>1, <1>2, <1>4, LookupInstantonsFacts
<1>5. CASE LookupCompactions
  BY <1>1, <1>2, <1>5, LookupCompactionsFacts, QueueMissingFacts
<1>6. CASE LookupPipeline
  BY <1>1, <1>2, <1>6, LookupPipelineFacts, QueueMissingFacts
<1>7. CASE Populate
  BY <1>1, <1>7, PopulateFacts
<1>8. CASE FetchSeeds
  BY <1>1, <1>8, FetchSeedsFacts
<1>9. CASE QueueDone
  BY <1>1, <1>2, <1>9, QueueDoneFacts
<1>10. CASE Exit \/ Kill
  BY <1>1, <1>10, DownFacts
<1>11. ASSUME NEW w \in Items, Step(w) PROVE RaisesOnScalarRowsOnly'
  BY <1>1, <1>11, StepFacts
<1>12. CASE UNCHANGED vars
  BY <1>0, <1>12 DEF vars, RaisesOnScalarRowsOnly, Instantons
<1> QED BY <1>3, <1>4, <1>5, <1>6, <1>7, <1>8, <1>9, <1>10, <1>11, <1>12 DEF Next, Driver

-----------------------------------------------------------------------------
(***************************************************************************)
(* What the current run has not written yet.                               *)
(***************************************************************************)
\* The kinds that come after the next kind come after this one
LEMMA LaterFacts ==
    ASSUME NEW k \in Kinds
    PROVE  /\ k \notin Later(k) /\ Later(k) \subseteq Kinds
           /\ \A l \in Later(k) : Later(l) \subseteq Later(k)
BY KindsDistinct DEF Later

\* With the tables of the run as they are, the next kind is as fresh as any
LEMMA FreshAdvance ==
    ASSUME Inv, phase \in Busy, Advance, UNCHANGED <<table, run>>, stage' = NothingQueued
    PROVE  Fresh'
<1>0. kind \in Kinds
  BY DEF Inv, TypeOK
<1>1. CASE phase' = "finished"
  BY <1>1 DEF Fresh, Busy, Staged, Unified
<1>2. CASE phase' # "finished"
  <2>1. kind' \in Later(kind) /\ phase' \notin Unified
    BY <1>0, <1>2, AdvanceFacts, KindsDistinct DEF Unified, Later
  <2>2. \A k \in {kind'} \cup Later(kind') : \A r \in table[k] : r.serial[2] # run
    BY <1>0, <2>1, LaterFacts DEF Inv, StagedInv, Fresh
  <2>3. \A w : MySerial(w)'[2] = run
    BY DEF MySerial
  <2>4. \A k, w : Pending(k, w)' => k = kind'
    BY <2>1 DEF Pending
  <2> QED BY <2>2, <2>3, <2>4 DEF Fresh
<1> QED BY <1>1, <1>2

\* Nothing of the current run is stored when it starts
LEMMA FreshOpen ==
    ASSUME Inv, Open
    PROVE  Fresh'
<1>1. \A k \in Kinds : \A r \in table[k] : r.serial[2] # run + 1
  BY RunGrows, SerialFacts DEF Inv, StagedInv, Provenance, Next, Driver
<1>2. \A k \in Kinds : \A r \in table'[k] : r.serial[2] # run'
  BY <1>1, OpenFacts
<1>3. kind' \in Kinds /\ Later(kind') \subseteq Kinds
  BY OpenFacts, LaterFacts, KindsDistinct
<1>4. \A w : MySerial(w)'[2] = run'
  BY DEF MySerial
<1> QED BY <1>2, <1>3, <1>4 DEF Fresh

\* A step of an item leaves its objects of no kind both unstored and with a row
LEMMA FreshStep ==
    ASSUME Inv, NEW w \in Items, Step(w)
    PROVE  Fresh'
<1>0. /\ [Next]_vars /\ kind \in Kinds /\ Fresh /\ phase \in Busy /\ w \in ItemsOf(kind)
      /\ UNCHANGED <<run, phase, kind>> /\ phase \in {"work", "pipeline"}
      /\ \A v \in Items : v # w => stage'[v] = stage[v]
  BY StepFacts DEF Next, Inv, StagedInv, TypeOK, Busy, Staged, Unified
<1>1. \A v : MySerial(v)' = MySerial(v)
  BY <1>0 DEF MySerial
<1>2. ASSUME NEW k \in Kinds, NEW v \in Items, Pending(k, v)'
      PROVE  Pending(k, v) /\ ~Adds(k, v)
  <2>1. CASE v # w
    BY <1>0, <1>2, <2>1, QueueTables DEF Pending, Adds, Storing, Unified, Before, Step, Dispatch,
       Store, ValidateRow
  <2>2. CASE v = w
    <3>1. CASE table' = table /\ Passes(w)
      <4>1. Pending(k, w)
        BY <1>0, <1>2, <2>2, <3>1, KindsDistinct DEF Pending, Passes, Unified, Before
      <4>2. ~Adds(k, w)
        BY <3>1, KindsDistinct DEF Adds, Storing, Passes
      <4> QED BY <2>2, <4>1, <4>2
    <3>2. ASSUME NEW l \in Kinds, Adds(l, w) PROVE Pending(k, w) /\ ~Adds(k, w)
      BY <1>0, <1>2, <2>2, <3>2, KindsDistinct DEF Pending, Adds, Storing, Unified, Before
    <3>3. ASSUME NEW l \in Kinds, Validates(l, w) PROVE Pending(k, w) /\ ~Adds(k, w)
      BY <1>0, <1>2, <2>2, <3>3, KindsDistinct
         DEF Pending, Adds, Validates, Storing, Validating, Unified, Before
    <3> QED BY <2>2, <3>1, <3>2, <3>3, OwnStep
  <2> QED BY <2>1, <2>2
<1>3. ASSUME NEW k \in Later(kind), NEW q \in table'[k] PROVE q.serial[2] # run
  <2>1. k \in Kinds /\ k # kind /\ (kind = CF => k = GCI)
    BY <1>0, LaterFacts, KindsDistinct DEF Later
  <2>2. \A u \in Items : ~Adds(k, u) /\ ~Validates(k, u)
    BY <1>0, <2>1, StepFacts, QueueTables
  <2>3. q \in table[k]
    BY <1>0, <2>1, <2>2, RowsCome
  <2> QED BY <1>0, <2>3 DEF Fresh
<1>4. ASSUME NEW k \in Kinds, NEW v \in Items, Pending(k, v)', NEW q \in table'[k]
      PROVE  q.serial # MySerial(v)
  <2>1. Pending(k, v) /\ ~Adds(k, v)
    BY <1>2, <1>4
  <2>2. \A r \in table[k] : r.serial # MySerial(v)
    BY <1>0, <2>1 DEF Fresh
  <2>3. ASSUME NEW u \in Items, Adds(k, u), q = NewRow(k, u) PROVE q.serial # MySerial(v)
    <3>1. q.serial = MySerial(u) /\ u # v
      BY <2>1, <2>3, NewRowFacts, QueueTables
    <3> QED BY <3>1 DEF MySerial
  <2>4. ASSUME NEW r \in table[k], Content(k, q, r) PROVE q.serial # MySerial(v)
    BY <2>2, <2>4 DEF Content
  <2> QED BY <1>0, <2>2, <2>3, <2>4, RowsCome
<1> QED BY <1>0, <1>1, <1>3, <1>4 DEF Fresh

LEMMA FreshKept ==
    ASSUME Inv, [Next]_vars
    PROVE  Fresh'
<1>0. Fresh /\ kind \in Kinds /\ TypeOK
  BY DEF Inv, StagedInv, TypeOK
<1>1. ASSUME UNCHANGED <<table, run, kind>>, phase \in Staged, phase' \in Staged,
             \A w \in Items : stage[w] \in {"validating", "done"} => stage'[w] = stage[w]
      PROVE  Fresh'
  <2>1. phase \notin Unified /\ phase' \notin Unified
    BY <1>1 DEF Staged, Unified
  <2>2. \A k, w : w \in Items /\ Pending(k, w)' => Pending(k, w)
    BY <1>1, <2>1 DEF Pending
  <2> QED BY <1>0, <1>1, <2>2 DEF Fresh, MySerial, Busy
<1>2. ASSUME phase' \notin Busy PROVE Fresh'
  BY <1>2 DEF Fresh
<1>3. CASE Open
  BY <1>3, FreshOpen
<1>4. CASE LookupInstantons
  <2>1. phase \in Staged /\ \A w \in Items : stage[w] = "idle"
    BY <1>4, IdleOutside, LookupInstantonsFacts DEF Staged
  <2> QED BY <1>1, <1>2, <1>4, <2>1, FreshAdvance, LookupInstantonsFacts DEF Busy, Staged
<1>5. CASE LookupCompactions
  <2>1. phase \in Staged /\ \A w \in Items : stage[w] = "idle"
    BY <1>5, IdleOutside, LookupCompactionsFacts DEF Staged
  <2> QED BY <1>1, <1>2, <1>5, <2>1, FreshAdvance, LookupCompactionsFacts, QueueMissingFacts
             DEF Busy, Staged
<1>6. CASE LookupPipeline
  <2>1. /\ phase \in Unified /\ kind = CF /\ UNCHANGED <<table, run>>
        /\ \A w \in Items : stage[w] = "idle"
    BY <1>6, IdleOutside, LookupPipelineFacts DEF Unified
  <2>2. CASE phase' = "pipeline" /\ kind' = CF
    <3>1. \A k, w : w \in Items /\ Pending(k, w)' => Pending(k, w)
      BY <2>1, <2>2 DEF Pending, Before, Unified
    <3> QED BY <1>0, <2>1, <2>2, <3>1 DEF Fresh, MySerial, Busy
  <2>3. CASE Advance /\ stage' = NothingQueued
    BY <2>1, <2>3, FreshAdvance DEF Busy
  <2> QED BY <1>6, <2>2, <2>3, LookupPipelineFacts, QueueMissingFacts
<1>7. CASE Populate
  BY <1>1, <1>2, <1>7, PopulateFacts DEF Busy, Staged, Unified
<1>8. CASE FetchSeeds
  BY <1>1, <1>2, <1>8, FetchSeedsFacts DEF Busy, Staged, Unified
<1>9. CASE QueueDone
  BY <1>9, QueueDoneFacts, FreshAdvance DEF Busy, Staged, Unified
<1>10. CASE Exit \/ Kill
  BY <1>2, <1>10, DownFacts DEF Busy, Staged, Unified
<1>11. ASSUME NEW w \in Items, Step(w) PROVE Fresh'
  BY <1>11, FreshStep
<1>12. CASE UNCHANGED vars
  BY <1>0, <1>12 DEF vars, Fresh, MySerial, Pending
<1> QED BY <1>3, <1>4, <1>5, <1>6, <1>7, <1>8, <1>9, <1>10, <1>11, <1>12 DEF Next, Driver

-----------------------------------------------------------------------------
(***************************************************************************)
(* The queue.                                                              *)
(***************************************************************************)
LEMMA AtRestKept ==
    ASSUME Inv, [Next]_vars
    PROVE  AtRest'
<1>0. AtRest /\ ItemsOf(CF) = Points
  BY ItemsFacts DEF Inv, StagedInv
<1>1. ASSUME stage' = NothingQueued PROVE AtRest'
  BY <1>1, AllIdle DEF AtRest
<1>2. ASSUME UNCHANGED stage, phase \in {"down", "lookup", "pipelineLookup", "seed", "finished"}
      PROVE  AtRest'
  BY <1>2, IdleOutside DEF AtRest
<1>3. CASE Open
  BY <1>2, <1>3, OpenFacts
<1>4. CASE LookupInstantons
  BY <1>1, <1>4, LookupInstantonsFacts DEF AtRest, ItemsOf
<1>5. CASE LookupCompactions
  BY <1>0, <1>1, <1>5, LookupCompactionsFacts, QueueMissingFacts DEF AtRest
<1>6. CASE LookupPipeline
  BY <1>0, <1>1, <1>6, LookupPipelineFacts, QueueMissingFacts DEF AtRest
<1>7. CASE Populate
  BY <1>0, <1>7, PopulateFacts DEF AtRest, ItemsOf
<1>8. CASE FetchSeeds
  BY <1>2, <1>8, FetchSeedsFacts
<1>9. CASE QueueDone
  BY <1>1, <1>9, QueueDoneFacts
<1>10. CASE Exit \/ Kill
  BY <1>1, <1>10, DownFacts
<1>11. ASSUME NEW w \in Items, Step(w) PROVE AtRest'
  BY <1>0, <1>11, StepFacts DEF AtRest, ItemsOf
<1>12. CASE UNCHANGED vars
  BY <1>0, <1>12 DEF vars, AtRest, ItemsOf
<1> QED BY <1>3, <1>4, <1>5, <1>6, <1>7, <1>8, <1>9, <1>10, <1>11, <1>12 DEF Next, Driver

\* A stage that is over has left every point with what it was for
LEMMA ReachedAdvance ==
    ASSUME Inv, [Next]_vars, Advance, phase \in Busy, kind \in Kinds, UNCHANGED config,
           kind # CF => AllFound
    PROVE  Reached'
<1>1. FI \in Kinds /\ SRI \in Kinds /\ ItemsOf(FI) = Points /\ ItemsOf(SRI) = Points
  BY KindsDistinct DEF ItemsOf
<1>2. kind = FI => \A p \in Points : Stored(FI, p)'
  BY <1>1, SettledStays, KindsDistinct DEF AllFound
<1>3. kind \in {FI, SRI} => phase \in Staged /\ ~config.scalars
  BY KindsDistinct DEF Inv, StagedInv, Reached, Busy
<1>4. kind = SRI => \A p \in Points : Stored(FI, p)' /\ Stored(SRI, p)'
  BY <1>1, <1>3, SettledStays, KindsDistinct DEF AllFound, Inv, StagedInv, Reached
<1> QED BY <1>2, <1>3, <1>4, AdvanceFacts, KindsDistinct DEF Reached, Staged, Unified

LEMMA ReachedKept ==
    ASSUME Inv, [Next]_vars
    PROVE  Reached'
<1>0. Reached /\ FI \in Kinds /\ SRI \in Kinds
  BY KindsDistinct DEF Inv, StagedInv
<1>1. ASSUME UNCHANGED <<kind, config>>, phase \in Staged,
             phase' \in {"lookup", "work", "raised", "finished"}
      PROVE  Reached'
  BY <1>0, <1>1, SettledStays DEF Reached, Staged, Unified
<1>2. CASE Open
  BY <1>2, OpenFacts, KindsDistinct DEF Reached, Staged, Unified
<1>3. CASE LookupInstantons
  <2>1. CASE Advance /\ AllFound
    BY <1>3, <2>1, LookupInstantonsFacts, ReachedAdvance DEF Busy, Staged
  <2> QED BY <1>1, <1>3, <2>1, LookupInstantonsFacts DEF Staged
<1>4. CASE LookupCompactions
  <2>1. CASE Advance
    BY <1>4, <2>1, LookupCompactionsFacts, ReachedAdvance, KindsDistinct DEF Busy, Staged
  <2>2. CASE phase' = "populate" /\ kind' = CF
    <3>1. \A p \in Points : Stored(FI, p)' /\ Stored(SRI, p)'
      BY <1>0, <1>4, LookupCompactionsFacts, SettledStays
    <3>2. ~config'.scalars
      BY <1>0, <1>4, LookupCompactionsFacts, KindsDistinct DEF Reached, Staged
    <3> QED BY <2>2, <3>1, <3>2 DEF Reached, Staged, Unified
  <2> QED BY <1>4, <2>1, <2>2, LookupCompactionsFacts, QueueMissingFacts
<1>5. CASE LookupPipeline
  <2>1. CASE Advance
    BY <1>5, <2>1, LookupPipelineFacts, ReachedAdvance, KindsDistinct DEF Busy, Unified
  <2>2. CASE phase' = "pipeline" /\ kind' = CF
    <3>1. config'.scalars
      BY <1>0, <1>5, LookupPipelineFacts DEF Reached, Unified
    <3> QED BY <2>2, <3>1 DEF Reached, Staged, Unified
  <2> QED BY <1>5, <2>1, <2>2, LookupPipelineFacts, QueueMissingFacts
<1>6. CASE Populate
  BY <1>1, <1>6, PopulateFacts DEF Staged
<1>7. CASE FetchSeeds
  BY <1>1, <1>7, FetchSeedsFacts DEF Staged
<1>8. CASE QueueDone
  BY <1>8, QueueDoneFacts, ReachedAdvance DEF Busy, Staged, Unified
<1>9. CASE Exit \/ Kill
  BY <1>9, DownFacts DEF Reached, Staged, Unified
<1>10. ASSUME NEW w \in Items, Step(w) PROVE Reached'
  <2>1. UNCHANGED <<kind, config, phase>> /\ phase \in {"work", "pipeline"}
    BY <1>10, StepFacts
  <2>2. CASE phase = "work"
    BY <1>1, <2>1, <2>2 DEF Staged
  <2>3. CASE phase = "pipeline"
    BY <1>0, <2>1, <2>3 DEF Reached, Staged, Unified
  <2> QED BY <2>1, <2>2, <2>3
<1>11. CASE UNCHANGED vars
  BY <1>0, <1>11, SettledStays DEF vars, Reached
<1> QED BY <1>2, <1>3, <1>4, <1>5, <1>6, <1>7, <1>8, <1>9, <1>10, <1>11 DEF Next, Driver

-----------------------------------------------------------------------------
(***************************************************************************)
(* Steps of the items.                                                     *)
(***************************************************************************)
\* The rows of the queue stand until they are validated
LEMMA InsertedStays ==
    ASSUME Inv, NEW w \in Items, Step(w), NEW v
    PROVE  /\ \A k \in Kinds : Inserted(k, v) /\ k # CF => Inserted(k, v)'
           /\ InsertedKeyed(v) => InsertedKeyed(v)'
           /\ FIKey(v)' = FIKey(v) /\ SRIKey(v)' = SRIKey(v)
           /\ FISerial(v)' = FISerial(v) /\ SRISerial(v)' = SRISerial(v)
           /\ HasCF(v)' = HasCF(v)
<1>0. UNCHANGED <<run, config, found, result>> /\ [Next]_vars
  BY StepFacts DEF Next
<1>1. ASSUME NEW k \in Kinds, NEW r \in table[k] PROVE \E q \in table'[k] : Content(k, q, r)
  <2>0. table[k] \subseteq RowsOf(k) /\ Content(k, r, r)
    BY TableTyped DEF Inv, Content
  <2>1. ASSUME NEW l \in Kinds, Adds(l, w) PROVE \E q \in table'[k] : Content(k, q, r)
    BY <2>0, <2>1, QueueTables
  <2>2. ASSUME NEW l \in Kinds, Validates(l, w) PROVE \E q \in table'[k] : Content(k, q, r)
    <3>1. CASE k # l
      BY <2>0, <2>2, <3>1, QueueTables
    <3>2. CASE k = l
      BY <2>0, <2>2, <3>2, QueueTables, ValidateFacts
    <3> QED BY <3>1, <3>2
  <2> QED BY <2>0, <2>1, <2>2, OwnStep
<1>2. MySerial(v)' = MySerial(v)
  BY <1>0 DEF MySerial
<1>3. /\ FIKey(v)' = FIKey(v) /\ SRIKey(v)' = SRIKey(v)
      /\ FISerial(v)' = FISerial(v) /\ SRISerial(v)' = SRISerial(v)
      /\ HasCF(v)' = HasCF(v)
  BY <1>0, <1>2 DEF FIKey, SRIKey, FISerial, SRISerial, HasCF
<1>4. \A k \in Kinds : Inserted(k, v) /\ k # CF => Inserted(k, v)'
  BY <1>1, <1>2 DEF Inserted, Content
<1>5. InsertedKeyed(v) => InsertedKeyed(v)'
  BY <1>1, <1>2, <1>3, KindsDistinct DEF InsertedKeyed, Content
<1> QED BY <1>3, <1>4, <1>5

\* A point is as settled as before unless its own item validates something
LEMMA AsBefore ==
    ASSUME Inv, [Next]_vars, NEW p
    PROVE  /\ \A k \in InstantonKinds : Stored(k, p)' => Stored(k, p) \/ Validates(k, p)
           /\ HasWhole(p)' => HasWhole(p) \/ Validates(CF, p)
<1>1. ASSUME NEW k \in InstantonKinds, Stored(k, p)' PROVE Stored(k, p) \/ Validates(k, p)
  BY <1>1, StoredNow DEF Stored
<1>2. ASSUME HasWhole(p)' PROVE HasWhole(p) \/ Validates(CF, p)
  BY <1>2, WholeNow DEF HasWhole
<1> QED BY <1>1, <1>2

\* What an item has stored it can find afterwards
LEMMA AddsFacts ==
    ASSUME Inv, NEW k \in Kinds, NEW w \in Items, Adds(k, w)
    PROVE  IF k = CF THEN InsertedKeyed(w)' ELSE Inserted(k, w)'
<1>0. NewRow(k, w) \in table'[k] /\ UNCHANGED <<run, config, found, result>> /\ Step(w)
  BY QueueTables DEF Adds
<1>1. /\ NewRow(k, w).serial = MySerial(w)
      /\ IF k = CF THEN NewRow(k, w).fi = FIKey(w) /\ NewRow(k, w).sri = SRIKey(w)
                   ELSE NewRow(k, w).point = w
  BY NewRowFacts, QueueTables
<1>2. MySerial(w)' = MySerial(w) /\ FIKey(w)' = FIKey(w) /\ SRIKey(w)' = SRIKey(w)
  BY <1>0, InsertedStays DEF MySerial
<1> QED BY <1>0, <1>1, <1>2 DEF Inserted, InsertedKeyed

\* ... and what it has validated is settled
LEMMA ValidatesFacts ==
    ASSUME Inv, [Next]_vars, NEW k \in Kinds, NEW w \in Items, Validates(k, w)
    PROVE  /\ k # CF => Valid(k, MySerial(w), w)' /\ Stored(k, w)'
           /\ k = CF => /\ HasCompaction(w)'
                        /\ FIKey(w) # NULL /\ SRIKey(w) # NULL => HasWhole(w)'
<1>0. table[k] \subseteq RowsOf(k) /\ table'[k] = Validate(table[k], MySerial(w))
  BY QueueTables, TableTyped DEF Inv
<1>1. ASSUME k # CF PROVE Valid(k, MySerial(w), w)' /\ Stored(k, w)'
  <2>1. PICK r \in table[k] : r.serial = MySerial(w) /\ r.point = w
    BY <1>1, ToValidate DEF Inserted
  <2>2. PICK q \in table'[k] : q.serial = MySerial(w) /\ q.point = w /\ q.validated
    BY <1>0, <1>1, <2>1, ValidateFacts DEF Content
  <2>3. MySerial(w)' = MySerial(w)
    BY QueueTables DEF MySerial
  <2> QED BY <2>2, <2>3 DEF Valid, Stored, Matching
<1>2. ASSUME k = CF
      PROVE  HasCompaction(w)' /\ (FIKey(w) # NULL /\ SRIKey(w) # NULL => HasWhole(w)')
  <2>1. PICK c \in table[k] : c.serial = MySerial(w) /\ c.fi = FIKey(w) /\ c.sri = SRIKey(w)
    BY <1>2, ToValidate DEF InsertedKeyed
  <2>2. PICK q \in table'[k] : q.fi = FIKey(w) /\ q.sri = SRIKey(w) /\ q.validated
    BY <1>0, <1>2, <2>1, ValidateFacts DEF Content
  <2>3. BelongsTo(q, w)'
    BY <1>2, <2>2, KeyedBelongs, BelongsStays
  <2> QED BY <1>2, <2>2, <2>3 DEF HasCompaction, HasWhole, Whole, NamesBoth
<1> QED BY <1>1, <1>2

LEMMA InstantonStep ==
    ASSUME Inv, kind # CF, NEW w \in Items, Step(w)
    PROVE  InstantonQueue'
<1>0. /\ w \in ItemsOf(kind) /\ [Next]_vars
      /\ UNCHANGED <<run, phase, kind>> /\ kind \in InstantonKinds /\ kind \in Kinds
      /\ \A v \in Items : v # w => stage'[v] = stage[v]
      /\ phase = "work"
  BY StepFacts, KindsDistinct DEF Next, Inv, TypeOK
<1>1. SUFFICES ASSUME NEW v \in ItemsOf(kind)
               PROVE  /\ stage'[v] \in {"idle", "done"} => Stored(kind, v)'
                      /\ stage'[v] \in {"computing", "validating"} => ~Stored(kind, v)'
                      /\ stage'[v] = "validating" => Inserted(kind, v)'
  <2>1. ItemsOf(kind)' = ItemsOf(kind) /\ kind' = kind
    BY <1>0 DEF ItemsOf
  <2> QED BY <1>0, <2>1 DEF InstantonQueue
<1>2. /\ stage[v] \in {"idle", "done"} => Stored(kind, v)
      /\ stage[v] \in {"computing", "validating"} => ~Stored(kind, v)
      /\ stage[v] = "validating" => Inserted(kind, v)
  BY <1>0 DEF Inv, StagedInv, InstantonQueue
<1>3. v \in Items /\ kind' = kind
  BY <1>0, ItemsFacts
<1>4. /\ Stored(kind, v) => Stored(kind, v)'
      /\ Stored(kind, v)' => Stored(kind, v) \/ Validates(kind, v)
      /\ Inserted(kind, v) => Inserted(kind, v)'
  <2>1. /\ \A k \in Kinds : Stored(k, v) => Stored(k, v)'
        /\ \A k \in InstantonKinds : Stored(k, v)' => Stored(k, v) \/ Validates(k, v)
        /\ \A k \in Kinds : Inserted(k, v) /\ k # CF => Inserted(k, v)'
    BY <1>0, SettledStays, AsBefore, InsertedStays
  <2>2. /\ Stored(kind, v)' <=> Matching(table'[kind], v) # {}
        /\ \A k : Stored(k, v)' <=> Matching(table'[k], v) # {}
        /\ Inserted(kind, v)' <=> \E r \in table'[kind] : r.serial = MySerial(v)' /\ r.point = v
        /\ \A k : Inserted(k, v)' <=> \E r \in table'[k] : r.serial = MySerial(v)' /\ r.point = v
    BY <1>0 DEF Stored, Inserted
  <2> QED BY <1>0, <2>1, <2>2
<1>5. CASE v # w
  <2>1. ~Validates(kind, v)
    BY <1>0, <1>3, <1>5 DEF Validates, Validating
  <2> QED BY <1>0, <1>2, <1>3, <1>4, <1>5, <2>1
<1>6. CASE v = w /\ table' = table /\ Passes(w)
  <2>1. ~Validates(kind, v)
    BY <1>0, <1>6 DEF Validates, Validating, Passes
  <2> QED BY <1>0, <1>2, <1>4, <1>6, <2>1 DEF Passes, Existing, Stored
<1>7. ASSUME v = w, NEW k \in Kinds, Adds(k, w)
      PROVE  stage'[v] = "validating" /\ ~Stored(kind, v)' /\ Inserted(kind, v)'
  <2>1. k = kind /\ stage[w] = "computing" /\ stage'[w] = "validating"
    BY <1>0, <1>7, QueueTables DEF Storing
  <2>2. ~Validates(kind, v)
    BY <1>0, <1>7, <2>1 DEF Validates, Validating
  <2>3. Inserted(kind, v)'
    <3>1. Inserted(k, w)'
      BY <1>0, <1>7, <2>1, AddsFacts
    <3> QED BY <1>0, <1>7, <2>1, <3>1 DEF Inserted
  <2> QED BY <1>2, <1>4, <1>7, <2>1, <2>2, <2>3
<1>8. ASSUME v = w, NEW k \in Kinds, Validates(k, w) PROVE stage'[v] = "done" /\ Stored(kind, v)'
  <2>1. k = kind /\ stage'[w] = "done"
    BY <1>0, <1>8, QueueTables DEF Validating
  <2>2. Stored(k, w)'
    BY <1>0, <1>8, <2>1, ValidatesFacts
  <2> QED BY <1>0, <1>8, <2>1, <2>2 DEF Stored
<1> QED BY <1>5, <1>6, <1>7, <1>8, OwnStep

LEMMA CompactionStep ==
    ASSUME Inv, phase = "work", kind = CF, NEW w \in Items, Step(w)
    PROVE  CompactionQueue'
<1>0. /\ w \in Points /\ [Next]_vars /\ Points \subseteq Items
      /\ UNCHANGED <<run, phase, kind, found, config>>
      /\ CF \in Kinds /\ FI \in Kinds /\ SRI \in Kinds
      /\ \A v \in Items : v # w => stage'[v] = stage[v]
  BY StepFacts, KindsDistinct DEF Next, ItemsOf, Items
<1>1. SUFFICES ASSUME NEW p \in Points
               PROVE  /\ Valid(FI, found[p].fi, p)' /\ Valid(SRI, found[p].sri, p)'
                      /\ stage'[p] \in {"idle", "done"} => HasWhole(p)'
                      /\ stage'[p] \in {"queued", "computing", "validating"} => ~HasWhole(p)'
                      /\ stage'[p] = "validating" => InsertedKeyed(p)'
  BY <1>0 DEF CompactionQueue
<1>2. /\ Valid(FI, found[p].fi, p) /\ Valid(SRI, found[p].sri, p)
      /\ stage[p] \in {"idle", "done"} => HasWhole(p)
      /\ stage[p] \in {"queued", "computing", "validating"} => ~HasWhole(p)
      /\ stage[p] = "validating" => InsertedKeyed(p)
  BY DEF Inv, StagedInv, CompactionQueue
<1>3. Valid(FI, found[p].fi, p)' /\ Valid(SRI, found[p].sri, p)'
  BY <1>0, <1>2, SettledStays
<1>4. /\ HasWhole(p) => HasWhole(p)'
      /\ HasWhole(p)' => HasWhole(p) \/ Validates(CF, p)
      /\ InsertedKeyed(p) => InsertedKeyed(p)'
  BY <1>0, HasStays, AsBefore, InsertedStays
<1>5. CASE p # w
  <2>1. ~Validates(CF, p)
    BY <1>0, <1>5, QueueTables DEF Validating
  <2> QED BY <1>0, <1>2, <1>3, <1>4, <1>5, <2>1
<1>6. CASE p = w /\ table' = table /\ Passes(w)
  <2>1. ~Validates(CF, p)
    BY <1>6 DEF Validates, Validating, Passes
  <2>2. Existing(w) # {} => HasWhole(w)
    <3>1. ASSUME NEW c \in Existing(w) PROVE c \in table[CF] /\ Whole(c, w)
      BY <1>2, <1>6, <3>1, KeysAreWhole DEF Existing, Inv, MatchingCompaction
    <3> QED BY <3>1 DEF HasWhole
  <2> QED BY <1>2, <1>3, <1>4, <1>6, <2>1, <2>2 DEF Passes
<1>7. ASSUME p = w, NEW k \in Kinds, Adds(k, w)
      PROVE  stage'[p] = "validating" /\ ~HasWhole(p)' /\ InsertedKeyed(p)'
  <2>1. k = CF /\ stage[w] = "computing" /\ stage'[w] = "validating"
    BY <1>0, <1>7, QueueTables DEF Storing
  <2>2. ~Validates(CF, p)
    BY <1>7, <2>1 DEF Validates, Validating
  <2>3. InsertedKeyed(w)'
    BY <1>0, <1>7, <2>1, AddsFacts
  <2> QED BY <1>2, <1>4, <1>7, <2>1, <2>2, <2>3
<1>8. ASSUME p = w, NEW k \in Kinds, Validates(k, w) PROVE stage'[p] = "done" /\ HasWhole(p)'
  <2>1. k = CF /\ stage'[w] = "done"
    BY <1>0, <1>8, QueueTables DEF Validating
  <2>2. ~config.scalars
    BY KindsDistinct DEF Inv, StagedInv, Reached, Staged
  <2>3. FIKey(w) # NULL /\ SRIKey(w) # NULL
    BY <1>0, <1>2, <1>8, <2>2, ValidFacts DEF FIKey, SRIKey, Inv
  <2> QED BY <1>0, <1>8, <2>1, <2>3, ValidatesFacts
<1> QED BY <1>3, <1>5, <1>6, <1>7, <1>8, OwnStep

\* An item of the unified queue, wherever another one steps
LEMMA UnifiedOther ==
    ASSUME Inv, phase = "pipeline", NEW w \in Items, Step(w), NEW p \in Points, p # w
    PROVE  UnifiedItem(p)'
<1>0. /\ [Next]_vars /\ UNCHANGED found /\ stage'[p] = stage[p] /\ UnifiedItem(p)
      /\ FI \in Kinds /\ SRI \in Kinds /\ FI \in InstantonKinds /\ SRI \in InstantonKinds
      /\ FI # CF /\ SRI # CF /\ p \in Items
  BY StepFacts, KindsDistinct DEF Next, Items, Inv, StagedInv, UnifiedQueue
<1>1. \A k \in Kinds : ~Validates(k, p)
  BY <1>0, QueueTables DEF Validating
<1>2. /\ \A k \in {FI, SRI} : Stored(k, p)' <=> Stored(k, p)
      /\ HasWhole(p)' <=> HasWhole(p)
      /\ HasCompaction(p) => HasCompaction(p)'
  BY <1>0, <1>1, SettledStays, HasStays, AsBefore, KindsDistinct
<1>3. /\ \A k \in {FI, SRI} : \A x : Valid(k, x, p) => Valid(k, x, p)'
      /\ \A k \in {FI, SRI} : Inserted(k, p) => Inserted(k, p)'
      /\ InsertedKeyed(p) => InsertedKeyed(p)'
      /\ FISerial(p)' = FISerial(p) /\ SRISerial(p)' = SRISerial(p) /\ HasCF(p)' = HasCF(p)
  BY <1>0, SettledStays, InsertedStays
<1>4. /\ Stored(FI, p)' <=> Stored(FI, p)
      /\ Stored(SRI, p)' <=> Stored(SRI, p)
      /\ Valid(FI, found[p].fi, p) => Valid(FI, found[p].fi, p)'
      /\ Valid(SRI, found[p].sri, p) => Valid(SRI, found[p].sri, p)'
      /\ Valid(FI, FISerial(p), p) => Valid(FI, FISerial(p), p)'
      /\ Valid(SRI, SRISerial(p), p) => Valid(SRI, SRISerial(p), p)'
      /\ Inserted(FI, p) => Inserted(FI, p)'
      /\ Inserted(SRI, p) => Inserted(SRI, p)'
  BY <1>0, <1>2, <1>3
<1> QED BY <1>0, <1>2, <1>3, <1>4 DEF UnifiedItem

\* ... and where it steps itself
LEMMA UnifiedOwn ==
    ASSUME Inv, phase = "pipeline", NEW p \in Points, Step(p)
    PROVE  UnifiedItem(p)'
<1>0. /\ [Next]_vars /\ UNCHANGED <<phase, found>> /\ UnifiedItem(p) /\ TypeOK
      /\ FI \in Kinds /\ SRI \in Kinds /\ CF \in Kinds
      /\ FI \in InstantonKinds /\ SRI \in InstantonKinds
      /\ FI # SRI /\ FI # CF /\ SRI # CF /\ p \in Items
  BY StepFacts, KindsDistinct DEF Next, Items, Inv, StagedInv, UnifiedQueue
<1>1. /\ FISerial(p)' = FISerial(p) /\ SRISerial(p)' = SRISerial(p) /\ HasCF(p)' = HasCF(p)
      /\ FISerial(p) = IF found[p].fi # NULL THEN found[p].fi ELSE MySerial(p)
      /\ SRISerial(p) = IF found[p].sri # NULL THEN found[p].sri ELSE MySerial(p)
  BY <1>0, InsertedStays DEF FISerial, SRISerial
<1>2. /\ Stored(FI, p)' => Stored(FI, p) \/ Validates(FI, p)
      /\ Stored(SRI, p)' => Stored(SRI, p) \/ Validates(SRI, p)
      /\ HasWhole(p)' => HasWhole(p) \/ Validates(CF, p)
  BY <1>0, AsBefore
<1>3. /\ \A x : Valid(FI, x, p) => Valid(FI, x, p)'
      /\ \A x : Valid(SRI, x, p) => Valid(SRI, x, p)'
      /\ Stored(FI, p) => Stored(FI, p)'
      /\ Stored(SRI, p) => Stored(SRI, p)'
  BY <1>0, SettledStays
<1>4. /\ found[p].fi # NULL => Valid(FI, found[p].fi, p)'
      /\ found[p].sri # NULL => Valid(SRI, found[p].sri, p)'
  BY <1>0, <1>3 DEF UnifiedItem
<1>5. /\ Valid(FI, FISerial(p), p) => Valid(FI, FISerial(p), p)' /\ Stored(FI, p)'
      /\ Valid(SRI, SRISerial(p), p) => Valid(SRI, SRISerial(p), p)' /\ Stored(SRI, p)'
  BY <1>0, <1>1, <1>3, ValidFacts
<1>6. CASE table' = table /\ Passes(p)
  <2>1. ~Validates(FI, p) /\ ~Validates(SRI, p) /\ ~Validates(CF, p)
    BY <1>0, <1>6 DEF Validates, Validating, Passes
  <2>2. CASE stage[p] = "queued" /\ stage'[p] = "computing"
    BY <1>0, <1>1, <1>2, <1>4, <2>1, <2>2 DEF UnifiedItem
  <2>3. CASE stage[p] = "computing" /\ found[p].fi # NULL /\ stage'[p] = "storingSRI"
    <3>1. Valid(FI, FISerial(p), p)'
      BY <1>0, <1>1, <1>4, <2>3
    <3> QED BY <1>0, <1>1, <1>2, <1>4, <2>1, <2>3, <3>1 DEF UnifiedItem
  <2>4. CASE stage[p] = "storingSRI" /\ found[p].sri # NULL /\ stage'[p] = "storingCF"
    <3>1. Valid(SRI, SRISerial(p), p)' /\ Valid(FI, FISerial(p), p)'
      BY <1>0, <1>1, <1>4, <1>5, <2>4 DEF UnifiedItem
    <3> QED BY <1>0, <1>1, <1>2, <1>4, <2>1, <2>4, <3>1 DEF UnifiedItem
  <2>5. CASE stage[p] = "storingCF" /\ ~HasCF(p) /\ stage'[p] = "done"
    <3>1. Stored(FI, p)' /\ Stored(SRI, p)'
      BY <1>0, <1>5, <2>5 DEF UnifiedItem
    <3> QED BY <1>0, <1>1, <1>4, <2>5, <3>1 DEF UnifiedItem
  <2> QED BY <1>6, <2>2, <2>3, <2>4, <2>5 DEF Passes
<1>7. ASSUME NEW k \in Kinds, Adds(k, p) PROVE UnifiedItem(p)'
  <2>0. Storing(k, p) /\ IF k = CF THEN InsertedKeyed(p)' ELSE Inserted(k, p)'
    BY <1>0, <1>7, AddsFacts, QueueTables
  <2>1. ~Validates(FI, p) /\ ~Validates(SRI, p) /\ ~Validates(CF, p)
    BY <1>0, <2>0 DEF Validates, Validating, Storing
  <2>2. CASE k = FI
    <3>1. found[p].fi = NULL /\ stage[p] = "computing" /\ stage'[p] = "validatingFI"
      BY <1>0, <2>0, <2>2 DEF Storing
    <3>2. Inserted(FI, p)'
      BY <1>0, <2>0, <2>2
    <3> QED BY <1>0, <1>1, <1>2, <1>4, <2>1, <3>1, <3>2 DEF UnifiedItem
  <2>3. CASE k = SRI
    <3>1. found[p].sri = NULL /\ stage[p] = "storingSRI" /\ stage'[p] = "validatingSRI"
      BY <1>0, <2>0, <2>3 DEF Storing
    <3>2. Inserted(SRI, p)'
      BY <1>0, <2>0, <2>3
    <3>3. Valid(FI, FISerial(p), p)'
      BY <1>0, <1>5, <3>1 DEF UnifiedItem
    <3> QED BY <1>0, <1>1, <1>2, <1>4, <2>1, <3>1, <3>2, <3>3 DEF UnifiedItem
  <2>4. CASE k = CF
    <3>1. HasCF(p) /\ stage[p] = "storingCF" /\ stage'[p] = "validatingCF"
      BY <1>0, <2>0, <2>4 DEF Storing
    <3>2. InsertedKeyed(p)'
      BY <2>0, <2>4
    <3>3. Valid(FI, FISerial(p), p)' /\ Valid(SRI, SRISerial(p), p)'
      BY <1>0, <1>5, <3>1 DEF UnifiedItem
    <3> QED BY <1>0, <1>1, <1>2, <1>4, <2>1, <3>1, <3>2, <3>3 DEF UnifiedItem
  <2> QED BY <1>0, <2>0, <2>2, <2>3, <2>4 DEF Storing
<1>8. ASSUME NEW k \in Kinds, Validates(k, p) PROVE UnifiedItem(p)'
  <2>0. /\ Validating(k, p)
        /\ k # CF => Valid(k, MySerial(p), p)'
        /\ k = CF => HasCompaction(p)'
    BY <1>0, <1>8, ValidatesFacts, QueueTables
  <2>2. CASE k = FI
    <3>1. stage[p] = "validatingFI" /\ stage'[p] = "storingSRI" /\ found[p].fi = NULL
      BY <1>0, <2>0, <2>2 DEF Validating, UnifiedItem
    <3>2. ~Validates(SRI, p) /\ ~Validates(CF, p)
      BY <1>0, <3>1 DEF Validates, Validating
    <3>3. Valid(FI, FISerial(p), p)'
      <4>1. Valid(FI, MySerial(p), p)' /\ MySerial(p)' = MySerial(p)
        BY <1>0, <1>8, <2>0, <2>2, QueueTables DEF MySerial
      <4> QED BY <1>1, <3>1, <4>1
    <3> QED BY <1>0, <1>1, <1>2, <1>4, <3>1, <3>2, <3>3 DEF UnifiedItem
  <2>3. CASE k = SRI
    <3>1. stage[p] = "validatingSRI" /\ stage'[p] = "storingCF" /\ found[p].sri = NULL
      BY <1>0, <2>0, <2>3 DEF Validating, UnifiedItem
    <3>2. ~Validates(CF, p)
      BY <1>0, <3>1 DEF Validates, Validating
    <3>3. Valid(SRI, SRISerial(p), p)'
      <4>1. Valid(SRI, MySerial(p), p)' /\ MySerial(p)' = MySerial(p)
        BY <1>0, <1>8, <2>0, <2>3, QueueTables DEF MySerial
      <4> QED BY <1>1, <3>1, <4>1
    <3>4. Valid(FI, FISerial(p), p)'
      BY <1>0, <1>5, <3>1 DEF UnifiedItem
    <3> QED BY <1>0, <1>1, <1>2, <1>4, <3>1, <3>2, <3>3, <3>4 DEF UnifiedItem
  <2>4. CASE k = CF
    <3>1. stage[p] = "validatingCF" /\ stage'[p] = "done"
      BY <1>0, <2>0, <2>4 DEF Validating
    <3>2. HasCompaction(p)' /\ Stored(FI, p)' /\ Stored(SRI, p)'
      BY <1>0, <1>5, <2>0, <2>4, <3>1 DEF UnifiedItem
    <3> QED BY <1>0, <1>1, <1>4, <3>1, <3>2 DEF UnifiedItem
  <2> QED BY <1>0, <2>0, <2>2, <2>3, <2>4 DEF Validating
<1> QED BY <1>0, <1>6, <1>7, <1>8, OwnStep

-----------------------------------------------------------------------------
(***************************************************************************)
(* The queues, whatever the step.                                          *)
(***************************************************************************)
LEMMA InstantonQueueKept ==
    ASSUME Inv, [Next]_vars
    PROVE  InstantonQueue'
<1>0. InstantonQueue /\ kind \in Kinds
  BY DEF Inv, StagedInv, TypeOK
<1>1. ASSUME phase' # "work" \/ kind' = CF PROVE InstantonQueue'
  BY <1>1 DEF InstantonQueue
<1>2. ASSUME Advance PROVE phase' # "work"
  BY <1>0, <1>2, AdvanceFacts
<1>3. CASE Open
  BY <1>1, <1>3, OpenFacts
<1>4. CASE LookupInstantons
  <2>1. CASE /\ phase' = "work" /\ kind' = kind
             /\ \A w \in Items : stage'[w] =
                   IF w \in ItemsOf(kind) /\ ~Stored(kind, w) THEN "queued" ELSE "idle"
    <3>1. \A w \in ItemsOf(kind) : /\ w \in Items
                                   /\ stage'[w] \in {"queued", "idle"}
                                   /\ stage'[w] = "idle" => Stored(kind, w)'
      BY <1>0, <2>1, SettledStays DEF ItemsOf, Items
    <3>2. ItemsOf(kind)' = ItemsOf(kind) /\ kind' = kind
      BY <2>1 DEF ItemsOf
    <3> QED BY <2>1, <3>1, <3>2 DEF InstantonQueue
  <2> QED BY <1>1, <1>2, <1>4, <2>1, LookupInstantonsFacts
<1>5. CASE LookupCompactions
  BY <1>1, <1>2, <1>5, LookupCompactionsFacts, QueueMissingFacts
<1>6. CASE LookupPipeline
  BY <1>1, <1>2, <1>6, LookupPipelineFacts, QueueMissingFacts
<1>7. CASE Populate
  BY <1>1, <1>7, PopulateFacts
<1>8. CASE FetchSeeds
  BY <1>1, <1>8, FetchSeedsFacts
<1>9. CASE QueueDone
  BY <1>1, <1>2, <1>9, QueueDoneFacts
<1>10. CASE Exit \/ Kill
  BY <1>1, <1>10, DownFacts
<1>11. ASSUME NEW w \in Items, Step(w) PROVE InstantonQueue'
  BY <1>1, <1>11, InstantonStep, StepFacts
<1>12. CASE UNCHANGED vars
  BY <1>0, <1>12 DEF vars, InstantonQueue, Stored, Inserted, MySerial, ItemsOf
<1> QED BY <1>3, <1>4, <1>5, <1>6, <1>7, <1>8, <1>9, <1>10, <1>11, <1>12 DEF Next, Driver

LEMMA CompactionQueueKept ==
    ASSUME Inv, [Next]_vars
    PROVE  CompactionQueue'
<1>0. CompactionQueue /\ kind \in Kinds /\ FI \in Kinds /\ SRI \in Kinds
  BY KindsDistinct DEF Inv, StagedInv, TypeOK
<1>1. ASSUME phase' \notin {"populate", "work"} \/ kind' # CF PROVE CompactionQueue'
  BY <1>1 DEF CompactionQueue
<1>2. ASSUME Advance PROVE phase' \notin {"populate", "work"}
  BY <1>0, <1>2, AdvanceFacts
<1>3. CASE Open
  BY <1>1, <1>3, OpenFacts
<1>4. CASE LookupInstantons
  BY <1>1, <1>2, <1>4, LookupInstantonsFacts
<1>5. CASE LookupCompactions
  <2>1. CASE phase' = "populate" /\ \A p \in Points : stage'[p] = IF HasWhole(p) THEN "idle" ELSE "queued"
    <3>1. table' = table /\ \A p \in Points : found'[p] = SerialsFound(p)
      BY <1>5, LookupCompactionsFacts, QueueMissingFacts
    <3>2. \A p : HasWhole(p)' <=> HasWhole(p)
      BY <3>1 DEF HasWhole, Whole, BelongsTo, Valid, Stored
    <3>3. \A p \in Points : Valid(FI, SerialsFound(p).fi, p) /\ Valid(SRI, SerialsFound(p).sri, p)
      BY <1>5, LookupCompactionsFacts, SerialsFoundFacts
    <3>4. \A p \in Points : Valid(FI, found[p].fi, p)' /\ Valid(SRI, found[p].sri, p)'
      BY <3>1, <3>3 DEF Valid
    <3> QED BY <2>1, <3>2, <3>4 DEF CompactionQueue
  <2> QED BY <1>1, <1>2, <1>5, <2>1, LookupCompactionsFacts, QueueMissingFacts
<1>6. CASE LookupPipeline
  BY <1>1, <1>2, <1>6, LookupPipelineFacts, QueueMissingFacts
<1>7. CASE Populate
  <2>1. CASE phase' = "raised"
    BY <1>1, <2>1
  <2>2. CASE phase' = "work"
    <3>1. phase = "populate" /\ kind = CF /\ kind' = kind /\ UNCHANGED <<table, found, stage>>
      BY <1>7, PopulateFacts
    <3>2. \A p \in Points : stage[p] \in {"idle", "queued"}
      BY <3>1 DEF Inv, StagedInv, AtRest, Items
    <3>3. \A p : HasWhole(p)' <=> HasWhole(p)
      BY <3>1 DEF HasWhole, Whole, BelongsTo, Valid, Stored
    <3>4. \A p \in Points : Valid(FI, found[p].fi, p)' /\ Valid(SRI, found[p].sri, p)'
      BY <1>0, <3>1 DEF CompactionQueue, Valid
    <3> QED BY <1>0, <2>2, <3>1, <3>2, <3>3, <3>4 DEF CompactionQueue
  <2> QED BY <1>7, <2>1, <2>2, PopulateFacts
<1>8. CASE FetchSeeds
  BY <1>1, <1>8, FetchSeedsFacts
<1>9. CASE QueueDone
  BY <1>1, <1>2, <1>9, QueueDoneFacts
<1>10. CASE Exit \/ Kill
  BY <1>1, <1>10, DownFacts
<1>11. ASSUME NEW w \in Items, Step(w) PROVE CompactionQueue'
  BY <1>1, <1>11, CompactionStep, StepFacts
<1>12. CASE UNCHANGED vars
  <2>1. \A p : HasWhole(p)' <=> HasWhole(p)
    BY <1>12 DEF vars, HasWhole, Whole, BelongsTo, Valid, Stored
  <2>2. \A p : InsertedKeyed(p)' <=> InsertedKeyed(p)
    BY <1>12 DEF vars, InsertedKeyed, MySerial, FIKey, SRIKey, FISerial, SRISerial
  <2> QED BY <1>0, <1>12, <2>1, <2>2 DEF vars, CompactionQueue, Valid
<1> QED BY <1>3, <1>4, <1>5, <1>6, <1>7, <1>8, <1>9, <1>10, <1>11, <1>12 DEF Next, Driver

\* What the look-up of the unified queue tells of an item
LEMMA UnifiedLookedUp ==
    ASSUME Inv, LookupPipeline, phase' = "pipeline", NEW p \in Points
    PROVE  UnifiedItem(p)'
<1>0. UNCHANGED <<table, run, result>> /\ kind \in Kinds
  BY LookupPipelineFacts DEF Inv, TypeOK
<1>1. /\ found'[p] = SerialsFound(p)
      /\ stage'[p] = IF HasWhole(p) THEN "idle" ELSE "queued"
  BY <1>0, LookupPipelineFacts, QueueMissingFacts, AdvanceFacts
<1>2. /\ \A k, x : Valid(k, x, p)' <=> Valid(k, x, p)
      /\ \A k : Stored(k, p)' <=> Stored(k, p)
      /\ HasWhole(p)' <=> HasWhole(p)
      /\ HasCompaction(p)' <=> HasCompaction(p)
  BY <1>0 DEF HasWhole, HasCompaction, Whole, BelongsTo, Valid, Stored
<1>3. /\ Stored(FI, p)' <=> Stored(FI, p)
      /\ Stored(SRI, p)' <=> Stored(SRI, p)
      /\ Valid(FI, found[p].fi, p)' <=> Valid(FI, SerialsFound(p).fi, p)
      /\ Valid(SRI, found[p].sri, p)' <=> Valid(SRI, SerialsFound(p).sri, p)
  BY <1>0, <1>1, <1>2 DEF Valid
<1>4. HasWhole(p) => HasCompaction(p) /\ Stored(FI, p) /\ Stored(SRI, p)
  BY DEF HasWhole, HasCompaction, Whole, BelongsTo
<1>5. /\ found'[p].fi # NULL => Valid(FI, SerialsFound(p).fi, p)
      /\ found'[p].sri # NULL => Valid(SRI, SerialsFound(p).sri, p)
      /\ found'[p].fi = NULL => ~Stored(FI, p)
      /\ found'[p].sri = NULL => ~Stored(SRI, p)
  BY <1>1, SerialsFoundFacts, ValidFacts, KindsDistinct DEF Inv
<1> QED BY <1>1, <1>2, <1>3, <1>4, <1>5 DEF UnifiedItem

LEMMA UnifiedQueueKept ==
    ASSUME Inv, [Next]_vars
    PROVE  UnifiedQueue'
<1>0. UnifiedQueue /\ kind \in Kinds
  BY DEF Inv, StagedInv, TypeOK
<1>1. ASSUME phase' # "pipeline" PROVE UnifiedQueue'
  BY <1>1 DEF UnifiedQueue
<1>2. ASSUME Advance PROVE phase' # "pipeline"
  BY <1>0, <1>2, AdvanceFacts
<1>3. CASE Open
  BY <1>1, <1>3, OpenFacts
<1>4. CASE LookupInstantons
  BY <1>1, <1>2, <1>4, LookupInstantonsFacts
<1>5. CASE LookupCompactions
  BY <1>1, <1>2, <1>5, LookupCompactionsFacts, QueueMissingFacts
<1>6. CASE LookupPipeline
  BY <1>1, <1>6, UnifiedLookedUp DEF UnifiedQueue
<1>7. CASE Populate
  BY <1>1, <1>7, PopulateFacts
<1>8. CASE FetchSeeds
  BY <1>1, <1>8, FetchSeedsFacts
<1>9. CASE QueueDone
  BY <1>1, <1>2, <1>9, QueueDoneFacts
<1>10. CASE Exit \/ Kill
  BY <1>1, <1>10, DownFacts
<1>11. ASSUME NEW w \in Items, Step(w) PROVE UnifiedQueue'
  <2>1. CASE phase = "pipeline"
    <3>1. \A p \in Points : UnifiedItem(p)'
      BY <1>11, <2>1, UnifiedOwn, UnifiedOther
    <3> QED BY <3>1 DEF UnifiedQueue
  <2> QED BY <1>1, <1>11, <2>1, StepFacts
<1>12. CASE UNCHANGED vars
  <2>1. ASSUME NEW p \in Points, UnifiedItem(p) PROVE UnifiedItem(p)'
    BY <1>12, <2>1 DEF vars, UnifiedItem, HasWhole, HasCompaction, Whole, BelongsTo, Valid, Stored,
       Inserted, InsertedKeyed, MySerial, FIKey, SRIKey, FISerial, SRISerial, HasCF
  <2>2. phase' = phase
    BY <1>12 DEF vars
  <2> QED BY <1>0, <2>1, <2>2 DEF UnifiedQueue
<1> QED BY <1>3, <1>4, <1>5, <1>6, <1>7, <1>8, <1>9, <1>10, <1>11, <1>12 DEF Next, Driver

-----------------------------------------------------------------------------
(***************************************************************************)
(* What has been brought to its end.                                       *)
(***************************************************************************)
LEMMA CompletedStays ==
    ASSUME UNCHANGED config
    PROVE  Completed' = Completed
BY DEF Completed

\* What its homogeneous branch was asked for
BranchDone == IF config.scalars THEN ScalarsDone ELSE HomogeneousDone

\* The queue of the compaction functions is worked off, or there is none
CompactionsDone ==
    kind = CF => /\ phase = "work" \/ phase = "lookup" => \A p \in Points : HasWhole(p)
                 /\ phase \in Unified => ScalarsDone

LEMMA WholeIsDone ==
    ASSUME \A p \in Points : HasWhole(p)
    PROVE  ScalarsDone
BY DEF HasWhole, Whole, HasCompaction, BelongsTo, ScalarsDone

\* A homogeneous branch that is left for the gradient one, or for good, is complete or stopped
LEMMA HomogeneousEnds ==
    ASSUME Inv, [Next]_vars, Advance, UNCHANGED <<config, result>>,
           phase \in {"lookup", "work", "pipelineLookup", "pipeline"},
           phase' # "lookup", CompactionsDone, "homogeneous" \in Completed'
    PROVE  BranchDone'
<1>0. kind \in Kinds /\ "homogeneous" \in Completed
  BY CompletedStays DEF Inv, TypeOK
<1>1. BranchDone => BranchDone'
  BY DoneStays DEF BranchDone
<1>2. CASE kind = GCI
  <2>1. BranchDone
    BY <1>0, <1>2 DEF Inv, StagedInv, Brought, BranchDone
  <2> QED BY <1>1, <2>1
<1>3. CASE kind = CF
  <2>1. CASE phase \in Unified
    <3>1. config.scalars /\ ScalarsDone
      BY <1>3, <2>1 DEF CompactionsDone, Inv, StagedInv, Reached
    <3> QED BY <1>1, <3>1 DEF BranchDone
  <2>2. CASE phase \notin Unified
    <3>1. ~config.scalars
      BY <1>3, <2>2, KindsDistinct DEF Inv, StagedInv, Reached, Staged, Unified
    <3>2. HomogeneousDone
      BY <1>3, <2>2
         DEF CompactionsDone, HomogeneousDone, HasWhole, Whole, BelongsTo, Unified
    <3> QED BY <1>1, <3>1, <3>2 DEF BranchDone
  <2> QED BY <2>1, <2>2
<1>4. kind \notin {FI, SRI}
  <2>1. ASSUME kind \in {FI, SRI} PROVE ~config.scalars
    <3>1. phase \in Staged /\ kind # GCI
      BY <2>1, KindsDistinct DEF Staged, Unified, Inv, StagedInv, Reached
    <3> QED BY <3>1 DEF Inv, StagedInv, Reached
  <2> QED BY <1>0, <2>1, AdvanceFacts
<1> QED BY <1>0, <1>2, <1>3, <1>4, KindsDistinct

\* ... and at the end so is the gradient branch
LEMMA GradientEnds ==
    ASSUME Inv, [Next]_vars, Advance, UNCHANGED <<config, result>>, kind # CF => AllFound,
           phase' = "finished", "gradient" \in Completed'
    PROVE  GradientDone'
<1>0. kind \in Kinds /\ "gradient" \in config.targets
  BY CompletedStays DEF Inv, TypeOK, Completed
<1>1. kind = GCI
  BY <1>0, AdvanceFacts
<1>2. GradientDone
  BY <1>1, KindsDistinct DEF AllFound, GradientDone, ItemsOf
<1> QED BY <1>2, DoneStays

LEMMA BroughtKept ==
    ASSUME Inv, [Next]_vars
    PROVE  Brought'
<1>0. Brought /\ kind \in Kinds
  BY DEF Inv, StagedInv, TypeOK
<1> DEFINE HDone == /\ phase = "finished" \/ (phase # "down" /\ kind = GCI)
                    /\ "homogeneous" \in Completed
                    => BranchDone
           GDone == phase = "finished" /\ "gradient" \in Completed => GradientDone
<1>01. Brought <=> /\ HDone /\ GDone
                   /\ "homogeneous" \in settled => HomogeneousDone
                   /\ "gradient" \in settled => GradientDone
  BY DEF Brought, BranchDone
<1>02. Brought' <=> /\ HDone' /\ GDone'
                    /\ "homogeneous" \in settled' => HomogeneousDone'
                    /\ "gradient" \in settled' => GradientDone'
  BY DEF Brought, BranchDone
<1>1. ASSUME UNCHANGED <<settled, result>>, HDone', GDone' PROVE Brought'
  BY <1>0, <1>01, <1>02, <1>1, DoneStays
<1>2. ASSUME UNCHANGED <<config, kind, settled, result>>, phase # "down",
             phase' = "finished" => phase = "finished"
      PROVE  Brought'
  <2>0. Completed' = Completed /\ (BranchDone => BranchDone') /\ (GradientDone => GradientDone')
    BY <1>2, DoneStays, CompletedStays DEF BranchDone
  <2>1. HDone' /\ GDone'
    BY <1>0, <1>01, <1>2, <2>0
  <2> QED BY <1>1, <1>2, <2>1
<1>3. ASSUME Advance, UNCHANGED <<config, settled, result>>,
             phase \in {"lookup", "work", "pipelineLookup", "pipeline"},
             kind # CF => AllFound, CompactionsDone
      PROVE  Brought'
  <2>1. HDone'
    <3>1. CASE phase' = "lookup"
      BY <1>0, <1>3, <3>1, AdvanceFacts, KindsDistinct
    <3>2. CASE phase' # "lookup"
      BY <1>3, <3>2, HomogeneousEnds
    <3> QED BY <3>1, <3>2
  <2>2. GDone'
    BY <1>3, GradientEnds
  <2> QED BY <1>1, <1>3, <2>1, <2>2
<1>4. CASE Open
  <2>1. HDone' /\ GDone'
    BY <1>4, OpenFacts, KindsDistinct
  <2> QED BY <1>1, <1>4, <2>1, OpenFacts
<1>5. CASE LookupInstantons
  <2>1. CASE Advance /\ AllFound
    BY <1>3, <1>5, <2>1, LookupInstantonsFacts DEF CompactionsDone
  <2> QED BY <1>2, <1>5, <2>1, LookupInstantonsFacts
<1>6. CASE LookupCompactions
  <2>1. CASE phase' = "populate" /\ kind' = CF
    BY <1>2, <1>6, <2>1, LookupCompactionsFacts
  <2>2. CASE Advance /\ \A p \in Points : HasWhole(p)
    BY <1>3, <1>6, <2>2, WholeIsDone, LookupCompactionsFacts DEF CompactionsDone
  <2> QED BY <1>6, <2>1, <2>2, LookupCompactionsFacts, QueueMissingFacts
<1>7. CASE LookupPipeline
  <2>1. CASE phase' = "pipeline" /\ kind' = CF
    BY <1>2, <1>7, <2>1, LookupPipelineFacts
  <2>2. CASE Advance /\ \A p \in Points : HasWhole(p)
    BY <1>3, <1>7, <2>2, WholeIsDone, LookupPipelineFacts DEF CompactionsDone
  <2> QED BY <1>7, <2>1, <2>2, LookupPipelineFacts, QueueMissingFacts
<1>8. CASE Populate
  BY <1>2, <1>8, PopulateFacts
<1>9. CASE FetchSeeds
  BY <1>2, <1>9, FetchSeedsFacts
<1>10. CASE QueueDone
  <2>1. CompactionsDone
    <3>1. /\ kind = CF => ItemsOf(kind) = Points
          /\ phase \in {"work", "pipeline"}
          /\ \A w \in ItemsOf(kind) : stage[w] \in {"idle", "done"}
      BY <1>10, QueueDoneFacts, ItemsFacts
    <3>2. kind = CF /\ phase = "work" => \A p \in Points : HasWhole(p)
      BY <3>1 DEF Inv, StagedInv, CompactionQueue
    <3>3. kind = CF /\ phase = "pipeline" => ScalarsDone
      BY <3>1 DEF Inv, StagedInv, UnifiedQueue, UnifiedItem, ScalarsDone
    <3> QED BY <3>1, <3>2, <3>3 DEF CompactionsDone, Unified
  <2> QED BY <1>3, <1>10, <2>1, QueueDoneFacts
<1>11. CASE Exit \/ Kill
  <2>1. HDone' /\ GDone' /\ result' = result
    BY <1>11, DownFacts
  <2>2. CASE settled' = settled
    BY <1>1, <2>1, <2>2
  <2>3. CASE phase = "finished" /\ settled' = settled \cup Lasting
    <3>1. "homogeneous" \in Lasting => "homogeneous" \in Completed /\ ~config.scalars
      BY DEF Lasting
    <3>2. "gradient" \in Lasting => "gradient" \in Completed
      BY DEF Lasting
    <3>3. /\ "homogeneous" \in settled' => HomogeneousDone
          /\ "gradient" \in settled' => GradientDone
      BY <1>0, <1>01, <2>3, <3>1, <3>2 DEF BranchDone
    <3> QED BY <1>02, <2>1, <3>3, DoneStays
  <2> QED BY <1>11, <2>2, <2>3, DownFacts
<1>12. ASSUME NEW w \in Items, Step(w) PROVE Brought'
  BY <1>2, <1>12, StepFacts
<1>13. CASE UNCHANGED vars
  <2>1. UNCHANGED <<config, kind, settled, result, phase>>
    BY <1>13 DEF vars
  <2>2. Completed' = Completed /\ (BranchDone => BranchDone') /\ (GradientDone => GradientDone')
    BY <2>1, DoneStays, CompletedStays DEF BranchDone
  <2>3. HDone' /\ GDone'
    BY <1>0, <1>01, <2>1, <2>2
  <2> QED BY <1>1, <2>1, <2>3
<1> QED BY <1>4, <1>5, <1>6, <1>7, <1>8, <1>9, <1>10, <1>11, <1>12, <1>13 DEF Next, Driver

-----------------------------------------------------------------------------
LEMMA InitInv == Init => Inv
<1> SUFFICES ASSUME Init PROVE Inv
  OBVIOUS
<1>1. /\ \A k \in Kinds : table[k] = {}
      /\ table = [k \in Kinds |-> {}]
      /\ run = 0 /\ phase = "down" /\ settled = {} /\ \A w \in Items : stage[w] = "idle"
  BY DEF Init, NothingQueued
<1>2. TypeOK
  <2>1. found \in [Points -> [fi : Refs, sri : Refs]] /\ stage \in [Items -> Stages]
    BY DEF Init, NothingFound, NothingQueued, Refs, Stages
  <2> QED BY <1>1, <2>1, StagedAssumption, KindsDistinct DEF Init, TypeOK, Phases
<1>3. Provenance /\ OneRow /\ CompactionsBelong /\ OneWhole
  BY <1>1, KindsDistinct
     DEF Provenance, OneRow, CompactionsBelong, OneWhole, Matching, Ambiguous
<1>4. /\ Fresh /\ AtRest /\ Reached /\ InstantonQueue /\ CompactionQueue /\ UnifiedQueue
      /\ Brought /\ RaisesOnScalarRowsOnly
  BY <1>1 DEF Fresh, AtRest, Reached, InstantonQueue, CompactionQueue, UnifiedQueue, Brought,
     RaisesOnScalarRowsOnly, Busy, Staged, Unified
<1> QED BY <1>2, <1>3, <1>4 DEF Inv, StagedInv

LEMMA Invariance == Spec => []Inv
<1>1. Inv /\ [Next]_vars => Inv'
  BY TypeKept, ProvenanceKept, OneRowKept, CompactionsBelongKept, OneWholeKept, FreshKept,
     AtRestKept, ReachedKept, InstantonQueueKept, CompactionQueueKept, UnifiedQueueKept,
     BroughtKept, RaisesKept
     DEF Inv, StagedInv
<1> QED BY <1>1, InitInv, PTL DEF Spec

(***************************************************************************)
(* Tables, queues and what was looked up have their types, over every      *)
(* sequence of runs of both modes.                                         *)
(***************************************************************************)
THEOREM TypeCorrect == Spec => []TypeOK
<1>1. Inv => TypeOK
  BY DEF Inv
<1> QED BY <1>1, Invariance, PTL

(***************************************************************************)
(* A run that ends regularly has every point settled in the branches it    *)
(* was not told to stop, whatever runs of either mode have stored before   *)
(* it and wherever they were killed.                                       *)
(***************************************************************************)
THEOREM CompleteAtTheEnd == Spec => []FinishedIsComplete
<1>1. ASSUME Inv PROVE FinishedIsComplete
  <2>1. ASSUME NEW p, HasCompaction(p) PROVE CompactionOf(p) # {}
    <3>1. PICK c \in table[CF] : c.validated /\ BelongsTo(c, p)
      BY <2>1 DEF HasCompaction
    <3>2. c \in CompactionOf(p)
      BY <3>1 DEF BelongsTo, Valid, Matching, CompactionOf
    <3> QED BY <3>2
  <2>2. \A p : HasWhole(p) => HasCompaction(p)
    BY DEF HasWhole, HasCompaction, Whole
  <2>3. phase = "finished" /\ "homogeneous" \in Completed =>
           IF config.scalars THEN ScalarsDone ELSE HomogeneousDone
    BY <1>1 DEF Inv, StagedInv, Brought
  <2>4. phase = "finished" /\ "gradient" \in Completed => GradientDone
    BY <1>1 DEF Inv, StagedInv, Brought
  <2>5. ASSUME phase = "finished", "homogeneous" \in Completed, NEW p \in Points
        PROVE  /\ Matching(table[FI], p) # {} /\ Matching(table[SRI], p) # {}
               /\ HasCF(p) \/ ~config.scalars => CompactionOf(p) # {}
    BY <2>1, <2>2, <2>3, <2>5 DEF ScalarsDone, HomogeneousDone, Stored
  <2> QED BY <2>4, <2>5 DEF FinishedIsComplete, GradientDone, Stored
<1> QED BY <1>1, Invariance, PTL

(***************************************************************************)
(* A compaction function never names an instanton that is gone or not      *)
(* validated, and of those that name both instantons of a point at most    *)
(* one is validated, however runs of both modes and kills alternate.       *)
(***************************************************************************)
THEOREM CompactionsAlwaysSound == Spec => []CompactionsSound
<1>1. ASSUME Inv PROVE CompactionsSound
  <2>0. /\ Provenance /\ TypeOK /\ FI \in InstantonKinds /\ SRI \in InstantonKinds
        /\ InstantonKinds \subseteq Kinds
    BY <1>1, KindsDistinct DEF Inv, StagedInv
  <2>1. ASSUME NEW c \in table[CF]
        PROVE  /\ c.fi # NULL => \E r \in table[FI] : r.validated /\ r.serial = c.fi
               /\ c.sri # NULL => \E r \in table[SRI] : r.validated /\ r.serial = c.sri
    BY <1>1 DEF Inv, StagedInv, CompactionsBelong, BelongsTo, Valid
  <2>2. ASSUME NEW p \in Points, NEW c \in CompactionOf(p), NamesBoth(c)
        PROVE  c \in table[CF] /\ Whole(c, p)
    <3>1. c \in table[CF] /\ c.validated
      BY DEF CompactionOf
    <3>2. PICK q \in Points : BelongsTo(c, q)
      BY <1>1, <3>1 DEF Inv, StagedInv, CompactionsBelong
    <3>3. Valid(FI, c.fi, p) \/ Valid(SRI, c.sri, p)
      BY <2>0 DEF CompactionOf, Matching, Valid
    <3>4. p = q
      BY <2>0, <2>2, <3>2, <3>3, OnePoint DEF BelongsTo, NamesBoth
    <3> QED BY <2>2, <3>1, <3>2, <3>4 DEF Whole
  <2>3. ASSUME NEW p \in Points PROVE ~Ambiguous({c \in CompactionOf(p) : NamesBoth(c)})
    BY <1>1, <2>2 DEF Inv, StagedInv, OneWhole, Ambiguous
  <2> QED BY <2>1, <2>3 DEF CompactionsSound
<1> QED BY <1>1, Invariance, PTL

(***************************************************************************)
(* No look-up finds two rows: a run raises only where it wants the values  *)
(* of an instanton that a scalar run has stored without them.              *)
(***************************************************************************)
THEOREM OnlyScalarRowsRaise == Spec => []RaisesOnScalarRowsOnly
<1>1. Inv => RaisesOnScalarRowsOnly
  BY DEF Inv, StagedInv
<1> QED BY <1>1, Invariance, PTL

\* No step adds a serial where a target is settled
SettledSerialsStand ==
    /\ "homogeneous" \in settled => \A k \in {FI, SRI, CF} : SerialsOf(k)' \subseteq SerialsOf(k)
    /\ "gradient" \in settled => SerialsOf(GCI)' \subseteq SerialsOf(GCI)

\* An item stores an object only where the point or the seed has none that counts
LEMMA OnlyTheMissing ==
    ASSUME Inv, NEW k \in Kinds, NEW w \in Items, Adds(k, w)
    PROVE  /\ w \in ItemsOf(k)
           /\ IF k = CF THEN ~HasWhole(w) ELSE ~Stored(k, w)
<1>0. Storing(k, w) /\ w \in ItemsOf(k) /\ phase \in {"work", "pipeline"}
  BY QueueTables
<1>1. CASE phase = "work"
  BY <1>0, <1>1, ItemsFacts DEF Storing, Inv, StagedInv, InstantonQueue, CompactionQueue
<1>2. CASE phase = "pipeline"
  <2>1. w \in Points /\ UnifiedItem(w)
    BY <1>0, <1>2, ItemsFacts DEF Storing, Inv, StagedInv, UnifiedQueue
  <2> QED BY <1>0, <1>2, <2>1, KindsDistinct DEF Storing, UnifiedItem
<1> QED BY <1>0, <1>1, <1>2

(***************************************************************************)
(* What a completed run has settled is never computed again, by whatever   *)
(* run of either mode, failures included.                                  *)
(***************************************************************************)
THEOREM NothingSettledIsComputed == Spec => SettledStoresNothing
<1>1. ASSUME Inv, [Next]_vars PROVE SettledSerialsStand
  <2>1. ASSUME NEW k \in Kinds, \A w \in Items : ~Adds(k, w)
        PROVE  \A q \in table'[k] : \E r \in table[k] : q.serial = r.serial
    BY <1>1, <2>1, RowsCome DEF Content
  <2>2. "homogeneous" \in settled => \A k \in {FI, SRI, CF}, w \in Items : ~Adds(k, w)
    BY <1>1, OnlyTheMissing, ItemsFacts, KindsDistinct
       DEF Inv, StagedInv, Brought, HomogeneousDone
  <2>3. "gradient" \in settled => \A w \in Items : ~Adds(GCI, w)
    BY <1>1, OnlyTheMissing, ItemsFacts, KindsDistinct DEF Inv, StagedInv, Brought, GradientDone
  <2>4. \A k \in Kinds : (\A q \in table'[k] : \E r \in table[k] : q.serial = r.serial) =>
                         {r.serial : r \in table'[k]} \subseteq {r.serial : r \in table[k]}
    OBVIOUS
  <2>5. "homogeneous" \in settled => \A k \in {FI, SRI, CF} :
           {r.serial : r \in table'[k]} \subseteq {r.serial : r \in table[k]}
    BY <2>1, <2>2, <2>4, KindsDistinct
  <2>6. "gradient" \in settled =>
           {r.serial : r \in table'[GCI]} \subseteq {r.serial : r \in table[GCI]}
    BY <2>1, <2>3, <2>4, KindsDistinct
  <2> QED BY <2>5, <2>6 DEF SettledSerialsStand, SerialsOf
<1>2. Inv /\ [Next]_vars => [SettledSerialsStand]_vars
  BY <1>1
<1> QED BY <1>2, Invariance, PTL DEF Spec, SettledStoresNothing, SettledSerialsStand

=============================================================================
