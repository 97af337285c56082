----------------------- MODULE UnifiedPipelineProofs ------------------------
(***************************************************************************)
(* Proofs about UnifiedPipeline for every grid, every set of outcomes, any *)
(* number of runs and kills.  First what holds whatever the grid: states   *)
(* are well-typed, rows that are validated stay, and whatever names a row  *)
(* names one that stands.  Then what holds where the grid names every      *)
(* point once: a point gets one validated row of each kind, the store      *)
(* implements the ledger of verdicts, a run that ends leaves the store     *)
(* complete; and, while the solver gives the same answers, no run ends in  *)
(* an exception and nothing solved is computed again.                      *)
(***************************************************************************)
EXTENDS UnifiedPipelineInv, TLAPS

(***************************************************************************)
(* The table operations keep the type of a table.                          *)
(***************************************************************************)
LEMMA ValidateType ==
    ASSUME NEW R, NEW table \in SUBSET R, NEW serial,
           \A r \in R : [r EXCEPT !.validated = TRUE] \in R
    PROVE  Validate(table, serial) \in SUBSET R
BY DEF Validate

LEMMA RowsClosed ==
    ASSUME NEW S, NEW Refs
    PROVE  /\ \A r \in InstantonRows(S) : [r EXCEPT !.validated = TRUE] \in InstantonRows(S)
           /\ \A r \in CompactionRows(S, Refs) :
                  [r EXCEPT !.validated = TRUE] \in CompactionRows(S, Refs)
BY DEF InstantonRows, CompactionRows

LEMMA SerialInType ==
    ASSUME NEW S, NEW rows \in SUBSET InstantonRows(S)
    PROVE  SerialIn(rows) \in S \cup {NULL}
BY DEF SerialIn, InstantonRows

LEMMA MySerialType ==
    ASSUME TypeOK, NEW t \in Tasks, run # 0
    PROVE  MySerial(t) \in Serials
BY PipelineAssumption DEF TypeOK, MySerial, Serials

LEMMA OutcomeIsTyped ==
    ASSUME TypeOK, NEW t \in Tasks
    PROVE  Outcome(t) \in OutcomeType
BY PipelineAssumption DEF TypeOK, Outcome

(***************************************************************************)
(* A program that is not down has been started.                            *)
(***************************************************************************)
Started == phase # "down" => run # 0

TypeInv == TypeOK /\ Started

LEMMA InitTyped == Init => TypeInv
<1> SUFFICES ASSUME Init PROVE TypeInv
  OBVIOUS
<1>1. found \in [Tasks -> [fi : Serials \cup {NULL}, sri : Serials \cup {NULL}]]
  BY DEF Init, NothingFound
<1>2. stage \in [Tasks -> Stages]
  BY DEF Init, Stages
<1>3. run \in 0 .. MaxRuns /\ Started
  BY PipelineAssumption DEF Init, Started
<1>4. /\ fiTable \subseteq InstantonRows(Serials) /\ sriTable \subseteq InstantonRows(Serials)
      /\ cfTable \subseteq CompactionRows(Serials, Serials \cup {NULL})
  BY DEF Init
<1>5. /\ phase \in Phases /\ unpruned \subseteq Tables
      /\ result \in [Points -> Outcomes] /\ settled \in BOOLEAN
  BY DEF Init, Phases
<1> QED BY <1>1, <1>2, <1>3, <1>4, <1>5 DEF TypeInv, TypeOK

LEMMA GoneTyped ==
    ASSUME TypeInv, Gone
    PROVE  TypeInv'
BY DEF TypeInv, TypeOK, Started, Gone, store, Phases, Stages, NothingFound

LEMMA StepTyped ==
    ASSUME TypeInv, NEW t \in Tasks, Step(t)
    PROVE  TypeInv'
<1> USE DEF TypeInv, Started
<1>0. /\ TypeOK /\ run # 0 /\ run' = run
      /\ phase' \in Phases /\ phase' # "down" /\ UNCHANGED <<unpruned, result, found, settled>>
  BY DEF Step, Dispatch, ComputeDone, StoreHandler, PersistFI, ValidateFI, PersistSRI,
         ValidateSRI, PersistCF, CFStored, ValidateCF, RevalidateFI, TypeOK, Phases, store
<1>1. stage' \in [Tasks -> Stages]
  BY DEF Step, Dispatch, ComputeDone, StoreHandler, PersistFI, ValidateFI, PersistSRI,
         ValidateSRI, PersistCF, CFStored, ValidateCF, RevalidateFI, TypeOK, Move, Stages,
         HandlerStages, RemoteStages, store
<1>2. MySerial(t) \in Serials /\ FISerial(t) \in Serials /\ SRISerial(t) \in Serials
  BY <1>0, MySerialType DEF FISerial, SRISerial, TypeOK
<1>3. /\ InstantonRow(MySerial(t), PointOf[t], Outcome(t).fi, TRUE) \in InstantonRows(Serials)
      /\ InstantonRow(MySerial(t), PointOf[t], Outcome(t).sri, TRUE) \in InstantonRows(Serials)
  <2>1. PointOf[t] \in Points
    BY PipelineAssumption
  <2> QED BY <1>0, <1>2, <2>1, OutcomeIsTyped DEF InstantonRow, InstantonRows, OutcomeType
<1>4. NewCF(t) \in CompactionRows(Serials, Serials \cup {NULL})
  BY <1>0, <1>2, OutcomeIsTyped DEF NewCF, CompactionRow, CompactionRows, OutcomeType
<1>5. fiTable' \subseteq InstantonRows(Serials)
  <2>1. Validate(fiTable, FISerial(t)) \subseteq InstantonRows(Serials)
    BY <1>0, ValidateType, RowsClosed DEF TypeOK
  <2> QED
    BY <1>0, <1>3, <2>1 DEF Step, Dispatch, ComputeDone, StoreHandler, PersistFI, ValidateFI,
       PersistSRI, ValidateSRI, PersistCF, CFStored, ValidateCF, RevalidateFI, TypeOK, store
<1>6. sriTable' \subseteq InstantonRows(Serials)
  <2>1. Validate(sriTable, SRISerial(t)) \subseteq InstantonRows(Serials)
    BY <1>0, ValidateType, RowsClosed DEF TypeOK
  <2> QED
    BY <1>0, <1>3, <2>1 DEF Step, Dispatch, ComputeDone, StoreHandler, PersistFI, ValidateFI,
       PersistSRI, ValidateSRI, PersistCF, CFStored, ValidateCF, RevalidateFI, TypeOK, store
<1>7. cfTable' \subseteq CompactionRows(Serials, Serials \cup {NULL})
  <2>1. Validate(cfTable, MySerial(t)) \subseteq CompactionRows(Serials, Serials \cup {NULL})
    BY <1>0, ValidateType, RowsClosed DEF TypeOK
  <2> QED
    BY <1>0, <1>4, <2>1 DEF Step, Dispatch, ComputeDone, StoreHandler, PersistFI, ValidateFI,
       PersistSRI, ValidateSRI, PersistCF, CFStored, ValidateCF, RevalidateFI, TypeOK, store
<1> QED BY <1>0, <1>1, <1>5, <1>6, <1>7 DEF TypeOK

LEMMA DriverTyped ==
    ASSUME TypeInv, Driver
    PROVE  TypeInv'
<1> USE DEF TypeInv, Started
<1>1. CASE Open
  <2>1. run' \in 0 .. MaxRuns /\ run' # 0 /\ phase' \in Phases
    BY <1>1, PipelineAssumption DEF Open, TypeOK, Phases
  <2>2. unpruned' \subseteq Tables /\ result' \in [Points -> Outcomes]
    BY <1>1 DEF Open, TypeOK
  <2> QED BY <1>1, <2>1, <2>2 DEF Open, TypeOK, store
<1>2. ASSUME NEW T \in Tables, PruneTable(T) PROVE TypeInv'
  BY <1>2 DEF PruneTable, Prune, TypeOK
<1>3. CASE LookupFI
  <2>1. \A t \in Tasks : SerialIn(Matching(fiTable, PointOf[t])) \in Serials \cup {NULL}
    BY SerialInType DEF TypeOK, Matching
  <2>2. found' \in [Tasks -> [fi : Serials \cup {NULL}, sri : Serials \cup {NULL}]]
    BY <1>3, <2>1 DEF LookupFI, TypeOK
  <2> QED BY <1>3, <2>2 DEF LookupFI, TypeOK, Phases, store
<1>4. CASE LookupSRI
  <2>1. \A t \in Tasks : SerialIn(Matching(sriTable, PointOf[t])) \in Serials \cup {NULL}
    BY SerialInType DEF TypeOK, Matching
  <2>2. found' \in [Tasks -> [fi : Serials \cup {NULL}, sri : Serials \cup {NULL}]]
    BY <1>4, <2>1 DEF LookupSRI, TypeOK
  <2> QED BY <1>4, <2>2 DEF LookupSRI, TypeOK, Phases, store
<1>5. CASE LookupCF
  BY <1>5 DEF LookupCF, TypeOK, Phases, Stages, store
<1>6. CASE QueueDone
  BY <1>6 DEF QueueDone, TypeOK, Phases, store
<1>7. CASE Exit
  BY <1>7, GoneTyped DEF Exit
<1> QED BY <1>1, <1>2, <1>3, <1>4, <1>5, <1>6, <1>7 DEF Driver

LEMMA TypeInvariant == Spec => []TypeInv
<1>1. TypeInv /\ [Next]_vars => TypeInv'
  <2> SUFFICES ASSUME TypeInv, [Next]_vars PROVE TypeInv'
    OBVIOUS
  <2>1. CASE Driver
    BY <2>1, DriverTyped
  <2>2. CASE \E t \in Tasks : Step(t)
    BY <2>2, StepTyped
  <2>3. CASE Kill
    BY <2>3, GoneTyped DEF Kill
  <2>4. CASE UNCHANGED vars
    BY <2>4 DEF vars, TypeInv, TypeOK, Started
  <2> QED BY <2>1, <2>2, <2>3, <2>4 DEF Next
<1> QED BY <1>1, InitTyped, PTL DEF Spec

(***************************************************************************)
(* Tables, serials and stages have their types in every reachable state.   *)
(***************************************************************************)
THEOREM TypeCorrect == Spec => []TypeOK
<1>1. TypeInv => TypeOK
  BY DEF TypeInv
<1> QED BY <1>1, TypeInvariant, PTL

-----------------------------------------------------------------------------
(***************************************************************************)
(* What the operations of the store do to a table.                         *)
(***************************************************************************)
LEMMA ValidateKeeps ==
    ASSUME NEW S, NEW table \in SUBSET InstantonRows(S), NEW x
    PROVE  \A r \in table : r.validated => r \in Validate(table, x)
BY DEF Validate, InstantonRows

LEMMA ValidateKeepsCompactions ==
    ASSUME NEW S, NEW Refs, NEW table \in SUBSET CompactionRows(S, Refs), NEW x
    PROVE  \A r \in table : r.validated => r \in Validate(table, x)
BY DEF Validate, CompactionRows

\* A row of the new table is one of the old, up to its flag
LEMMA ValidateOrigin ==
    ASSUME NEW S, NEW table \in SUBSET InstantonRows(S), NEW x
    PROVE  \A q \in Validate(table, x) :
              \E r \in table :
                 /\ q.serial = r.serial /\ q.point = r.point /\ q.ok = r.ok
                 /\ q.validated => r.validated \/ r.serial = x
BY DEF Validate, InstantonRows

\* ... and the other way round
LEMMA ValidateImage ==
    ASSUME NEW S, NEW table \in SUBSET InstantonRows(S), NEW x
    PROVE  \A r \in table :
              \E q \in Validate(table, x) :
                 /\ q.serial = r.serial /\ q.point = r.point /\ q.ok = r.ok
                 /\ r.serial = x => q.validated
<1> SUFFICES ASSUME NEW r \in table
             PROVE  \E q \in Validate(table, x) :
                       /\ q.serial = r.serial /\ q.point = r.point /\ q.ok = r.ok
                       /\ r.serial = x => q.validated
  OBVIOUS
<1> DEFINE q == IF r.serial = x THEN [r EXCEPT !.validated = TRUE] ELSE r
<1>1. q \in Validate(table, x)
  BY DEF Validate
<1>2. /\ q.serial = r.serial /\ q.point = r.point /\ q.ok = r.ok
      /\ r.serial = x => q.validated
  BY DEF InstantonRows
<1> QED BY <1>1, <1>2

LEMMA ProvenanceValidate ==
    ASSUME NEW S, NEW table \in SUBSET InstantonRows(S), NEW x, NEW last,
           Provenance(table, last)
    PROVE  Provenance(Validate(table, x), last)
<1> SUFFICES ASSUME NEW q \in Validate(table, x)
             PROVE  /\ q.point = PointOf[q.serial[1]] /\ q.serial[2] <= last
                    /\ \A p \in Validate(table, x) : p.serial = q.serial => p = q
  BY DEF Provenance
<1> DEFINE Image(r) == IF r.serial = x THEN [r EXCEPT !.validated = TRUE] ELSE r
<1>1. PICK r \in table : q.serial = r.serial /\ q.point = r.point /\ q = Image(r)
  BY DEF Validate, InstantonRows
<1>2. ASSUME NEW p \in Validate(table, x), p.serial = q.serial PROVE p = q
  <2>1. PICK s \in table : p.serial = s.serial /\ p = Image(s)
    BY DEF Validate, InstantonRows
  <2>2. s = r
    BY <1>1, <1>2, <2>1 DEF Provenance
  <2> QED BY <1>1, <2>1, <2>2
<1> QED BY <1>1, <1>2 DEF Provenance

LEMMA ProvenanceInsert ==
    ASSUME NEW table, NEW last, Provenance(table, last), NEW q,
           q.point = PointOf[q.serial[1]], q.serial[2] <= last,
           \A r \in table : r.serial # q.serial
    PROVE  Provenance(table \cup {q}, last)
BY DEF Provenance

LEMMA ProvenanceLater ==
    ASSUME NEW table \in SUBSET InstantonRows(Serials), NEW k \in Nat, NEW l \in Nat, k <= l,
           Provenance(table, k)
    PROVE  Provenance(table, l)
<1> SUFFICES ASSUME NEW r \in table PROVE r.serial[2] <= l
  BY DEF Provenance
<1>1. r.serial[2] \in Nat /\ r.serial[2] <= k
  BY PipelineAssumption DEF Provenance, InstantonRows, Serials
<1> QED BY <1>1

LEMMA PruneFacts ==
    ASSUME NEW table
    PROVE  /\ Prune(table) \subseteq table
           /\ \A r \in table : r.validated => r \in Prune(table)
           /\ \A last : Provenance(table, last) => Provenance(Prune(table), last)
BY DEF Prune, Provenance

-----------------------------------------------------------------------------
(***************************************************************************)
(* Validated rows stay as they are.                                        *)
(***************************************************************************)
Kept ==
    /\ \A r \in fiTable : r.validated => r \in fiTable'
    /\ \A r \in sriTable : r.validated => r \in sriTable'
    /\ \A r \in cfTable : r.validated => r \in cfTable'

LEMMA StepKeeps ==
    ASSUME TypeInv, [Next]_vars
    PROVE  Kept
<1> USE DEF Kept, store
<1>0. TypeOK
  BY DEF TypeInv
<1>1. ASSUME NEW T \in Tables, PruneTable(T) PROVE Kept
  BY <1>1, PruneFacts DEF PruneTable
<1>2. ASSUME NEW t \in Tasks, ValidateFI(t) \/ RevalidateFI(t) PROVE Kept
  BY <1>0, <1>2, ValidateKeeps DEF ValidateFI, RevalidateFI, TypeOK
<1>3. ASSUME NEW t \in Tasks, ValidateSRI(t) PROVE Kept
  BY <1>0, <1>3, ValidateKeeps DEF ValidateSRI, TypeOK
<1>4. ASSUME NEW t \in Tasks, ValidateCF(t) PROVE Kept
  BY <1>0, <1>4, ValidateKeepsCompactions DEF ValidateCF, TypeOK
<1>5. ASSUME NEW t \in Tasks, PersistFI(t) \/ PersistSRI(t) \/ CFStored(t) PROVE Kept
  BY <1>5 DEF PersistFI, PersistSRI, CFStored
<1>6. ASSUME NEW t \in Tasks, Dispatch(t) \/ ComputeDone(t) \/ StoreHandler(t) \/ PersistCF(t)
      PROVE  Kept
  BY <1>6 DEF Dispatch, ComputeDone, StoreHandler, PersistCF
<1>7. CASE Open \/ LookupFI \/ LookupSRI \/ LookupCF \/ QueueDone \/ Exit \/ Kill
  BY <1>7 DEF Open, LookupFI, LookupSRI, LookupCF, QueueDone, Exit, Kill, Gone
<1>8. CASE UNCHANGED vars
  BY <1>8 DEF vars
<1> QED BY <1>1, <1>2, <1>3, <1>4, <1>5, <1>6, <1>7, <1>8 DEF Next, Driver, Step

(***************************************************************************)
(* No step rewrites, deletes or invalidates a validated row, also where    *)
(* two grid items are the same point.                                      *)
(***************************************************************************)
THEOREM RowsStay == Spec => ValidatedRowsStay
<1>1. TypeInv /\ [Next]_vars => [Kept]_vars
  BY StepKeeps
<1> QED BY <1>1, TypeInvariant, PTL DEF Spec, ValidatedRowsStay, Kept

-----------------------------------------------------------------------------
(***************************************************************************)
(* What a step of an item does to the tables and to what it was told.      *)
(***************************************************************************)
LEMMA NullIsNoSerial == NULL \notin Serials
BY PipelineAssumption DEF Serials

LEMMA StepFacts ==
    ASSUME TypeInv, NEW u \in Tasks, Step(u)
    PROVE  /\ phase = "work" /\ run' = run /\ found' = found /\ result' = result
           /\ phase' \in {"work", "raised"}
           /\ stage' \in [Tasks -> Stages]
           /\ \A t \in Tasks : t # u => stage'[t] = stage[t]
           /\ MySerial(u) \in Serials /\ FISerial(u) \in Serials /\ SRISerial(u) \in Serials
           /\ \A t \in Tasks : t # u => MySerial(t) # MySerial(u)
<1>1. /\ phase = "work" /\ run' = run /\ found' = found /\ result' = result
      /\ phase' \in {"work", "raised"}
  BY DEF Step, Dispatch, ComputeDone, StoreHandler, PersistFI, ValidateFI, PersistSRI,
         ValidateSRI, PersistCF, CFStored, ValidateCF, RevalidateFI
<1>2. \A t \in Tasks : t # u => stage'[t] = stage[t]
  BY DEF Step, Dispatch, ComputeDone, StoreHandler, PersistFI, ValidateFI, PersistSRI,
         ValidateSRI, PersistCF, CFStored, ValidateCF, RevalidateFI, Move, TypeInv, TypeOK
<1>3. stage' \in [Tasks -> Stages]
  BY StepTyped DEF TypeInv, TypeOK
<1>4. MySerial(u) \in Serials
  BY <1>1, MySerialType DEF TypeInv, Started
<1>5. FISerial(u) \in Serials /\ SRISerial(u) \in Serials
  BY <1>4 DEF FISerial, SRISerial, TypeInv, TypeOK
<1> QED BY <1>1, <1>2, <1>3, <1>4, <1>5 DEF MySerial

\* The row an item adds to either table
NewFI(u) == InstantonRow(MySerial(u), PointOf[u], Outcome(u).fi, TRUE)
NewSRI(u) == InstantonRow(MySerial(u), PointOf[u], Outcome(u).sri, TRUE)

LEMMA StepOnFI ==
    ASSUME TypeInv, NEW u \in Tasks, Step(u)
    PROVE  \/ fiTable' = fiTable
           \/ /\ PersistFI(u) /\ found[u].fi = NULL
              /\ fiTable' = fiTable \cup {NewFI(u)}
           \/ /\ ValidateFI(u) \/ RevalidateFI(u)
              /\ fiTable' = Validate(fiTable, FISerial(u))
BY DEF Step, Dispatch, ComputeDone, StoreHandler, PersistFI, ValidateFI, PersistSRI,
       ValidateSRI, PersistCF, CFStored, ValidateCF, RevalidateFI, store, NewFI

LEMMA StepOnSRI ==
    ASSUME TypeInv, NEW u \in Tasks, Step(u)
    PROVE  \/ sriTable' = sriTable
           \/ /\ PersistSRI(u) /\ found[u].sri = NULL
              /\ sriTable' = sriTable \cup {NewSRI(u)}
           \/ /\ ValidateSRI(u)
              /\ sriTable' = Validate(sriTable, SRISerial(u))
BY DEF Step, Dispatch, ComputeDone, StoreHandler, PersistFI, ValidateFI, PersistSRI,
       ValidateSRI, PersistCF, CFStored, ValidateCF, RevalidateFI, store, NewSRI

\* Every row has an image with the same content ...
LEMMA RowsHaveImages ==
    ASSUME TypeInv, NEW u \in Tasks, Step(u)
    PROVE  /\ \A r \in fiTable : \E q \in fiTable' :
                 q.serial = r.serial /\ q.point = r.point /\ q.ok = r.ok
           /\ \A r \in sriTable : \E q \in sriTable' :
                 q.serial = r.serial /\ q.point = r.point /\ q.ok = r.ok
<1>1. /\ fiTable \in SUBSET InstantonRows(Serials)
      /\ sriTable \in SUBSET InstantonRows(Serials)
  BY DEF TypeInv, TypeOK
<1>2. \A r \in fiTable : \E q \in fiTable' :
         q.serial = r.serial /\ q.point = r.point /\ q.ok = r.ok
  <2>1. \A r \in fiTable : \E q \in Validate(fiTable, FISerial(u)) :
           q.serial = r.serial /\ q.point = r.point /\ q.ok = r.ok
    BY <1>1, ValidateImage
  <2> QED BY <2>1, StepOnFI
<1>3. \A r \in sriTable : \E q \in sriTable' :
         q.serial = r.serial /\ q.point = r.point /\ q.ok = r.ok
  <2>1. \A r \in sriTable : \E q \in Validate(sriTable, SRISerial(u)) :
           q.serial = r.serial /\ q.point = r.point /\ q.ok = r.ok
    BY <1>1, ValidateImage
  <2> QED BY <2>1, StepOnSRI
<1> QED BY <1>2, <1>3

\* ... and every row that is not new has an origin
LEMMA RowsHaveOrigins ==
    ASSUME TypeInv, NEW u \in Tasks, Step(u)
    PROVE  /\ \A q \in fiTable' :
                 \/ \E r \in fiTable :
                       q.serial = r.serial /\ q.point = r.point /\ q.ok = r.ok
                 \/ stage[u] = "persistFI" /\ q.serial = MySerial(u)
           /\ \A q \in sriTable' :
                 \/ \E r \in sriTable :
                       q.serial = r.serial /\ q.point = r.point /\ q.ok = r.ok
                 \/ stage[u] = "persistSRI" /\ q.serial = MySerial(u)
<1>0. /\ fiTable \in SUBSET InstantonRows(Serials)
      /\ sriTable \in SUBSET InstantonRows(Serials)
  BY DEF TypeInv, TypeOK
<1>1. \A q \in fiTable' :
         \/ \E r \in fiTable : q.serial = r.serial /\ q.point = r.point /\ q.ok = r.ok
         \/ stage[u] = "persistFI" /\ q.serial = MySerial(u)
  <2>1. \A q \in Validate(fiTable, FISerial(u)) : \E r \in fiTable :
           q.serial = r.serial /\ q.point = r.point /\ q.ok = r.ok
    BY <1>0, ValidateOrigin
  <2>2. NewFI(u).serial = MySerial(u)
    BY DEF NewFI, InstantonRow
  <2>3. PersistFI(u) => stage[u] = "persistFI"
    BY DEF PersistFI
  <2> QED BY <2>1, <2>2, <2>3, StepOnFI
<1>2. \A q \in sriTable' :
         \/ \E r \in sriTable : q.serial = r.serial /\ q.point = r.point /\ q.ok = r.ok
         \/ stage[u] = "persistSRI" /\ q.serial = MySerial(u)
  <2>1. \A q \in Validate(sriTable, SRISerial(u)) : \E r \in sriTable :
           q.serial = r.serial /\ q.point = r.point /\ q.ok = r.ok
    BY <1>0, ValidateOrigin
  <2>2. NewSRI(u).serial = MySerial(u)
    BY DEF NewSRI, InstantonRow
  <2>3. PersistSRI(u) => stage[u] = "persistSRI"
    BY DEF PersistSRI
  <2> QED BY <2>1, <2>2, <2>3, StepOnSRI
<1> QED BY <1>1, <1>2

\* The driver itself touches the tables only to prune them
LEMMA DriverOnTables ==
    ASSUME Driver \/ Kill \/ UNCHANGED vars
    PROVE  \/ UNCHANGED store
           \/ /\ fiTable' \in {fiTable, Prune(fiTable)}
              /\ sriTable' \in {sriTable, Prune(sriTable)}
              /\ cfTable' \in {cfTable, Prune(cfTable)}
              /\ phase = "opening" /\ UNCHANGED <<run, phase, result, found, stage>>
BY DEF Driver, Open, PruneTable, LookupFI, LookupSRI, LookupCF, QueueDone, Exit, Kill,
       Gone, store, vars

-----------------------------------------------------------------------------
(***************************************************************************)
(* The invariant, conjunct by conjunct.                                    *)
(***************************************************************************)
LEMMA RunGrows ==
    ASSUME TypeInv, [Next]_vars
    PROVE  run \in Nat /\ run' \in Nat /\ run <= run'
<1>1. run \in Nat
  BY DEF TypeInv, TypeOK
<1>2. CASE \E u \in Tasks : Step(u)
  BY <1>1, <1>2, StepFacts
<1>3. CASE Driver \/ Kill \/ UNCHANGED vars
  BY <1>1, <1>3 DEF Driver, Open, PruneTable, LookupFI, LookupSRI, LookupCF, QueueDone, Exit,
     Kill, Gone, vars
<1> QED BY <1>2, <1>3 DEF Next

LEMMA ProvenanceKept ==
    ASSUME TypeInv, PipelineInv, [Next]_vars
    PROVE  Provenance(fiTable', run') /\ Provenance(sriTable', run')
<1>0. /\ Provenance(fiTable, run) /\ Provenance(sriTable, run) /\ Fresh
      /\ fiTable \in SUBSET InstantonRows(Serials) /\ sriTable \in SUBSET InstantonRows(Serials)
      /\ run \in Nat
  BY DEF PipelineInv, TypeInv, TypeOK
<1>1. ASSUME NEW u \in Tasks, Step(u)
      PROVE  Provenance(fiTable', run') /\ Provenance(sriTable', run')
  <2>1. run' = run /\ phase = "work"
    BY <1>1, StepFacts
  <2>2. ASSUME PersistFI(u) PROVE Provenance(fiTable \cup {NewFI(u)}, run)
    <3>1. \A r \in fiTable : r.serial # NewFI(u).serial
      BY <1>0, <2>1, <2>2 DEF Fresh, BeforeFI, PersistFI, NewFI, InstantonRow
    <3>2. NewFI(u).point = PointOf[NewFI(u).serial[1]] /\ NewFI(u).serial[2] <= run
      BY <1>0 DEF NewFI, InstantonRow, MySerial
    <3> QED BY <1>0, <3>1, <3>2, ProvenanceInsert
  <2>3. ASSUME PersistSRI(u) PROVE Provenance(sriTable \cup {NewSRI(u)}, run)
    <3>1. \A r \in sriTable : r.serial # NewSRI(u).serial
      BY <1>0, <2>1, <2>3 DEF Fresh, BeforeSRI, BeforeFI, PersistSRI, NewSRI, InstantonRow
    <3>2. NewSRI(u).point = PointOf[NewSRI(u).serial[1]] /\ NewSRI(u).serial[2] <= run
      BY <1>0 DEF NewSRI, InstantonRow, MySerial
    <3> QED BY <1>0, <3>1, <3>2, ProvenanceInsert
  <2>4. Provenance(fiTable', run)
    BY <1>0, <1>1, <2>2, StepOnFI, ProvenanceValidate
  <2>5. Provenance(sriTable', run)
    BY <1>0, <1>1, <2>3, StepOnSRI, ProvenanceValidate
  <2> QED BY <2>1, <2>4, <2>5
<1>2. CASE Driver \/ Kill \/ UNCHANGED vars
  <2>1. Provenance(fiTable', run) /\ Provenance(sriTable', run)
    BY <1>0, <1>2, DriverOnTables, PruneFacts DEF store
  <2>2. fiTable' \subseteq fiTable /\ sriTable' \subseteq sriTable
    BY <1>2, DriverOnTables, PruneFacts DEF store
  <2> QED BY <1>0, <2>1, <2>2, RunGrows, ProvenanceLater
<1> QED BY <1>1, <1>2 DEF Next

LEMMA AtRestKept ==
    ASSUME TypeInv, PipelineInv, [Next]_vars
    PROVE  AtRest'
<1>0. AtRest /\ stage \in [Tasks -> Stages]
  BY DEF PipelineInv, TypeInv, TypeOK
<1>1. CASE \E u \in Tasks : Step(u)
  BY <1>1, StepFacts DEF AtRest
<1>2. CASE Exit \/ Kill
  BY <1>2 DEF Exit, Kill, Gone, AtRest
<1>3. CASE LookupCF \/ QueueDone
  BY <1>0, <1>3 DEF LookupCF, QueueDone, AtRest
<1>4. CASE Open \/ LookupFI \/ LookupSRI
  BY <1>0, <1>4 DEF Open, LookupFI, LookupSRI, AtRest
<1>5. CASE \E T \in Tables : PruneTable(T)
  BY <1>0, <1>5 DEF PruneTable, AtRest
<1>6. CASE UNCHANGED vars
  BY <1>0, <1>6 DEF vars, AtRest
<1> QED BY <1>1, <1>2, <1>3, <1>4, <1>5, <1>6 DEF Next, Driver

LEMMA FreshKept ==
    ASSUME TypeInv, PipelineInv, [Next]_vars
    PROVE  Fresh'
<1>0. Fresh /\ AtRest /\ Provenance(fiTable, run) /\ Provenance(sriTable, run) /\ TypeOK
  BY DEF PipelineInv, TypeInv
<1>1. ASSUME NEW u \in Tasks, Step(u) PROVE Fresh'
  <2>1. SUFFICES ASSUME NEW t \in Tasks
        PROVE  /\ stage'[t] \in BeforeFI => \A q \in fiTable' : q.serial # MySerial(t)
               /\ stage'[t] \in BeforeSRI => \A q \in sriTable' : q.serial # MySerial(t)
    BY <1>1, StepFacts DEF Fresh, MySerial
  <2>2. stage'[t] \in BeforeFI => stage[t] \in BeforeFI /\ (t = u => stage[t] # "persistFI")
    BY <1>0, <1>1, StepFacts DEF Step, Dispatch, ComputeDone, StoreHandler, PersistFI,
       ValidateFI, PersistSRI, ValidateSRI, PersistCF, CFStored, ValidateCF, RevalidateFI,
       Move, TypeOK, BeforeFI
  <2>3. stage'[t] \in BeforeSRI => stage[t] \in BeforeSRI /\ (t = u => stage[t] # "persistSRI")
    BY <1>0, <1>1, StepFacts DEF Step, Dispatch, ComputeDone, StoreHandler, PersistFI,
       ValidateFI, PersistSRI, ValidateSRI, PersistCF, CFStored, ValidateCF, RevalidateFI,
       Move, TypeOK, BeforeSRI, BeforeFI
  <2>4. phase # "down" /\ (t # u => MySerial(t) # MySerial(u))
    BY <1>1, StepFacts
  <2>5. stage'[t] \in BeforeFI => \A q \in fiTable' : q.serial # MySerial(t)
    BY <1>0, <1>1, <2>2, <2>4, RowsHaveOrigins DEF Fresh
  <2>6. stage'[t] \in BeforeSRI => \A q \in sriTable' : q.serial # MySerial(t)
    BY <1>0, <1>1, <2>3, <2>4, RowsHaveOrigins DEF Fresh
  <2> QED BY <2>5, <2>6
<1>2. CASE Open
  <2>1. run \in Nat /\ run' = run + 1 /\ fiTable' = fiTable /\ sriTable' = sriTable
    BY <1>0, <1>2 DEF Open, TypeOK, store
  <2>2. \A t \in Tasks : MySerial(t)'[2] = run + 1
    BY <2>1 DEF MySerial
  <2>3. /\ \A r \in fiTable : r.serial[2] \in Nat /\ r.serial[2] <= run
        /\ \A r \in sriTable : r.serial[2] \in Nat /\ r.serial[2] <= run
    BY <1>0, PipelineAssumption DEF Provenance, TypeOK, InstantonRows, Serials
  <2>4. \A n \in Nat : n <= run => n # run + 1
    BY <2>1
  <2> QED BY <2>1, <2>2, <2>3, <2>4 DEF Fresh
<1>3. CASE LookupCF
  <2>1. \A t \in Tasks : stage[t] \in BeforeFI
    BY <1>0, <1>3 DEF LookupCF, AtRest, BeforeFI
  <2> QED BY <1>0, <1>3, <2>1 DEF LookupCF, Fresh, MySerial, store, BeforeSRI
<1>4. CASE Exit \/ Kill
  BY <1>4 DEF Exit, Kill, Gone, Fresh
<1>5. CASE \E T \in Tables : PruneTable(T)
  <2>1. /\ fiTable' \subseteq fiTable /\ sriTable' \subseteq sriTable
        /\ phase # "down" /\ stage' = stage /\ run' = run
    BY <1>5, PruneFacts DEF PruneTable
  <2> QED BY <1>0, <2>1 DEF Fresh, MySerial
<1>6. CASE LookupFI \/ LookupSRI \/ QueueDone
  BY <1>0, <1>6 DEF LookupFI, LookupSRI, QueueDone, Fresh, MySerial, store
<1>7. CASE UNCHANGED vars
  BY <1>0, <1>7 DEF vars, Fresh, MySerial
<1> QED BY <1>1, <1>2, <1>3, <1>4, <1>5, <1>6, <1>7 DEF Next, Driver

LEMMA ValidStays ==
    ASSUME NEW T1, NEW T2, \A r \in T1 : r.validated => r \in T2,
           NEW x, NEW p, NEW ok
    PROVE  /\ Valid(T1, x, p) => Valid(T2, x, p)
           /\ Settled(T1, x, p, ok) => Settled(T2, x, p, ok)
BY DEF Valid, Settled

LEMMA SerialInIsValid ==
    ASSUME NEW table, NEW p, SerialIn(Matching(table, p)) # NULL
    PROVE  Valid(table, SerialIn(Matching(table, p)), p)
<1>1. Matching(table, p) # {}
  BY DEF SerialIn
<1> QED BY <1>1 DEF SerialIn, Matching, Valid

LEMMA FoundIsValidKept ==
    ASSUME TypeInv, PipelineInv, [Next]_vars
    PROVE  FoundIsValid'
<1>0. FoundIsValid /\ Kept /\ TypeOK
  BY StepKeeps DEF PipelineInv, TypeInv
<1>1. ASSUME found' = found PROVE FoundIsValid'
  BY <1>0, <1>1, ValidStays DEF FoundIsValid, Kept
<1>2. CASE \E u \in Tasks : Step(u)
  BY <1>1, <1>2, StepFacts
<1>3. CASE LookupFI
  <2>1. CASE found' = found
    BY <1>1, <2>1
  <2>2. CASE found' = [t \in Tasks |->
                          [fi |-> SerialIn(Matching(fiTable, PointOf[t])), sri |-> NULL]]
    <3>1. fiTable' = fiTable
      BY <1>3 DEF LookupFI, store
    <3> QED BY <2>2, <3>1, SerialInIsValid DEF FoundIsValid
  <2> QED BY <1>3, <2>1, <2>2 DEF LookupFI
<1>4. CASE LookupSRI
  <2>1. CASE found' = found
    BY <1>1, <2>1
  <2>2. CASE found' = [t \in Tasks |->
                          [fi |-> found[t].fi, sri |-> SerialIn(Matching(sriTable, PointOf[t]))]]
    <3>1. fiTable' = fiTable /\ sriTable' = sriTable
      BY <1>4 DEF LookupSRI, store
    <3> QED BY <1>0, <2>2, <3>1, SerialInIsValid DEF FoundIsValid
  <2> QED BY <1>4, <2>1, <2>2 DEF LookupSRI
<1>5. CASE Exit \/ Kill
  BY <1>5 DEF Exit, Kill, Gone, NothingFound, FoundIsValid
<1>6. CASE Open \/ LookupCF \/ QueueDone \/ UNCHANGED vars \/ \E T \in Tables : PruneTable(T)
  BY <1>1, <1>6 DEF Open, LookupCF, QueueDone, PruneTable, vars
<1> QED BY <1>2, <1>3, <1>4, <1>5, <1>6 DEF Next, Driver

LEMMA DecidedKept ==
    ASSUME TypeInv, PipelineInv, [Next]_vars
    PROVE  Decided'
<1>0. Decided /\ AtRest /\ Fresh /\ FoundIsValid /\ TypeOK
  BY DEF PipelineInv, TypeInv
<1>1. ASSUME NEW u \in Tasks, Step(u) PROVE Decided'
  <2>1. SUFFICES ASSUME NEW t \in Tasks
        PROVE  /\ stage'[t] \in {"persistFI", "validateFI", "persistSRI"} => IntegrityHolds(t)'
               /\ stage'[t] \in {"storingCF", "validatingCF"} => HasCF(t)'
    BY DEF Decided
  <2>2. UNCHANGED <<found, Outcome(t), HasCF(t)>>
    BY <1>1, StepFacts DEF Outcome, HasCF
  <2>3. IntegrityHolds(t) => IntegrityHolds(t)'
    <3>1. found[t].fi # NULL => Valid(fiTable, found[t].fi, PointOf[t])
      BY <1>0 DEF FoundIsValid
    <3>2. found[t].sri # NULL => Valid(sriTable, found[t].sri, PointOf[t])
      BY <1>0 DEF FoundIsValid
    <3>3. found[t].fi # NULL =>
             \A q \in fiTable' : q.serial = found[t].fi =>
                \E r \in fiTable : r.serial = found[t].fi /\ r.ok = q.ok
      BY <1>0, <1>1, <3>1, StepFacts, RowsHaveOrigins DEF Fresh, Valid, BeforeFI
    <3>4. found[t].sri # NULL =>
             \A q \in sriTable' : q.serial = found[t].sri =>
                \E r \in sriTable : r.serial = found[t].sri /\ r.ok = q.ok
      BY <1>0, <1>1, <3>2, StepFacts, RowsHaveOrigins DEF Fresh, Valid, BeforeFI, BeforeSRI
    <3> QED BY <2>2, <3>3, <3>4 DEF IntegrityHolds, ScalarsAgree
  <2>4. stage'[t] \in {"persistFI", "validateFI", "persistSRI"} => IntegrityHolds(t)
    BY <1>0, <1>1, StepFacts DEF Step, Dispatch, ComputeDone, StoreHandler, PersistFI,
       ValidateFI, PersistSRI, ValidateSRI, PersistCF, CFStored, ValidateCF, RevalidateFI,
       Move, TypeOK, Decided
  <2>5. stage'[t] \in {"storingCF", "validatingCF"} => HasCF(t)
    BY <1>0, <1>1, StepFacts DEF Step, Dispatch, ComputeDone, StoreHandler, PersistFI,
       ValidateFI, PersistSRI, ValidateSRI, PersistCF, CFStored, ValidateCF, RevalidateFI,
       Move, TypeOK, Decided
  <2> QED BY <2>2, <2>3, <2>4, <2>5
<1>2. CASE UNCHANGED vars \/ QueueDone
  <2>1. UNCHANGED <<fiTable, sriTable, found, result, stage>>
    BY <1>2 DEF vars, QueueDone, store
  <2> QED BY <1>0, <2>1 DEF Decided, IntegrityHolds, ScalarsAgree, HasCF, Outcome
<1>3. CASE Driver /\ ~QueueDone
  <2>1. \A t \in Tasks : stage'[t] \in {"idle", "queued"}
    BY <1>0, <1>3 DEF Driver, Open, LookupFI, LookupSRI, LookupCF, PruneTable, Exit, Gone, AtRest
  <2> QED BY <2>1 DEF Decided
<1>4. CASE Kill
  BY <1>4 DEF Kill, Gone, Decided
<1> QED BY <1>1, <1>2, <1>3, <1>4 DEF Next

LEMMA FIProgressKept ==
    ASSUME TypeInv, PipelineInv, [Next]_vars
    PROVE  FIProgress'
<1>0. FIProgress /\ AtRest /\ FoundIsValid /\ Decided /\ TypeOK /\ Kept
  BY StepKeeps DEF PipelineInv, TypeInv
<1>1. ASSUME NEW u \in Tasks, Step(u) PROVE FIProgress'
  <2>1. SUFFICES ASSUME NEW t \in Tasks
        PROVE  /\ stage'[t] = "validateFI" => found'[t].fi = NULL
                      /\ Pending(fiTable', MySerial(t)', PointOf[t], Outcome(t)'.fi)
               /\ stage'[t] \in AfterFI =>
                      Settled(fiTable', FISerial(t)', PointOf[t], Outcome(t)'.fi)
    BY DEF FIProgress
  <2>2. UNCHANGED <<found, Outcome(t), MySerial(t), FISerial(t)>>
    BY <1>1, StepFacts DEF Outcome, MySerial, FISerial
  <2>3. ASSUME stage[t] = "validateFI" \/ stage[t] \in AfterFI, ~(t = u /\ ValidateFI(u)),
               ~(t = u /\ PersistFI(u))
        PROVE  /\ stage[t] = "validateFI" =>
                      Pending(fiTable', MySerial(t), PointOf[t], Outcome(t).fi)
               /\ stage[t] \in AfterFI =>
                      Settled(fiTable', FISerial(t), PointOf[t], Outcome(t).fi)
    BY <1>0, <1>1, RowsHaveImages, ValidStays DEF FIProgress, Pending, Kept
  <2>4. CASE t = u /\ PersistFI(u) /\ found[u].fi = NULL
    <3>1. stage'[t] = "validateFI" /\ NewFI(u) \in fiTable'
      BY <1>0, <2>4 DEF PersistFI, Move, TypeOK, NewFI
    <3>2. Pending(fiTable', MySerial(t), PointOf[t], Outcome(t).fi)
      BY <2>4, <3>1 DEF Pending, NewFI, InstantonRow
    <3> QED BY <2>2, <2>4, <3>1, <3>2 DEF AfterFI, AfterSRI
  <2>5. CASE t = u /\ PersistFI(u) /\ found[u].fi # NULL
    <3>1. stage'[t] # "validateFI" /\ fiTable' = fiTable
      BY <1>0, <2>5 DEF PersistFI, Move, TypeOK
    <3>2. IntegrityHolds(t) /\ Valid(fiTable, found[t].fi, PointOf[t])
      BY <1>0, <2>5 DEF PersistFI, Decided, FoundIsValid
    <3>3. Settled(fiTable, FISerial(t), PointOf[t], Outcome(t).fi)
      BY <2>5, <3>2 DEF Settled, Valid, IntegrityHolds, ScalarsAgree, FISerial
    <3> QED BY <2>2, <3>1, <3>3
  <2>6. CASE t = u /\ ValidateFI(u)
    <3>1. /\ stage'[t] # "validateFI" /\ fiTable' = Validate(fiTable, FISerial(t))
          /\ FISerial(t) = MySerial(t) /\ stage[t] = "validateFI"
      BY <1>0, <2>6 DEF ValidateFI, Move, TypeOK, FIProgress, FISerial
    <3>2. PICK r \in fiTable : /\ r.serial = FISerial(t) /\ r.point = PointOf[t]
                             /\ r.ok = Outcome(t).fi
      BY <1>0, <3>1 DEF FIProgress, Pending
    <3>3. \E q \in fiTable' : /\ q.serial = FISerial(t) /\ q.point = PointOf[t]
                            /\ q.ok = Outcome(t).fi /\ q.validated
      BY <1>0, <3>1, <3>2, ValidateImage DEF TypeOK
    <3> QED BY <2>2, <3>1, <3>3 DEF Settled
  <2>7. ASSUME ~(t = u /\ PersistFI(u)), ~(t = u /\ ValidateFI(u))
        PROVE  /\ stage'[t] = "validateFI" => stage[t] = "validateFI"
               /\ stage'[t] \in AfterFI => stage[t] \in AfterFI
    BY <1>0, <1>1, <2>7, StepFacts DEF Step, Dispatch, ComputeDone, StoreHandler, PersistFI,
       ValidateFI, PersistSRI, ValidateSRI, PersistCF, CFStored, ValidateCF, RevalidateFI,
       Move, TypeOK, AfterFI, AfterSRI
  <2>8. stage[t] = "validateFI" => found[t].fi = NULL
    BY <1>0 DEF FIProgress
  <2> QED BY <2>2, <2>3, <2>4, <2>5, <2>6, <2>7, <2>8
<1>2. CASE UNCHANGED vars \/ QueueDone
  <2>1. UNCHANGED <<fiTable, run, found, result, stage>>
    BY <1>2 DEF vars, QueueDone, store
  <2> QED BY <1>0, <2>1 DEF FIProgress, Pending, Settled, Outcome, MySerial, FISerial
<1>3. CASE (Driver /\ ~QueueDone) \/ Kill
  <2>1. \A t \in Tasks : stage'[t] \in {"idle", "queued"}
    BY <1>0, <1>3 DEF Driver, Open, LookupFI, LookupSRI, LookupCF, PruneTable, Exit, Kill,
       Gone, AtRest
  <2> QED BY <2>1 DEF FIProgress, AfterFI, AfterSRI
<1> QED BY <1>1, <1>2, <1>3 DEF Next

LEMMA SRIProgressKept ==
    ASSUME TypeInv, PipelineInv, [Next]_vars
    PROVE  SRIProgress'
<1>0. SRIProgress /\ AtRest /\ FoundIsValid /\ Decided /\ TypeOK /\ Kept
  BY StepKeeps DEF PipelineInv, TypeInv
<1>1. ASSUME NEW u \in Tasks, Step(u) PROVE SRIProgress'
  <2>1. SUFFICES ASSUME NEW t \in Tasks
        PROVE  /\ stage'[t] = "validateSRI" => found'[t].sri = NULL
                      /\ Pending(sriTable', MySerial(t)', PointOf[t], Outcome(t)'.sri)
               /\ stage'[t] \in AfterSRI =>
                      Settled(sriTable', SRISerial(t)', PointOf[t], Outcome(t)'.sri)
    BY DEF SRIProgress
  <2>2. UNCHANGED <<found, Outcome(t), MySerial(t), SRISerial(t)>>
    BY <1>1, StepFacts DEF Outcome, MySerial, SRISerial
  <2>3. ASSUME stage[t] = "validateSRI" \/ stage[t] \in AfterSRI, ~(t = u /\ ValidateSRI(u)),
               ~(t = u /\ PersistSRI(u))
        PROVE  /\ stage[t] = "validateSRI" =>
                      Pending(sriTable', MySerial(t), PointOf[t], Outcome(t).sri)
               /\ stage[t] \in AfterSRI =>
                      Settled(sriTable', SRISerial(t), PointOf[t], Outcome(t).sri)
    BY <1>0, <1>1, RowsHaveImages, ValidStays DEF SRIProgress, Pending, Kept
  <2>4. CASE t = u /\ PersistSRI(u) /\ found[u].sri = NULL
    <3>1. stage'[t] = "validateSRI" /\ NewSRI(u) \in sriTable'
      BY <1>0, <2>4 DEF PersistSRI, Move, TypeOK, NewSRI
    <3>2. Pending(sriTable', MySerial(t), PointOf[t], Outcome(t).sri)
      BY <2>4, <3>1 DEF Pending, NewSRI, InstantonRow
    <3> QED BY <2>2, <2>4, <3>1, <3>2 DEF AfterSRI
  <2>5. CASE t = u /\ PersistSRI(u) /\ found[u].sri # NULL
    <3>1. stage'[t] # "validateSRI" /\ sriTable' = sriTable
      BY <1>0, <2>5 DEF PersistSRI, Move, TypeOK
    <3>2. IntegrityHolds(t) /\ Valid(sriTable, found[t].sri, PointOf[t])
      BY <1>0, <2>5 DEF PersistSRI, Decided, FoundIsValid
    <3>3. Settled(sriTable, SRISerial(t), PointOf[t], Outcome(t).sri)
      BY <2>5, <3>2 DEF Settled, Valid, IntegrityHolds, ScalarsAgree, SRISerial
    <3> QED BY <2>2, <3>1, <3>3
  <2>6. CASE t = u /\ ValidateSRI(u)
    <3>1. /\ stage'[t] # "validateSRI" /\ sriTable' = Validate(sriTable, SRISerial(t))
          /\ SRISerial(t) = MySerial(t) /\ stage[t] = "validateSRI"
      BY <1>0, <2>6 DEF ValidateSRI, Move, TypeOK, SRIProgress, SRISerial
    <3>2. PICK r \in sriTable : /\ r.serial = SRISerial(t) /\ r.point = PointOf[t]
                             /\ r.ok = Outcome(t).sri
      BY <1>0, <3>1 DEF SRIProgress, Pending
    <3>3. \E q \in sriTable' : /\ q.serial = SRISerial(t) /\ q.point = PointOf[t]
                            /\ q.ok = Outcome(t).sri /\ q.validated
      BY <1>0, <3>1, <3>2, ValidateImage DEF TypeOK
    <3> QED BY <2>2, <3>1, <3>3 DEF Settled
  <2>7. ASSUME ~(t = u /\ PersistSRI(u)), ~(t = u /\ ValidateSRI(u))
        PROVE  /\ stage'[t] = "validateSRI" => stage[t] = "validateSRI"
               /\ stage'[t] \in AfterSRI => stage[t] \in AfterSRI
    BY <1>0, <1>1, <2>7, StepFacts DEF Step, Dispatch, ComputeDone, StoreHandler, PersistFI,
       ValidateFI, PersistSRI, ValidateSRI, PersistCF, CFStored, ValidateCF, RevalidateFI,
       Move, TypeOK, AfterSRI
  <2>8. stage[t] = "validateSRI" => found[t].sri = NULL
    BY <1>0 DEF SRIProgress
  <2> QED BY <2>2, <2>3, <2>4, <2>5, <2>6, <2>7, <2>8
<1>2. CASE UNCHANGED vars \/ QueueDone
  <2>1. UNCHANGED <<sriTable, run, found, result, stage>>
    BY <1>2 DEF vars, QueueDone, store
  <2> QED BY <1>0, <2>1 DEF SRIProgress, Pending, Settled, Outcome, MySerial, SRISerial
<1>3. CASE (Driver /\ ~QueueDone) \/ Kill
  <2>1. \A t \in Tasks : stage'[t] \in {"idle", "queued"}
    BY <1>0, <1>3 DEF Driver, Open, LookupFI, LookupSRI, LookupCF, PruneTable, Exit, Kill,
       Gone, AtRest
  <2> QED BY <2>1 DEF SRIProgress, AfterSRI
<1> QED BY <1>1, <1>2, <1>3 DEF Next

LEMMA CompactionsFoundedKept ==
    ASSUME TypeInv, PipelineInv, [Next]_vars
    PROVE  CompactionsFounded'
<1>0. CompactionsFounded /\ FIProgress /\ SRIProgress /\ Decided /\ TypeOK /\ Kept
  BY StepKeeps DEF PipelineInv, TypeInv
<1>1. ASSUME NEW c \in cfTable PROVE Founded(c)'
  BY <1>0, <1>1, ValidStays DEF CompactionsFounded, Founded, Kept
<1>2. ASSUME NEW u \in Tasks, CFStored(u) PROVE Founded(NewCF(u))'
  <2>1. stage[u] \in AfterFI /\ stage[u] \in AfterSRI /\ HasCF(u)
    BY <1>0, <1>2 DEF CFStored, AfterFI, AfterSRI, Decided
  <2>2. /\ Settled(fiTable, FISerial(u), PointOf[u], Outcome(u).fi)
        /\ Settled(sriTable, SRISerial(u), PointOf[u], Outcome(u).sri)
    BY <1>0, <2>1 DEF FIProgress, SRIProgress
  <2>3. Outcome(u) \in Outcomes /\ PointOf[u] \in Points
    BY <1>0, PipelineAssumption DEF Outcome, TypeOK
  <2>4. (Outcome(u).full => Outcome(u).fi) /\ (Outcome(u).slow => Outcome(u).sri)
    BY <2>3, PipelineAssumption
  <2>5. FISerial(u) # NULL /\ SRISerial(u) # NULL
    BY <1>2, StepFacts, NullIsNoSerial DEF Step
  <2> DEFINE c == NewCF(u)
  <2>6. /\ c.fi = IF Outcome(u).fi THEN FISerial(u) ELSE NULL
        /\ c.sri = IF Outcome(u).sri THEN SRISerial(u) ELSE NULL
        /\ c.full = Outcome(u).full /\ c.slow = Outcome(u).slow
    BY DEF NewCF, CompactionRow
  <2>7. c.fi # NULL => Settled(fiTable, c.fi, PointOf[u], c.full)
    BY <2>2, <2>6 DEF Settled
  <2>8. c.sri # NULL => Settled(sriTable, c.sri, PointOf[u], c.slow)
    BY <2>2, <2>6 DEF Settled
  <2>9. c.fi # NULL \/ c.sri # NULL
    BY <2>1, <2>5, <2>6 DEF HasCF
  <2>10. (c.full => c.fi # NULL) /\ (c.slow => c.sri # NULL)
    BY <2>4, <2>5, <2>6
  <2>11. fiTable' = fiTable /\ sriTable' = sriTable /\ NewCF(u)' = NewCF(u)
    BY <1>2 DEF CFStored, NewCF, CompactionRow, Outcome, FISerial, SRISerial, MySerial
  <2> QED BY <2>3, <2>7, <2>8, <2>9, <2>10, <2>11 DEF Founded
<1>3. ASSUME NEW u \in Tasks, CFStored(u) PROVE CompactionsFounded'
  <2>1. cfTable' = cfTable \cup {NewCF(u)} /\ NewCF(u)' = NewCF(u)
    BY <1>3 DEF CFStored, NewCF, CompactionRow, Outcome, FISerial, SRISerial, MySerial
  <2>2. ASSUME NEW c \in cfTable' PROVE Founded(c)'
    BY <1>1, <1>2, <1>3, <2>1, <2>2
  <2> QED BY <2>2 DEF CompactionsFounded
<1>4. ASSUME NEW u \in Tasks, ValidateCF(u) PROVE CompactionsFounded'
  <2>1. \A q \in cfTable' : \E c \in cfTable :
           q.fi = c.fi /\ q.sri = c.sri /\ q.full = c.full /\ q.slow = c.slow
    BY <1>0, <1>4 DEF ValidateCF, Validate, TypeOK, CompactionRows
  <2>2. ASSUME NEW q \in cfTable' PROVE Founded(q)'
    <3>1. PICK c \in cfTable : q.fi = c.fi /\ q.sri = c.sri /\ q.full = c.full /\ q.slow = c.slow
      BY <2>1, <2>2
    <3>2. Founded(c)'
      BY <1>1
    <3> QED BY <3>1, <3>2 DEF Founded
  <2> QED BY <2>2 DEF CompactionsFounded
<1>5. ASSUME cfTable' \subseteq cfTable PROVE CompactionsFounded'
  BY <1>1, <1>5 DEF CompactionsFounded
<1>6. ASSUME NEW u \in Tasks, Step(u), ~CFStored(u), ~ValidateCF(u) PROVE cfTable' = cfTable
  BY <1>6 DEF Step, Dispatch, ComputeDone, StoreHandler, PersistFI, ValidateFI, PersistSRI,
     ValidateSRI, PersistCF, RevalidateFI, store
<1>7. CASE Driver \/ Kill \/ UNCHANGED vars
  BY <1>5, <1>7, DriverOnTables, PruneFacts DEF store
<1> QED BY <1>3, <1>4, <1>5, <1>6, <1>7 DEF Next

LEMMA InitInv == Init => PipelineInv
<1> SUFFICES ASSUME Init PROVE PipelineInv
  OBVIOUS
<1>1. Provenance(fiTable, run) /\ Provenance(sriTable, run) /\ CompactionsFounded
  BY DEF Init, Provenance, CompactionsFounded
<1>2. \A t \in Tasks : stage[t] = "idle" /\ found[t].fi = NULL /\ found[t].sri = NULL
  BY DEF Init, NothingFound
<1>3. Fresh /\ AtRest /\ FoundIsValid
  BY <1>2 DEF Init, Fresh, AtRest, FoundIsValid
<1>4. FIProgress /\ SRIProgress /\ Decided
  BY <1>2 DEF FIProgress, SRIProgress, Decided, AfterFI, AfterSRI
<1> QED BY <1>1, <1>3, <1>4 DEF PipelineInv

(***************************************************************************)
(* The invariant of the pipeline holds for any grid, also one that names a *)
(* point twice, and also when the solver changes between runs.             *)
(***************************************************************************)
THEOREM PipelineInvariant == Spec => []PipelineInv
<1>1. TypeInv /\ PipelineInv /\ [Next]_vars => PipelineInv'
  BY ProvenanceKept, FreshKept, AtRestKept, FoundIsValidKept, FIProgressKept, SRIProgressKept,
     DecidedKept, CompactionsFoundedKept DEF PipelineInv
<1> QED BY <1>1, InitInv, TypeInvariant, PTL DEF Spec

(***************************************************************************)
(* A stored compaction function never dangles: what it names is in the     *)
(* store, validated and of one point.                                      *)
(***************************************************************************)
THEOREM ReferencesAlwaysHold == Spec => []ReferencesHold
<1>1. TypeInv /\ PipelineInv => ReferencesHold
  <2> SUFFICES ASSUME TypeInv, PipelineInv, NEW c \in cfTable
               PROVE  /\ c.fi # NULL \/ c.sri # NULL
                      /\ c.fi # NULL => \E r \in fiTable : r.validated /\ r.serial = c.fi
                      /\ c.sri # NULL => \E r \in sriTable : r.validated /\ r.serial = c.sri
                      /\ \A r \in fiTable, s \in sriTable :
                            r.serial = c.fi /\ s.serial = c.sri => r.point = s.point
    BY DEF ReferencesHold
  <2>1. PICK p \in Points : /\ c.fi # NULL => Settled(fiTable, c.fi, p, c.full)
                            /\ c.sri # NULL => Settled(sriTable, c.sri, p, c.slow)
    BY DEF PipelineInv, CompactionsFounded, Founded
  <2>2. c.fi # NULL \/ c.sri # NULL
    BY DEF PipelineInv, CompactionsFounded, Founded
  <2>3. /\ \A r \in fiTable : r.serial # NULL
        /\ \A r \in sriTable : r.serial # NULL
    BY NullIsNoSerial DEF TypeInv, TypeOK, InstantonRows
  <2>4. \A r \in fiTable : r.serial = c.fi => r.point = p
    BY <2>1, <2>3 DEF Settled, PipelineInv, Provenance
  <2>5. \A r \in sriTable : r.serial = c.sri => r.point = p
    BY <2>1, <2>3 DEF Settled, PipelineInv, Provenance
  <2> QED BY <2>1, <2>2, <2>4, <2>5 DEF Settled
<1> QED BY <1>1, PipelineInvariant, TypeInvariant, PTL

(***************************************************************************)
(* No result of a compaction function hangs on the row of a failed solve,  *)
(* whatever the solver answers from one run to the next.                   *)
(***************************************************************************)
THEOREM ResultsAlwaysHaveSources == Spec => []ResultsHaveSources
<1>1. PipelineInv => ResultsHaveSources
  BY DEF PipelineInv, CompactionsFounded, Founded, Settled, ResultsHaveSources
<1> QED BY <1>1, PipelineInvariant, PTL

-----------------------------------------------------------------------------
(***************************************************************************)
(* The rows a lookup sees.                                                 *)
(***************************************************************************)
LEMMA MatchingInsert ==
    ASSUME NEW table, NEW q, ~q.validated, NEW p
    PROVE  Matching(table \cup {q}, p) = Matching(table, p)
BY DEF Matching

LEMMA MatchingPrune ==
    ASSUME NEW table, NEW p
    PROVE  Matching(Prune(table), p) = Matching(table, p)
BY DEF Matching, Prune

LEMMA ValidateAgain ==
    ASSUME NEW S, NEW table \in SUBSET InstantonRows(S), NEW x,
           \A r \in table : r.serial = x => r.validated
    PROVE  Validate(table, x) = table
<1>1. \A r \in table : (IF r.serial = x THEN [r EXCEPT !.validated = TRUE] ELSE r) = r
  BY DEF InstantonRows
<1> QED BY <1>1 DEF Validate

LEMMA MatchingValidate ==
    ASSUME NEW S, NEW table \in SUBSET InstantonRows(S), NEW r \in table,
           \A s \in table : s.serial = r.serial => s = r,
           Matching(table, r.point) = {}
    PROVE  /\ \E q : q.ok = r.ok /\ Matching(Validate(table, r.serial), r.point) = {q}
           /\ \A p : p # r.point =>
                 Matching(Validate(table, r.serial), p) = Matching(table, p)
<1> DEFINE q == [r EXCEPT !.validated = TRUE]
<1>1. /\ q.ok = r.ok /\ q.validated /\ q.point = r.point
  BY DEF InstantonRows
<1>2. Validate(table, r.serial) = (table \ {r}) \cup {q}
  BY DEF Validate
<1>3. Matching(Validate(table, r.serial), r.point) = {q}
  BY <1>1, <1>2 DEF Matching
<1>4. ASSUME NEW p, p # r.point
      PROVE  Matching(Validate(table, r.serial), p) = Matching(table, p)
  BY <1>1, <1>2, <1>4 DEF Matching
<1> QED BY <1>1, <1>3, <1>4

(***************************************************************************)
(* A step leaves every lookup as it was, or answers one that had none.     *)
(***************************************************************************)
Answered(table, next, p, ok) ==
    /\ Matching(table, p) = {}
    /\ \E q : q.ok = ok /\ Matching(next, p) = {q}
    /\ \A o : o # p => Matching(next, o) = Matching(table, o)

Unanswered(table, next) == \A p : Matching(next, p) = Matching(table, p)

LEMMA FILookups ==
    ASSUME TypeInv, PipelineInv, Absent, [Next]_vars
    PROVE  \/ Unanswered(fiTable, fiTable')
           \/ \E u \in Tasks : /\ ValidateFI(u)
                               /\ Answered(fiTable, fiTable', PointOf[u], Outcome(u).fi)
<1>0. fiTable \in SUBSET InstantonRows(Serials) /\ Provenance(fiTable, run) /\ FIProgress
  BY DEF TypeInv, TypeOK, PipelineInv
<1>1. CASE Driver \/ Kill \/ UNCHANGED vars
  BY <1>1, DriverOnTables, MatchingPrune DEF Unanswered, store
<1>2. ASSUME NEW u \in Tasks, ValidateFI(u)
      PROVE  Answered(fiTable, fiTable', PointOf[u], Outcome(u).fi)
  <2>1. found[u].fi = NULL /\ Pending(fiTable, MySerial(u), PointOf[u], Outcome(u).fi)
    BY <1>0, <1>2 DEF ValidateFI, FIProgress
  <2>2. PICK r \in fiTable : r.serial = MySerial(u) /\ r.point = PointOf[u] /\ r.ok = Outcome(u).fi
    BY <2>1 DEF Pending
  <2>3. fiTable' = Validate(fiTable, r.serial)
    BY <1>2, <2>1, <2>2 DEF ValidateFI, FISerial
  <2>4. Matching(fiTable, r.point) = {}
    BY <1>2, <2>1, <2>2 DEF Absent, ValidateFI
  <2>5. \A s \in fiTable : s.serial = r.serial => s = r
    BY <1>0, <2>2 DEF Provenance
  <2>6. /\ \E q : q.ok = r.ok /\ Matching(fiTable', r.point) = {q}
        /\ \A p : p # r.point => Matching(fiTable', p) = Matching(fiTable, p)
    BY <1>0, <2>3, <2>4, <2>5, MatchingValidate
  <2> QED BY <2>2, <2>4, <2>6 DEF Answered
<1>3. ASSUME NEW u \in Tasks, RevalidateFI(u) PROVE Unanswered(fiTable, fiTable')
  <2>1. Settled(fiTable, FISerial(u), PointOf[u], Outcome(u).fi)
    BY <1>0, <1>3 DEF RevalidateFI, FIProgress, AfterFI, AfterSRI
  <2>2. \A r \in fiTable : r.serial = FISerial(u) => r.validated
    BY <1>0, <2>1 DEF Settled, Provenance
  <2>3. fiTable' = fiTable
    BY <1>0, <1>3, <2>2, ValidateAgain DEF RevalidateFI
  <2> QED BY <2>3 DEF Unanswered
<1>4. ASSUME NEW u \in Tasks, fiTable' = fiTable \cup {NewFI(u)}
      PROVE  Unanswered(fiTable, fiTable')
  <2>1. ~NewFI(u).validated
    BY DEF NewFI, InstantonRow
  <2> QED BY <1>4, <2>1, MatchingInsert DEF Unanswered
<1>5. ASSUME fiTable' = fiTable PROVE Unanswered(fiTable, fiTable')
  BY <1>5 DEF Unanswered
<1>6. CASE \E u \in Tasks : Step(u)
  BY <1>2, <1>3, <1>4, <1>5, <1>6, StepOnFI
<1> QED BY <1>1, <1>6 DEF Next

LEMMA SRILookups ==
    ASSUME TypeInv, PipelineInv, Absent, [Next]_vars
    PROVE  \/ Unanswered(sriTable, sriTable')
           \/ \E u \in Tasks : /\ ValidateSRI(u)
                               /\ Answered(sriTable, sriTable', PointOf[u], Outcome(u).sri)
<1>0. sriTable \in SUBSET InstantonRows(Serials) /\ Provenance(sriTable, run) /\ SRIProgress
  BY DEF TypeInv, TypeOK, PipelineInv
<1>1. CASE Driver \/ Kill \/ UNCHANGED vars
  BY <1>1, DriverOnTables, MatchingPrune DEF Unanswered, store
<1>2. ASSUME NEW u \in Tasks, ValidateSRI(u)
      PROVE  Answered(sriTable, sriTable', PointOf[u], Outcome(u).sri)
  <2>1. found[u].sri = NULL /\ Pending(sriTable, MySerial(u), PointOf[u], Outcome(u).sri)
    BY <1>0, <1>2 DEF ValidateSRI, SRIProgress
  <2>2. PICK r \in sriTable : r.serial = MySerial(u) /\ r.point = PointOf[u] /\ r.ok = Outcome(u).sri
    BY <2>1 DEF Pending
  <2>3. sriTable' = Validate(sriTable, r.serial)
    BY <1>2, <2>1, <2>2 DEF ValidateSRI, SRISerial
  <2>4. Matching(sriTable, r.point) = {}
    BY <1>2, <2>1, <2>2 DEF Absent, ValidateSRI
  <2>5. \A s \in sriTable : s.serial = r.serial => s = r
    BY <1>0, <2>2 DEF Provenance
  <2>6. /\ \E q : q.ok = r.ok /\ Matching(sriTable', r.point) = {q}
        /\ \A p : p # r.point => Matching(sriTable', p) = Matching(sriTable, p)
    BY <1>0, <2>3, <2>4, <2>5, MatchingValidate
  <2> QED BY <2>2, <2>4, <2>6 DEF Answered
<1>4. ASSUME NEW u \in Tasks, sriTable' = sriTable \cup {NewSRI(u)}
      PROVE  Unanswered(sriTable, sriTable')
  <2>1. ~NewSRI(u).validated
    BY DEF NewSRI, InstantonRow
  <2> QED BY <1>4, <2>1, MatchingInsert DEF Unanswered
<1>5. ASSUME sriTable' = sriTable PROVE Unanswered(sriTable, sriTable')
  BY <1>5 DEF Unanswered
<1>6. CASE \E u \in Tasks : Step(u)
  BY <1>2, <1>4, <1>5, <1>6, StepOnSRI
<1> QED BY <1>1, <1>6 DEF Next

AbsentFI ==
    \A t \in Tasks :
        phase \in {"lookupSRI", "lookupCF", "work"} /\ found[t].fi = NULL
          /\ stage[t] \in BeforeFI \cup {"validateFI"} => Matching(fiTable, PointOf[t]) = {}

LEMMA AbsentFIKept ==
    ASSUME DistinctTasks, TypeInv, PipelineInv, UniqueInv, [Next]_vars
    PROVE  AbsentFI'
<1>0. Absent /\ AbsentFI /\ AtRest /\ TypeOK
  BY DEF UniqueInv, Absent, AbsentFI, PipelineInv, TypeInv
<1>1. SUFFICES ASSUME NEW t \in Tasks, phase' \in {"lookupSRI", "lookupCF", "work"}, found'[t].fi = NULL,
                      stage'[t] \in BeforeFI \cup {"validateFI"}
               PROVE  Matching(fiTable', PointOf[t]) = {}
  BY DEF AbsentFI
<1>2. ASSUME NEW u \in Tasks, Step(u) PROVE Matching(fiTable', PointOf[t]) = {}
  <2>1. stage[t] \in BeforeFI \cup {"validateFI"} /\ ~(t = u /\ ValidateFI(u))
    BY <1>0, <1>1, <1>2, StepFacts DEF Step, Dispatch, ComputeDone, StoreHandler, PersistFI,
       ValidateFI, PersistSRI, ValidateSRI, PersistCF, CFStored, ValidateCF, RevalidateFI,
       Move, TypeOK, BeforeFI, BeforeSRI
  <2>2. Matching(fiTable, PointOf[t]) = {}
    BY <1>0, <1>1, <1>2, <2>1, StepFacts DEF AbsentFI
  <2>3. ASSUME NEW w \in Tasks, ValidateFI(w), Step(u) PROVE w = u
    <3>1. stage[w] = "validateFI" /\ stage'[w] # "validateFI"
      BY <1>0, <2>3 DEF ValidateFI, Move, TypeOK
    <3> QED BY <2>3, <3>1, StepFacts
  <2>4. CASE Unanswered(fiTable, fiTable')
    BY <2>2, <2>4 DEF Unanswered
  <2>5. CASE \E w \in Tasks : ValidateFI(w) /\ Answered(fiTable, fiTable', PointOf[w], Outcome(w).fi)
    <3>1. PICK w \in Tasks : ValidateFI(w) /\ Answered(fiTable, fiTable', PointOf[w], Outcome(w).fi)
      BY <2>5
    <3>2. w # t
      BY <1>2, <2>1, <2>3, <3>1
    <3>3. PointOf[w] # PointOf[t]
      BY <3>2 DEF DistinctTasks
    <3> QED BY <2>2, <3>1, <3>3 DEF Answered
  <2> QED BY <1>0, <2>4, <2>5, FILookups
<1>3. CASE LookupFI
  <2>1. fiTable' = fiTable /\ found'[t].fi = SerialIn(Matching(fiTable, PointOf[t]))
    BY <1>1, <1>3 DEF LookupFI, store
  <2>2. SerialIn(Matching(fiTable, PointOf[t])) = NULL
    BY <1>1, <2>1
  <2>3. \A r \in fiTable : r.serial # NULL
    BY <1>0, NullIsNoSerial DEF TypeOK, InstantonRows
  <2> QED BY <2>1, <2>2, <2>3 DEF SerialIn, Matching
<1>4. CASE LookupSRI
  BY <1>0, <1>1, <1>4 DEF LookupSRI, AbsentFI, store
<1>5. CASE LookupCF
  BY <1>0, <1>1, <1>5 DEF LookupCF, AbsentFI, AtRest, store, BeforeFI, BeforeSRI
<1>6. CASE Open \/ QueueDone \/ Exit \/ Kill \/ \E T \in Tables : PruneTable(T)
  BY <1>1, <1>6 DEF Open, QueueDone, Exit, Kill, Gone, PruneTable
<1>7. CASE UNCHANGED vars
  BY <1>0, <1>1, <1>7 DEF AbsentFI, vars
<1> QED BY <1>2, <1>3, <1>4, <1>5, <1>6, <1>7 DEF Next, Driver

AbsentSRI ==
    \A t \in Tasks :
        phase \in {"lookupCF", "work"} /\ found[t].sri = NULL
          /\ stage[t] \in BeforeSRI \cup {"validateSRI"} => Matching(sriTable, PointOf[t]) = {}

LEMMA AbsentSRIKept ==
    ASSUME DistinctTasks, TypeInv, PipelineInv, UniqueInv, [Next]_vars
    PROVE  AbsentSRI'
<1>0. Absent /\ AbsentSRI /\ AtRest /\ TypeOK
  BY DEF UniqueInv, Absent, AbsentSRI, PipelineInv, TypeInv
<1>1. SUFFICES ASSUME NEW t \in Tasks, phase' \in {"lookupCF", "work"}, found'[t].sri = NULL,
                      stage'[t] \in BeforeSRI \cup {"validateSRI"}
               PROVE  Matching(sriTable', PointOf[t]) = {}
  BY DEF AbsentSRI
<1>2. ASSUME NEW u \in Tasks, Step(u) PROVE Matching(sriTable', PointOf[t]) = {}
  <2>1. stage[t] \in BeforeSRI \cup {"validateSRI"} /\ ~(t = u /\ ValidateSRI(u))
    BY <1>0, <1>1, <1>2, StepFacts DEF Step, Dispatch, ComputeDone, StoreHandler, PersistFI,
       ValidateFI, PersistSRI, ValidateSRI, PersistCF, CFStored, ValidateCF, RevalidateFI,
       Move, TypeOK, BeforeFI, BeforeSRI
  <2>2. Matching(sriTable, PointOf[t]) = {}
    BY <1>0, <1>1, <1>2, <2>1, StepFacts DEF AbsentSRI
  <2>3. ASSUME NEW w \in Tasks, ValidateSRI(w), Step(u) PROVE w = u
    <3>1. stage[w] = "validateSRI" /\ stage'[w] # "validateSRI"
      BY <1>0, <2>3 DEF ValidateSRI, Move, TypeOK
    <3> QED BY <2>3, <3>1, StepFacts
  <2>4. CASE Unanswered(sriTable, sriTable')
    BY <2>2, <2>4 DEF Unanswered
  <2>5. CASE \E w \in Tasks : ValidateSRI(w) /\ Answered(sriTable, sriTable', PointOf[w], Outcome(w).sri)
    <3>1. PICK w \in Tasks : ValidateSRI(w) /\ Answered(sriTable, sriTable', PointOf[w], Outcome(w).sri)
      BY <2>5
    <3>2. w # t
      BY <1>2, <2>1, <2>3, <3>1
    <3>3. PointOf[w] # PointOf[t]
      BY <3>2 DEF DistinctTasks
    <3> QED BY <2>2, <3>1, <3>3 DEF Answered
  <2> QED BY <1>0, <2>4, <2>5, SRILookups
<1>3. CASE LookupSRI
  <2>1. sriTable' = sriTable /\ found'[t].sri = SerialIn(Matching(sriTable, PointOf[t]))
    BY <1>1, <1>3 DEF LookupSRI, store
  <2>2. SerialIn(Matching(sriTable, PointOf[t])) = NULL
    BY <1>1, <2>1
  <2>3. \A r \in sriTable : r.serial # NULL
    BY <1>0, NullIsNoSerial DEF TypeOK, InstantonRows
  <2> QED BY <2>1, <2>2, <2>3 DEF SerialIn, Matching
<1>4. CASE LookupFI
  BY <1>1, <1>4 DEF LookupFI
<1>5. CASE LookupCF
  BY <1>0, <1>1, <1>5 DEF LookupCF, AbsentSRI, AtRest, store, BeforeFI, BeforeSRI
<1>6. CASE Open \/ QueueDone \/ Exit \/ Kill \/ \E T \in Tables : PruneTable(T)
  BY <1>1, <1>6 DEF Open, QueueDone, Exit, Kill, Gone, PruneTable
<1>7. CASE UNCHANGED vars
  BY <1>0, <1>1, <1>7 DEF AbsentSRI, vars
<1> QED BY <1>2, <1>3, <1>4, <1>5, <1>6, <1>7 DEF Next, Driver

LEMMA UniqueKept ==
    ASSUME DistinctTasks, TypeInv, PipelineInv, UniqueInv, [Next]_vars
    PROVE  UniqueInv'
<1>1. Absent'
  BY AbsentFIKept, AbsentSRIKept DEF Absent, AbsentFI, AbsentSRI
<1>2. \A p \in Points : ~Ambiguous(Matching(fiTable', p))
  <2>1. \A p \in Points : ~Ambiguous(Matching(fiTable, p))
    BY DEF UniqueInv, OneValidatedRow
  <2> QED BY <2>1, FILookups DEF UniqueInv, Unanswered, Answered, Ambiguous
<1>3. \A p \in Points : ~Ambiguous(Matching(sriTable', p))
  <2>1. \A p \in Points : ~Ambiguous(Matching(sriTable, p))
    BY DEF UniqueInv, OneValidatedRow
  <2> QED BY <2>1, SRILookups DEF UniqueInv, Unanswered, Answered, Ambiguous
<1> QED BY <1>1, <1>2, <1>3 DEF UniqueInv, OneValidatedRow

LEMMA InitUnique == Init => UniqueInv
BY DEF Init, UniqueInv, OneValidatedRow, Absent, Ambiguous, Matching

LEMMA UniqueInvariant ==
    ASSUME DistinctTasks
    PROVE  Spec => []UniqueInv
<1>1. TypeInv /\ PipelineInv /\ UniqueInv /\ [Next]_vars => UniqueInv'
  BY UniqueKept
<1> QED BY <1>1, InitUnique, PipelineInvariant, TypeInvariant, PTL DEF Spec

(***************************************************************************)
(* A grid without duplicates never gets a second validated row of a kind:  *)
(* its lookups never raise.                                                *)
(***************************************************************************)
THEOREM OneRowPerPoint ==
    ASSUME DistinctTasks
    PROVE  Spec => []OneValidatedRow
<1>1. UniqueInv => OneValidatedRow
  BY DEF UniqueInv
<1> QED BY <1>1, UniqueInvariant, PTL

-----------------------------------------------------------------------------
(***************************************************************************)
(* The ledger of verdicts.                                                 *)
(***************************************************************************)
LEMMA VerdictSame ==
    ASSUME NEW table, NEW next, Unanswered(table, next)
    PROVE  Verdict(next) = Verdict(table)
BY DEF Verdict, Unanswered

LEMMA VerdictSettled ==
    ASSUME NEW table, NEW next, NEW p \in Points, NEW ok, Answered(table, next, p, ok)
    PROVE  /\ Verdict(table)[p] = "none"
           /\ \E v \in {"solved", "failed"} :
                 Verdict(next) = [Verdict(table) EXCEPT ![p] = v]
<1> DEFINE v == IF \E r \in Matching(next, p) : r.ok THEN "solved" ELSE "failed"
<1>1. Verdict(table)[p] = "none"
  BY DEF Verdict, Answered
<1>2. Verdict(next) = [Verdict(table) EXCEPT ![p] = v]
  <2>1. Matching(next, p) # {}
    BY DEF Answered
  <2>2. \A o \in Points : o # p => Matching(next, o) = Matching(table, o)
    BY DEF Answered
  <2> QED BY <2>1, <2>2 DEF Verdict
<1> QED BY <1>1, <1>2

(***************************************************************************)
(* The two tables of instantons implement the ledger.                      *)
(***************************************************************************)
THEOREM FILedgerImplemented ==
    ASSUME DistinctTasks
    PROVE  Spec => ImplementsFILedger
<1>1. Init => FILedger!Init
  BY DEF Init, FILedger!Init, Verdict, Matching
<1>2. TypeInv /\ PipelineInv /\ UniqueInv /\ [Next]_vars => [FILedger!Next]_(Verdict(fiTable))
  <2> SUFFICES ASSUME TypeInv, PipelineInv, UniqueInv, [Next]_vars
               PROVE  FILedger!Next \/ Verdict(fiTable') = Verdict(fiTable)
    OBVIOUS
  <2>1. \A u \in Tasks : PointOf[u] \in Points
    BY PipelineAssumption
  <2>2. ASSUME NEW u \in Tasks, Answered(fiTable, fiTable', PointOf[u], Outcome(u).fi)
        PROVE  FILedger!Next
    BY <2>1, <2>2, VerdictSettled DEF FILedger!Next, FILedger!Settle, FILedger!Verdicts
  <2> QED BY <2>2, FILookups, VerdictSame DEF UniqueInv
<1> QED BY <1>1, <1>2, UniqueInvariant, PipelineInvariant, TypeInvariant, PTL
        DEF Spec, ImplementsFILedger, FILedger!Spec

THEOREM SRILedgerImplemented ==
    ASSUME DistinctTasks
    PROVE  Spec => ImplementsSRILedger
<1>1. Init => SRILedger!Init
  BY DEF Init, SRILedger!Init, Verdict, Matching
<1>2. TypeInv /\ PipelineInv /\ UniqueInv /\ [Next]_vars => [SRILedger!Next]_(Verdict(sriTable))
  <2> SUFFICES ASSUME TypeInv, PipelineInv, UniqueInv, [Next]_vars
               PROVE  SRILedger!Next \/ Verdict(sriTable') = Verdict(sriTable)
    OBVIOUS
  <2>1. \A u \in Tasks : PointOf[u] \in Points
    BY PipelineAssumption
  <2>2. ASSUME NEW u \in Tasks, Answered(sriTable, sriTable', PointOf[u], Outcome(u).sri)
        PROVE  SRILedger!Next
    BY <2>1, <2>2, VerdictSettled DEF SRILedger!Next, SRILedger!Settle, SRILedger!Verdicts
  <2> QED BY <2>2, SRILookups, VerdictSame DEF UniqueInv
<1> QED BY <1>1, <1>2, UniqueInvariant, PipelineInvariant, TypeInvariant, PTL
        DEF Spec, ImplementsSRILedger, SRILedger!Spec

-----------------------------------------------------------------------------
(***************************************************************************)
(* The rows a serial stands for.                                           *)
(***************************************************************************)
LEMMA SerialOfOneRow ==
    ASSUME NEW table, NEW p, NEW x, ~Ambiguous(Matching(table, p)), Valid(table, x, p)
    PROVE  Matching(table, p) # {} /\ SerialIn(Matching(table, p)) = x
<1>1. PICK r \in table : r.validated /\ r.serial = x /\ r.point = p
  BY DEF Valid
<1>2. r \in Matching(table, p)
  BY <1>1 DEF Matching
<1>3. (CHOOSE s \in Matching(table, p) : TRUE) \in Matching(table, p)
  BY <1>2
<1>4. (CHOOSE s \in Matching(table, p) : TRUE) = r
  BY <1>2, <1>3 DEF Ambiguous
<1> QED BY <1>1, <1>2, <1>4 DEF SerialIn

LEMMA SettledIsValid ==
    ASSUME NEW table, NEW x, NEW p, NEW ok, Settled(table, x, p, ok)
    PROVE  Valid(table, x, p)
BY DEF Settled, Valid

\* The row under the serial an item holds is one of its own point
LEMMA OwnPoint ==
    ASSUME PipelineInv, NEW t \in Tasks
    PROVE  /\ \A r \in fiTable : r.serial = FISerial(t) => r.point = PointOf[t]
           /\ \A r \in sriTable : r.serial = SRISerial(t) => r.point = PointOf[t]
<1>1. /\ Provenance(fiTable, run) /\ Provenance(sriTable, run)
      /\ found[t].fi # NULL => Valid(fiTable, found[t].fi, PointOf[t])
      /\ found[t].sri # NULL => Valid(sriTable, found[t].sri, PointOf[t])
  BY DEF PipelineInv, FoundIsValid
<1>2. MySerial(t)[1] = t
  BY DEF MySerial
<1>3. \A r \in fiTable : r.serial = FISerial(t) => r.point = PointOf[t]
  BY <1>1, <1>2 DEF FISerial, Provenance, Valid
<1>4. \A r \in sriTable : r.serial = SRISerial(t) => r.point = PointOf[t]
  BY <1>1, <1>2 DEF SRISerial, Provenance, Valid
<1> QED BY <1>3, <1>4

LEMMA MatchingStays ==
    ASSUME NEW table, NEW next, NEW p, \A r \in table : r.validated => r \in next,
           Matching(table, p) # {}
    PROVE  Matching(next, p) # {}
BY DEF Matching

\* Where an item is after its instantons are settled, they are valid under its serials
LEMMA ServedIsValid ==
    ASSUME PipelineInv, NEW t \in Tasks, stage[t] \in AfterSRI
    PROVE  /\ Valid(fiTable, FISerial(t), PointOf[t])
           /\ Valid(sriTable, SRISerial(t), PointOf[t])
BY SettledIsValid DEF PipelineInv, FIProgress, SRIProgress, AfterFI

-----------------------------------------------------------------------------
(***************************************************************************)
(* The table of compaction functions.                                      *)
(***************************************************************************)
LEMMA CFOrigin ==
    ASSUME TypeInv, NEW x
    PROVE  \A q \in Validate(cfTable, x) : \E c \in cfTable :
              /\ q.serial = c.serial /\ HasKeys(q, c)
              /\ q.validated => c.validated \/ c.serial = x
              /\ c.validated \/ c.serial # x => q = c
<1>1. cfTable \subseteq CompactionRows(Serials, Serials \cup {NULL})
  BY DEF TypeInv, TypeOK
<1> QED BY <1>1 DEF Validate, HasKeys, CompactionRows

LEMMA CFImage ==
    ASSUME TypeInv, NEW x
    PROVE  \A c \in cfTable : \E q \in Validate(cfTable, x) :
              /\ q.serial = c.serial /\ HasKeys(q, c)
              /\ c.serial = x => q.validated
<1> SUFFICES ASSUME NEW c \in cfTable
             PROVE  \E q \in Validate(cfTable, x) :
                       /\ q.serial = c.serial /\ HasKeys(q, c)
                       /\ c.serial = x => q.validated
  OBVIOUS
<1>1. c \in CompactionRows(Serials, Serials \cup {NULL})
  BY DEF TypeInv, TypeOK
<1> DEFINE q == IF c.serial = x THEN [c EXCEPT !.validated = TRUE] ELSE c
<1>2. q \in Validate(cfTable, x)
  BY DEF Validate
<1>3. /\ q.serial = c.serial /\ HasKeys(q, c)
      /\ c.serial = x => q.validated
  BY <1>1 DEF HasKeys, CompactionRows
<1> QED BY <1>2, <1>3

LEMMA NextOnCF ==
    ASSUME [Next]_vars
    PROVE  \/ cfTable' = cfTable
           \/ cfTable' = Prune(cfTable) /\ phase = "opening"
                 /\ UNCHANGED <<run, phase, result, found, stage>>
           \/ \E u \in Tasks : CFStored(u) /\ cfTable' = cfTable \cup {NewCF(u)}
           \/ \E u \in Tasks : ValidateCF(u) /\ cfTable' = Validate(cfTable, MySerial(u))
<1>1. ASSUME NEW u \in Tasks, Step(u), ~CFStored(u), ~ValidateCF(u) PROVE cfTable' = cfTable
  BY <1>1 DEF Step, Dispatch, ComputeDone, StoreHandler, PersistFI, ValidateFI, PersistSRI,
     ValidateSRI, PersistCF, RevalidateFI, store
<1>2. ASSUME NEW u \in Tasks, CFStored(u) PROVE cfTable' = cfTable \cup {NewCF(u)}
  BY <1>2 DEF CFStored
<1>3. ASSUME NEW u \in Tasks, ValidateCF(u) PROVE cfTable' = Validate(cfTable, MySerial(u))
  BY <1>3 DEF ValidateCF
<1>4. CASE Driver \/ Kill \/ UNCHANGED vars
  BY <1>4, DriverOnTables DEF store
<1> QED BY <1>1, <1>2, <1>3, <1>4 DEF Next

LEMMA NewCFKeys ==
    ASSUME NEW u \in Tasks
    PROVE  NewCF(u).serial = MySerial(u) /\ HasKeys(NewCF(u), CFKeys(u)) /\ ~NewCF(u).validated
BY DEF NewCF, CompactionRow, HasKeys, CFKeys

-----------------------------------------------------------------------------
(***************************************************************************)
(* What a regular end means.                                               *)
(***************************************************************************)
LEMMA BothSettledKept ==
    ASSUME TypeInv, PipelineInv, [Next]_vars, \A c \in cfTable : BothSettled(c)
    PROVE  \A c \in cfTable' : BothSettled(c)'
<1>0. Kept
  BY StepKeeps
<1>1. ASSUME NEW c \in cfTable PROVE BothSettled(c)'
  <2>1. PICK p \in Points : /\ Matching(fiTable, p) # {} /\ Matching(sriTable, p) # {}
                            /\ c.fi # NULL => Valid(fiTable, c.fi, p)
                            /\ c.sri # NULL => Valid(sriTable, c.sri, p)
    BY DEF BothSettled
  <2>2. Matching(fiTable', p) # {} /\ Matching(sriTable', p) # {}
    BY <1>0, <2>1, MatchingStays DEF Kept
  <2>3. /\ c.fi # NULL => Valid(fiTable', c.fi, p)
        /\ c.sri # NULL => Valid(sriTable', c.sri, p)
    BY <1>0, <2>1 DEF Kept, Valid
  <2> QED BY <2>2, <2>3 DEF BothSettled
<1>2. ASSUME NEW u \in Tasks, CFStored(u) PROVE BothSettled(NewCF(u))'
  <2>1. /\ Valid(fiTable, FISerial(u), PointOf[u]) /\ Valid(sriTable, SRISerial(u), PointOf[u])
        /\ fiTable' = fiTable /\ sriTable' = sriTable
    BY <1>2, ServedIsValid DEF CFStored, AfterSRI
  <2>2. Matching(fiTable, PointOf[u]) # {} /\ Matching(sriTable, PointOf[u]) # {}
    BY <2>1 DEF Valid, Matching
  <2>3. PointOf[u] \in Points
    BY PipelineAssumption
  <2>4. /\ NewCF(u)'.fi \in {FISerial(u), NULL} /\ NewCF(u)'.sri \in {SRISerial(u), NULL}
    BY <1>2 DEF CFStored, NewCF, CompactionRow, Outcome, FISerial, SRISerial, MySerial
  <2> QED BY <2>1, <2>2, <2>3, <2>4 DEF BothSettled
<1>3. ASSUME NEW u \in Tasks, CFStored(u) PROVE NewCF(u)' = NewCF(u)
  BY <1>3 DEF CFStored, NewCF, CompactionRow, Outcome, FISerial, SRISerial, MySerial
<1>4. ASSUME NEW x, NEW q \in Validate(cfTable, x) PROVE BothSettled(q)'
  <2>1. PICK c \in cfTable : q.fi = c.fi /\ q.sri = c.sri
    BY <1>4, CFOrigin DEF HasKeys
  <2>2. BothSettled(c)'
    BY <1>1
  <2> QED BY <2>1, <2>2 DEF BothSettled
<1> QED BY <1>1, <1>2, <1>3, <1>4, NextOnCF, PruneFacts

LEMMA CFProgressKept ==
    ASSUME TypeInv, PipelineInv, CFProgress, [Next]_vars
    PROVE  CFProgress'
<1>0. TypeOK /\ AtRest /\ Kept
  BY StepKeeps DEF TypeInv, PipelineInv
<1>1. ASSUME NEW u \in Tasks, Step(u) PROVE CFProgress'
  <2>1. SUFFICES ASSUME NEW t \in Tasks
        PROVE  /\ stage'[t] = "validatingCF" =>
                      \E c \in cfTable' : c.serial = MySerial(t) /\ HasKeys(c, CFKeys(t))
               /\ stage'[t] = "done" /\ HasCF(t) =>
                      \E c \in cfTable' : c.validated /\ HasKeys(c, CFKeys(t))
               /\ stage'[t] = "validatingFI" => ~HasCF(t)
    <3>1. \A t \in Tasks : UNCHANGED <<MySerial(t), CFKeys(t), HasCF(t)>>
      BY <1>1, StepFacts DEF MySerial, CFKeys, HasCF, Outcome, FISerial, SRISerial
    <3> QED BY <3>1 DEF CFProgress
  <2>2. CASE CFStored(u) /\ t = u
    <3>1. stage'[t] = "validatingCF" /\ NewCF(t) \in cfTable'
      BY <1>0, <2>2 DEF CFStored, Move, TypeOK
    <3> QED BY <3>1, NewCFKeys
  <2>3. CASE ValidateCF(u) /\ t = u
    <3>1. stage'[t] = "done" /\ stage[t] = "validatingCF" /\ cfTable' = Validate(cfTable, MySerial(t))
      BY <1>0, <2>3 DEF ValidateCF, Move, TypeOK
    <3>2. PICK c \in cfTable : c.serial = MySerial(t) /\ HasKeys(c, CFKeys(t))
      BY <3>1 DEF CFProgress
    <3>3. \E q \in cfTable' : q.validated /\ HasKeys(q, CFKeys(t))
      BY <3>1, <3>2, CFImage DEF HasKeys
    <3> QED BY <3>1, <3>3
  <2>4. CASE RevalidateFI(u) /\ t = u
    BY <1>0, <2>4 DEF RevalidateFI, Move, TypeOK, CFProgress
  <2>5. CASE PersistCF(u) /\ t = u
    BY <1>0, <2>5 DEF PersistCF, Move, TypeOK
  <2>6. CASE ~(t = u /\ (CFStored(u) \/ ValidateCF(u) \/ RevalidateFI(u) \/ PersistCF(u)))
    <3>1. stage'[t] \in {"validatingCF", "done", "validatingFI"} => stage'[t] = stage[t]
      BY <1>0, <1>1, <2>6, StepFacts DEF Step, Dispatch, ComputeDone, StoreHandler, PersistFI,
         ValidateFI, PersistSRI, ValidateSRI, Move, TypeOK
    <3>2. \A c \in cfTable : \E q \in cfTable' : q.serial = c.serial /\ HasKeys(q, c)
      <4>1. \A c \in cfTable : HasKeys(c, c)
        BY DEF HasKeys
      <4>2. Step(u) => phase # "opening"
        BY StepFacts
      <4> QED BY <1>1, <4>1, <4>2, NextOnCF, CFImage DEF Next
    <3>3. \A c \in cfTable : c.validated => c \in cfTable'
      BY <1>0 DEF Kept
    <3>4. stage[t] = "validatingCF" =>
            \E c \in cfTable' : c.serial = MySerial(t) /\ HasKeys(c, CFKeys(t))
      BY <3>2 DEF CFProgress, HasKeys
    <3>5. stage[t] = "done" /\ HasCF(t) =>
            \E c \in cfTable' : c.validated /\ HasKeys(c, CFKeys(t))
      BY <3>3 DEF CFProgress
    <3> QED BY <3>1, <3>4, <3>5 DEF CFProgress
  <2> QED BY <2>2, <2>3, <2>4, <2>5, <2>6
<1>2. CASE UNCHANGED vars \/ QueueDone
  <2>1. UNCHANGED <<cfTable, run, found, result, stage>>
    BY <1>2 DEF vars, QueueDone, store
  <2> QED BY <2>1 DEF CFProgress, MySerial, CFKeys, HasCF, Outcome, FISerial, SRISerial
<1>3. CASE (Driver /\ ~QueueDone) \/ Kill
  <2>1. \A t \in Tasks : stage'[t] \in {"idle", "queued"}
    BY <1>0, <1>3 DEF Driver, Open, LookupFI, LookupSRI, LookupCF, PruneTable, Exit, Kill,
       Gone, AtRest
  <2> QED BY <2>1 DEF CFProgress
<1> QED BY <1>1, <1>2, <1>3 DEF Next

\* A compaction function looked up with one key missing cannot be there
LEMMA FoundBoth ==
    ASSUME TypeInv, PipelineInv, UniqueInv, CompletionInv, phase = "lookupCF",
           NEW t \in Tasks, Checkable(t), NEW c \in StoredCF(t)
    PROVE  found[t].fi # NULL /\ found[t].sri # NULL
<1>1. c \in cfTable /\ HasKeys(c, found[t])
  BY DEF StoredCF, MatchingCompaction, HasKeys
<1>2. PICK p \in Points : /\ Matching(fiTable, p) # {} /\ Matching(sriTable, p) # {}
                          /\ c.fi # NULL => Valid(fiTable, c.fi, p)
                          /\ c.sri # NULL => Valid(sriTable, c.sri, p)
  BY <1>1 DEF CompletionInv, BothSettled
<1>3. p = PointOf[t]
  <2>1. /\ found[t].fi # NULL => Valid(fiTable, found[t].fi, PointOf[t])
        /\ found[t].sri # NULL => Valid(sriTable, found[t].sri, PointOf[t])
        /\ Provenance(fiTable, run) /\ Provenance(sriTable, run)
    BY DEF PipelineInv, FoundIsValid
  <2> QED BY <1>1, <1>2, <2>1 DEF Checkable, HasKeys, Valid, Provenance
<1>4. stage[t] = "idle"
  BY DEF PipelineInv, AtRest
<1> QED BY <1>2, <1>3, <1>4 DEF UniqueInv, Absent, BeforeFI, BeforeSRI

LEMMA IdleIsServedKept ==
    ASSUME TypeInv, PipelineInv, UniqueInv, CompletionInv, [Next]_vars
    PROVE  IdleIsServed'
<1>0. TypeOK /\ IdleIsServed /\ Kept
  BY StepKeeps DEF TypeInv, CompletionInv
<1>1. SUFFICES ASSUME NEW t \in Tasks, phase' \in {"work", "finished"}, stage'[t] = "idle"
      PROVE  /\ found'[t].fi # NULL /\ found'[t].sri # NULL
             /\ \E c \in cfTable' : c.validated /\ HasKeys(c, found'[t])
  BY DEF IdleIsServed, HasKeys
<1>2. ASSUME phase \in {"work", "finished"}, stage[t] = "idle", found' = found
      PROVE  /\ found'[t].fi # NULL /\ found'[t].sri # NULL
             /\ \E c \in cfTable' : c.validated /\ HasKeys(c, found'[t])
  BY <1>0, <1>2 DEF IdleIsServed, Kept
<1>3. ASSUME NEW u \in Tasks, Step(u)
      PROVE  phase = "work" /\ stage[t] = "idle" /\ found' = found
  <2>1. stage'[u] # "idle"
    BY <1>0, <1>1, <1>3 DEF Step, Dispatch, ComputeDone, StoreHandler, PersistFI,
       ValidateFI, PersistSRI, ValidateSRI, PersistCF, CFStored, ValidateCF, RevalidateFI,
       Move, TypeOK
  <2> QED BY <1>1, <1>3, <2>1, StepFacts
<1>4. CASE LookupCF
  <2>1. Checkable(t) /\ StoredCF(t) # {} /\ found' = found /\ cfTable' = cfTable
    BY <1>1, <1>4 DEF LookupCF, store
  <2>2. phase = "lookupCF"
    BY <1>4 DEF LookupCF
  <2>3. found[t].fi # NULL /\ found[t].sri # NULL
    BY <2>1, <2>2, FoundBoth
  <2>4. \E c \in cfTable : c.validated /\ HasKeys(c, found[t])
    BY <2>1 DEF StoredCF, MatchingCompaction, HasKeys
  <2> QED BY <2>1, <2>3, <2>4
<1>5. CASE QueueDone \/ UNCHANGED vars
  <2>1. phase \in {"work", "finished"} /\ stage[t] = "idle" /\ found' = found
    BY <1>1, <1>5 DEF QueueDone, vars
  <2> QED BY <1>2, <2>1
<1>6. ~(Open \/ LookupFI \/ LookupSRI \/ Exit \/ Kill)
  BY <1>1 DEF Open, LookupFI, LookupSRI, Exit, Kill, Gone
<1>7. ~(\E T \in Tables : PruneTable(T))
  BY <1>1 DEF PruneTable
<1> QED BY <1>2, <1>3, <1>4, <1>5, <1>6, <1>7 DEF Next, Driver

LEMMA QueueIsEmptyKept ==
    ASSUME TypeInv, PipelineInv, CompletionInv, [Next]_vars
    PROVE  QueueIsEmpty'
<1>0. TypeOK /\ QueueIsEmpty /\ AtRest
  BY DEF TypeInv, CompletionInv, PipelineInv
<1>1. SUFFICES ASSUME phase' = "finished", NEW t \in Tasks PROVE stage'[t] \in {"idle", "done"}
  BY DEF QueueIsEmpty
<1>2. CASE LookupCF
  <2>1. phase' = "finished" => \A u \in Tasks : stage'[u] = "idle"
    BY <1>2 DEF LookupCF
  <2> QED BY <1>1, <2>1
<1>3. CASE QueueDone \/ UNCHANGED vars
  BY <1>0, <1>1, <1>3 DEF QueueDone, vars, QueueIsEmpty
<1>4. ~(Open \/ LookupFI \/ LookupSRI \/ Exit \/ Kill)
  BY <1>1 DEF Open, LookupFI, LookupSRI, Exit, Kill, Gone
<1>5. ~(\E T \in Tables : PruneTable(T))
  BY <1>1 DEF PruneTable
<1>6. ~(\E u \in Tasks : Step(u))
  BY <1>1, StepFacts
<1> QED BY <1>2, <1>3, <1>4, <1>5, <1>6 DEF Next, Driver

LEMMA InitCompletion == Init => CompletionInv
<1> SUFFICES ASSUME Init PROVE CompletionInv
  OBVIOUS
<1>1. CFProgress
  BY DEF Init, CFProgress
<1>2. (\A c \in cfTable : BothSettled(c)) /\ IdleIsServed /\ QueueIsEmpty
  BY DEF Init, IdleIsServed, QueueIsEmpty
<1> QED BY <1>1, <1>2 DEF CompletionInv

LEMMA CompletionInvariant ==
    ASSUME DistinctTasks
    PROVE  Spec => []CompletionInv
<1>1. TypeInv /\ PipelineInv /\ UniqueInv /\ CompletionInv /\ [Next]_vars => CompletionInv'
  <2> SUFFICES ASSUME TypeInv, PipelineInv, UniqueInv, CompletionInv, [Next]_vars
               PROVE  CompletionInv'
    OBVIOUS
  <2>1. (\A c \in cfTable : BothSettled(c)) /\ CFProgress
    BY DEF CompletionInv
  <2>2. (\A c \in cfTable : BothSettled(c))'
    BY <2>1, BothSettledKept
  <2>3. CFProgress'
    BY <2>1, CFProgressKept
  <2> QED BY <2>2, <2>3, IdleIsServedKept, QueueIsEmptyKept DEF CompletionInv
<1> QED BY <1>1, InitCompletion, UniqueInvariant, PipelineInvariant, TypeInvariant, PTL DEF Spec

(***************************************************************************)
(* A run that comes to its regular end leaves both instantons of every     *)
(* grid item in the store and, unless both solves failed, a validated      *)
(* compaction function that names those it can solve: over any number of   *)
(* kills, prunes and earlier runs, and also when the solver has changed.   *)
(***************************************************************************)
THEOREM FinishedIsAlwaysComplete ==
    ASSUME DistinctTasks
    PROVE  Spec => []FinishedIsComplete
<1>1. TypeInv /\ PipelineInv /\ UniqueInv /\ CompletionInv => FinishedIsComplete
  <2> SUFFICES ASSUME TypeInv, PipelineInv, UniqueInv, CompletionInv, phase = "finished",
                      NEW t \in Tasks
               PROVE  /\ Matching(fiTable, PointOf[t]) # {} /\ Matching(sriTable, PointOf[t]) # {}
                      /\ \/ stage[t] = "done" /\ ~HasCF(t)
                         \/ \E c \in cfTable :
                              /\ c.validated
                              /\ c.fi \in {SerialIn(Matching(fiTable, PointOf[t]))}
                                    \cup (IF Outcome(t).fi THEN {} ELSE {NULL})
                              /\ c.sri \in {SerialIn(Matching(sriTable, PointOf[t]))}
                                    \cup (IF Outcome(t).sri THEN {} ELSE {NULL})
    BY DEF FinishedIsComplete
  <2>1. /\ ~Ambiguous(Matching(fiTable, PointOf[t]))
        /\ ~Ambiguous(Matching(sriTable, PointOf[t]))
    BY PipelineAssumption DEF UniqueInv, OneValidatedRow
  <2>2. CASE stage[t] = "idle"
    <3>1. PICK c \in cfTable : c.validated /\ HasKeys(c, found[t])
      BY <2>2 DEF CompletionInv, IdleIsServed
    <3>2. /\ Valid(fiTable, found[t].fi, PointOf[t])
          /\ Valid(sriTable, found[t].sri, PointOf[t])
      BY <2>2 DEF CompletionInv, IdleIsServed, PipelineInv, FoundIsValid
    <3> QED BY <2>1, <3>1, <3>2, SerialOfOneRow DEF HasKeys
  <2>3. CASE stage[t] = "done"
    <3>1. /\ Valid(fiTable, FISerial(t), PointOf[t])
          /\ Valid(sriTable, SRISerial(t), PointOf[t])
      BY <2>3, ServedIsValid DEF AfterSRI
    <3>2. HasCF(t) => \E c \in cfTable : c.validated /\ HasKeys(c, CFKeys(t))
      BY <2>3 DEF CompletionInv, CFProgress
    <3> QED BY <2>1, <2>3, <3>1, <3>2, SerialOfOneRow DEF HasKeys, CFKeys
  <2> QED BY <2>2, <2>3 DEF CompletionInv, QueueIsEmpty
<1> QED BY <1>1, CompletionInvariant, UniqueInvariant, PipelineInvariant, TypeInvariant, PTL

-----------------------------------------------------------------------------
(***************************************************************************)
(* One validated compaction function for a pair of keys.                   *)
(***************************************************************************)
LEMMA CFProvenanceKept ==
    ASSUME TypeInv, CompactionInv, [Next]_vars
    PROVE  CFProvenance'
<1>0. CFProvenance /\ CFFresh
  BY DEF CompactionInv
<1>1. cfTable \subseteq CompactionRows(Serials, Serials \cup {NULL})
  BY DEF TypeInv, TypeOK
<1>2. \A c \in cfTable : c.serial[2] <= run'
  <2>1. \A c \in cfTable : c.serial[2] \in Nat /\ c.serial[2] <= run
    BY <1>0, <1>1, PipelineAssumption DEF CFProvenance, CompactionRows, Serials
  <2> QED BY <2>1, RunGrows
<1>3. CASE cfTable' \subseteq cfTable
  BY <1>0, <1>2, <1>3 DEF CFProvenance
<1>4. ASSUME NEW u \in Tasks, CFStored(u), cfTable' = cfTable \cup {NewCF(u)} PROVE CFProvenance'
  <2>1. NewCF(u).serial = MySerial(u)
    BY NewCFKeys
  <2>2. \A c \in cfTable : c.serial # MySerial(u)
    BY <1>0, <1>4 DEF CFFresh, CFStored
  <2>3. MySerial(u)[2] <= run'
    BY <1>4, RunGrows DEF MySerial, CFStored
  <2> QED BY <1>0, <1>2, <1>4, <2>1, <2>2, <2>3 DEF CFProvenance
<1>5. ASSUME NEW u \in Tasks, cfTable' = Validate(cfTable, MySerial(u)) PROVE CFProvenance'
  <2> DEFINE Image(c) == IF c.serial = MySerial(u) THEN [c EXCEPT !.validated = TRUE] ELSE c
  <2>1. \A q \in cfTable' : \E c \in cfTable : q.serial = c.serial /\ q = Image(c)
    BY <1>1, <1>5 DEF Validate, CompactionRows
  <2>2. \A q \in cfTable' : q.serial[2] <= run'
    BY <1>2, <2>1
  <2>3. ASSUME NEW q \in cfTable', NEW p \in cfTable', p.serial = q.serial PROVE p = q
    <3>1. PICK c \in cfTable : q.serial = c.serial /\ q = Image(c)
      BY <2>1
    <3>2. PICK d \in cfTable : p.serial = d.serial /\ p = Image(d)
      BY <2>1
    <3>3. c = d
      BY <1>0, <2>3, <3>1, <3>2 DEF CFProvenance
    <3> QED BY <3>1, <3>2, <3>3
  <2> QED BY <2>2, <2>3 DEF CFProvenance
<1> QED BY <1>3, <1>4, <1>5, NextOnCF, PruneFacts

LEMMA CFFreshKept ==
    ASSUME TypeInv, PipelineInv, CompactionInv, [Next]_vars
    PROVE  CFFresh'
<1>0. CFFresh /\ CFProvenance /\ TypeOK /\ AtRest
  BY DEF CompactionInv, TypeInv, PipelineInv
<1>1. ASSUME NEW u \in Tasks, Step(u) PROVE CFFresh'
  <2>1. SUFFICES ASSUME NEW t \in Tasks, stage'[t] \notin {"validatingCF", "done"}
        PROVE  \A q \in cfTable' : q.serial # MySerial(t)
    BY <1>1, StepFacts DEF CFFresh, MySerial
  <2>2. stage[t] \notin {"validatingCF", "done"} /\ ~(t = u /\ CFStored(u))
    BY <1>0, <1>1, <2>1, StepFacts DEF Step, Dispatch, ComputeDone, StoreHandler, PersistFI,
       ValidateFI, PersistSRI, ValidateSRI, PersistCF, CFStored, ValidateCF, RevalidateFI,
       Move, TypeOK
  <2>3. \A c \in cfTable : c.serial # MySerial(t)
    BY <1>0, <1>1, <2>2, StepFacts DEF CFFresh
  <2>4. ASSUME NEW w \in Tasks, CFStored(w) PROVE NewCF(w).serial # MySerial(t)
    <3>1. stage[w] = "storingCF" /\ stage'[w] = "validatingCF"
      BY <1>0, <2>4 DEF CFStored, Move, TypeOK
    <3>2. w # t
      BY <2>1, <3>1
    <3> QED BY <3>2, NewCFKeys DEF MySerial
  <2>5. phase # "opening"
    BY <1>1, StepFacts
  <2> QED BY <1>1, <2>3, <2>4, <2>5, NextOnCF, CFOrigin DEF Next
<1>2. CASE Open
  <2>1. run \in Nat /\ run' = run + 1 /\ cfTable' = cfTable
    BY <1>0, <1>2 DEF Open, TypeOK, store
  <2>2. \A t \in Tasks : MySerial(t)'[2] = run + 1
    BY <2>1 DEF MySerial
  <2>3. \A c \in cfTable : c.serial[2] \in Nat /\ c.serial[2] <= run
    BY <1>0, PipelineAssumption DEF CFProvenance, TypeOK, CompactionRows, Serials
  <2>4. \A n \in Nat : n <= run => n # run + 1
    BY <2>1
  <2> QED BY <2>1, <2>2, <2>3, <2>4 DEF CFFresh
<1>3. CASE LookupCF
  <2>1. \A t \in Tasks : stage[t] = "idle"
    BY <1>0, <1>3 DEF LookupCF, AtRest
  <2> QED BY <1>0, <1>3, <2>1 DEF LookupCF, CFFresh, MySerial, store
<1>4. CASE Exit \/ Kill
  BY <1>4 DEF Exit, Kill, Gone, CFFresh
<1>5. CASE \E T \in Tables : PruneTable(T)
  <2>1. cfTable' \subseteq cfTable /\ phase # "down" /\ stage' = stage /\ run' = run
    BY <1>5, PruneFacts DEF PruneTable
  <2> QED BY <1>0, <2>1 DEF CFFresh, MySerial
<1>6. CASE LookupFI \/ LookupSRI \/ QueueDone \/ UNCHANGED vars
  <2>1. cfTable' = cfTable /\ stage' = stage /\ run' = run /\ (phase = "down" => phase' = "down")
    BY <1>6 DEF LookupFI, LookupSRI, QueueDone, vars, store
  <2> QED BY <1>0, <2>1 DEF CFFresh, MySerial
<1> QED BY <1>1, <1>2, <1>3, <1>4, <1>5, <1>6 DEF Next, Driver

\* A compaction function that names an instanton of the item's keeps to the item's point
LEMMA KeysOfOneItem ==
    ASSUME DistinctTasks, TypeInv, PipelineInv, NEW t \in Tasks, NEW u \in Tasks,
           stage[u] \in AfterSRI, FISerial(u) = FISerial(t)
    PROVE  t = u
<1>1. Valid(fiTable, FISerial(u), PointOf[u])
  BY ServedIsValid
<1>2. PointOf[t] = PointOf[u]
  BY <1>1, OwnPoint DEF Valid
<1> QED BY <1>2 DEF DistinctTasks

LEMMA OneCompactionKept ==
    ASSUME TypeInv, PipelineInv, CompletionInv, CompactionInv, [Next]_vars
    PROVE  OneCompaction'
<1>0. OneCompaction /\ CFProvenance /\ CFAbsent
  BY DEF CompactionInv
<1>1. CASE cfTable' \subseteq cfTable
  BY <1>0, <1>1 DEF OneCompaction
<1>2. ASSUME NEW u \in Tasks, cfTable' = cfTable \cup {NewCF(u)} PROVE OneCompaction'
  BY <1>0, <1>2, NewCFKeys DEF OneCompaction
<1>3. ASSUME NEW u \in Tasks, ValidateCF(u), cfTable' = Validate(cfTable, MySerial(u))
      PROVE  OneCompaction'
  <2>1. PICK e \in cfTable : e.serial = MySerial(u) /\ HasKeys(e, CFKeys(u))
    BY <1>3 DEF CompletionInv, CFProgress, ValidateCF
  <2>2. \A c \in cfTable : c.serial = MySerial(u) => HasKeys(c, CFKeys(u))
    BY <1>0, <2>1 DEF CFProvenance
  <2>3. MatchingCompaction(cfTable, FISerial(u), SRISerial(u)) = {}
    BY <1>0, <1>3 DEF CFAbsent, ValidateCF
  <2>4. ASSUME NEW c \in cfTable, c.validated, c.fi # NULL, c.sri # NULL
        PROVE  ~HasKeys(c, CFKeys(u))
    BY <2>3, <2>4 DEF HasKeys, CFKeys, MatchingCompaction
  <2>5. CFProvenance'
    BY CFProvenanceKept
  <2>6. \A q \in cfTable' : q.validated =>
           \/ q \in cfTable /\ q.validated
           \/ q.serial = MySerial(u) /\ HasKeys(q, CFKeys(u))
    BY <1>3, <2>2, CFOrigin DEF HasKeys
  <2>7. ASSUME NEW q \in cfTable', NEW p \in cfTable', q.validated, p.validated,
               q.fi # NULL, q.sri # NULL, HasKeys(q, p)
        PROVE  q = p
    <3>1. HasKeys(p, q) /\ p.fi # NULL /\ p.sri # NULL
      BY <2>7 DEF HasKeys
    <3>2. CASE HasKeys(q, CFKeys(u))
      <4>1. HasKeys(p, CFKeys(u))
        BY <3>1, <3>2 DEF HasKeys
      <4>2. q.serial = MySerial(u) /\ p.serial = MySerial(u)
        BY <2>4, <2>6, <2>7, <3>1, <3>2, <4>1
      <4> QED BY <2>5, <4>2 DEF CFProvenance
    <3>3. CASE ~HasKeys(q, CFKeys(u))
      <4>1. ~HasKeys(p, CFKeys(u))
        BY <3>1, <3>3 DEF HasKeys
      <4>2. q \in cfTable /\ p \in cfTable
        BY <2>6, <2>7, <3>3, <4>1
      <4> QED BY <1>0, <2>7, <4>2 DEF OneCompaction
    <3> QED BY <3>2, <3>3
  <2> QED BY <2>7 DEF OneCompaction
<1> QED BY <1>1, <1>2, <1>3, NextOnCF, PruneFacts

LEMMA CFAbsentKept ==
    ASSUME DistinctTasks, TypeInv, PipelineInv, UniqueInv, CompletionInv, CompactionInv,
           [Next]_vars
    PROVE  CFAbsent'
<1>0. TypeOK /\ CFAbsent /\ CFProvenance
  BY DEF TypeInv, CompactionInv
<1>1. SUFFICES ASSUME NEW t \in Tasks, phase' = "work", stage'[t] \notin {"idle", "done"}
               PROVE  MatchingCompaction(cfTable', FISerial(t)', SRISerial(t)') = {}
  BY DEF CFAbsent
<1>2. ASSUME NEW u \in Tasks, Step(u)
      PROVE  MatchingCompaction(cfTable', FISerial(t)', SRISerial(t)') = {}
  <2>1. stage[t] \notin {"idle", "done"} /\ ~(t = u /\ ValidateCF(u))
    BY <1>0, <1>1, <1>2, StepFacts DEF Step, Dispatch, ComputeDone, StoreHandler, PersistFI,
       ValidateFI, PersistSRI, ValidateSRI, PersistCF, CFStored, ValidateCF, RevalidateFI,
       Move, TypeOK
  <2>2. /\ phase = "work" /\ FISerial(t)' = FISerial(t) /\ SRISerial(t)' = SRISerial(t)
    BY <1>2, StepFacts DEF FISerial, SRISerial, MySerial
  <2>3. MatchingCompaction(cfTable, FISerial(t), SRISerial(t)) = {}
    BY <1>0, <2>1, <2>2 DEF CFAbsent
  <2>4. ASSUME NEW w \in Tasks, cfTable' = cfTable \cup {NewCF(w)}
        PROVE  MatchingCompaction(cfTable', FISerial(t), SRISerial(t)) = {}
    BY <2>3, <2>4, NewCFKeys DEF MatchingCompaction
  <2>5. ASSUME NEW w \in Tasks, ValidateCF(w), cfTable' = Validate(cfTable, MySerial(w))
        PROVE  MatchingCompaction(cfTable', FISerial(t), SRISerial(t)) = {}
    <3>1. stage[w] = "validatingCF" /\ stage'[w] = "done"
      BY <1>0, <2>5 DEF ValidateCF, Move, TypeOK
    <3>2. FISerial(w) # FISerial(t)
      BY <1>1, <3>1, KeysOfOneItem DEF AfterSRI
    <3>3. FISerial(t) \in Serials /\ FISerial(t) # NULL
      <4>1. MySerial(t) \in Serials
        BY <2>2, MySerialType DEF TypeInv, Started
      <4> QED BY <1>0, <4>1, NullIsNoSerial DEF FISerial, TypeOK
    <3>4. PICK e \in cfTable : e.serial = MySerial(w) /\ HasKeys(e, CFKeys(w))
      BY <3>1 DEF CompletionInv, CFProgress
    <3>5. \A c \in cfTable : c.serial = MySerial(w) => c.fi # FISerial(t)
      BY <1>0, <3>2, <3>3, <3>4 DEF CFProvenance, HasKeys, CFKeys
    <3> QED BY <2>3, <2>5, <3>5, CFOrigin DEF MatchingCompaction, HasKeys
  <2> QED BY <1>2, <2>2, <2>3, <2>4, <2>5, NextOnCF DEF Next
<1>3. CASE LookupCF
  <2>1. /\ cfTable' = cfTable /\ FISerial(t)' = FISerial(t) /\ SRISerial(t)' = SRISerial(t)
        /\ phase = "lookupCF" /\ (Checkable(t) => StoredCF(t) = {})
    BY <1>1, <1>3 DEF LookupCF, store, FISerial, SRISerial, MySerial
  <2>2. stage[t] = "idle"
    BY <2>1 DEF PipelineInv, AtRest
  <2>3. /\ \A r \in fiTable : r.serial # MySerial(t)
        /\ \A r \in sriTable : r.serial # MySerial(t)
    BY <2>1, <2>2 DEF PipelineInv, Fresh, BeforeFI, BeforeSRI
  <2>4. MySerial(t) # NULL
    BY <2>1, MySerialType, NullIsNoSerial DEF TypeInv, Started
  <2>5. \A c \in cfTable : c.fi # MySerial(t) /\ c.sri # MySerial(t)
    BY <2>3, <2>4 DEF CompletionInv, BothSettled, Valid
  <2> QED BY <2>1, <2>5 DEF MatchingCompaction, StoredCF, Checkable, FISerial, SRISerial
<1>4. CASE UNCHANGED vars
  <2>1. UNCHANGED <<cfTable, found, run, phase, stage>>
    BY <1>4 DEF vars
  <2> QED BY <1>0, <1>1, <2>1 DEF CFAbsent, FISerial, SRISerial, MySerial
<1>5. ~(Open \/ LookupFI \/ LookupSRI \/ QueueDone \/ Exit \/ Kill)
  BY <1>1 DEF Open, LookupFI, LookupSRI, QueueDone, Exit, Kill, Gone
<1>6. ~(\E T \in Tables : PruneTable(T))
  BY <1>1 DEF PruneTable
<1> QED BY <1>2, <1>3, <1>4, <1>5, <1>6 DEF Next, Driver

LEMMA CompactionInvariant ==
    ASSUME DistinctTasks
    PROVE  Spec => []CompactionInv
<1>1. Init => CompactionInv
  BY DEF Init, CompactionInv, CFProvenance, CFFresh, OneCompaction, CFAbsent
<1>2. TypeInv /\ PipelineInv /\ UniqueInv /\ CompletionInv /\ CompactionInv /\ [Next]_vars
        => CompactionInv'
  <2> SUFFICES ASSUME TypeInv, PipelineInv, UniqueInv, CompletionInv, CompactionInv, [Next]_vars
               PROVE  CompactionInv'
    OBVIOUS
  <2> QED BY CFProvenanceKept, CFFreshKept, OneCompactionKept, CFAbsentKept DEF CompactionInv
<1> QED BY <1>1, <1>2, CompletionInvariant, UniqueInvariant, PipelineInvariant, TypeInvariant,
           PTL DEF Spec

LEMMA NoLookupRaises ==
    ASSUME TypeInv, PipelineInv, UniqueInv, CompletionInv, CompactionInv,
           LookupFI \/ LookupSRI \/ LookupCF
    PROVE  phase' # "raised"
<1>1. \A t \in Tasks : /\ ~Ambiguous(Matching(fiTable, PointOf[t]))
                       /\ ~Ambiguous(Matching(sriTable, PointOf[t]))
  BY PipelineAssumption DEF UniqueInv, OneValidatedRow
<1>2. CASE LookupFI \/ LookupSRI
  BY <1>1, <1>2 DEF LookupFI, LookupSRI
<1>3. CASE LookupCF
  <2>1. ASSUME NEW t \in Tasks, Checkable(t), Ambiguous(StoredCF(t)) PROVE FALSE
    <3>1. PICK c \in StoredCF(t), d \in StoredCF(t) : c # d
      BY <2>1 DEF Ambiguous
    <3>2. found[t].fi # NULL /\ found[t].sri # NULL
      BY <1>3, <2>1, <3>1, FoundBoth DEF LookupCF
    <3>3. /\ c \in cfTable /\ d \in cfTable /\ c.validated /\ d.validated
          /\ HasKeys(c, d) /\ c.fi # NULL /\ c.sri # NULL
      BY <3>1, <3>2 DEF StoredCF, MatchingCompaction, HasKeys
    <3> QED BY <3>1, <3>3 DEF CompactionInv, OneCompaction
  <2> QED BY <1>3, <2>1 DEF LookupCF
<1> QED BY <1>2, <1>3

(***************************************************************************)
(* Where the grid names every point once, none of the three lookups of a   *)
(* run raises on a second row, also when the solver has changed: an        *)
(* exception comes from the comparison of store() or not at all.           *)
(***************************************************************************)
THEOREM LookupsNeverRaise ==
    ASSUME DistinctTasks
    PROVE  Spec => [][LookupFI \/ LookupSRI \/ LookupCF => phase' # "raised"]_vars
<1>1. TypeInv /\ PipelineInv /\ UniqueInv /\ CompletionInv /\ CompactionInv /\ [Next]_vars
        => [LookupFI \/ LookupSRI \/ LookupCF => phase' # "raised"]_vars
  BY NoLookupRaises
<1> QED BY <1>1, CompactionInvariant, CompletionInvariant, UniqueInvariant, PipelineInvariant,
           TypeInvariant, PTL DEF Spec

-----------------------------------------------------------------------------
(***************************************************************************)
(* While the solver gives the same answers.                                *)
(***************************************************************************)
LEMMA SameResult ==
    ASSUME ~CodeChanges, [Next]_vars
    PROVE  result' = result
<1>1. ASSUME NEW u \in Tasks, Step(u) PROVE result' = result
  BY <1>1 DEF Step, Dispatch, ComputeDone, StoreHandler, PersistFI, ValidateFI, PersistSRI,
     ValidateSRI, PersistCF, CFStored, ValidateCF, RevalidateFI
<1>2. CASE Driver \/ Kill \/ UNCHANGED vars
  BY <1>2 DEF Driver, Open, PruneTable, LookupFI, LookupSRI, LookupCF, QueueDone, Exit, Kill,
     Gone, vars
<1> QED BY <1>1, <1>2 DEF Next

LEMMA RowsAreAnswersKept ==
    ASSUME ~CodeChanges, TypeInv, RowsAreAnswers, [Next]_vars
    PROVE  RowsAreAnswers'
<1>0. result' = result
  BY SameResult
<1>1. CASE Driver \/ Kill \/ UNCHANGED vars
  <2>1. fiTable' \subseteq fiTable /\ sriTable' \subseteq sriTable
    BY <1>1, DriverOnTables, PruneFacts DEF store
  <2> QED BY <1>0, <2>1 DEF RowsAreAnswers
<1>2. ASSUME NEW u \in Tasks, Step(u) PROVE RowsAreAnswers'
  <2>1. /\ fiTable \in SUBSET InstantonRows(Serials)
        /\ sriTable \in SUBSET InstantonRows(Serials)
    BY DEF TypeInv, TypeOK
  <2>2. /\ \A q \in Validate(fiTable, FISerial(u)) : \E r \in fiTable :
              q.point = r.point /\ q.ok = r.ok
        /\ \A q \in Validate(sriTable, SRISerial(u)) : \E r \in sriTable :
              q.point = r.point /\ q.ok = r.ok
    BY <2>1, ValidateOrigin
  <2>3. /\ NewFI(u).ok = result[NewFI(u).point].fi
        /\ NewSRI(u).ok = result[NewSRI(u).point].sri
    BY DEF NewFI, NewSRI, InstantonRow, Outcome
  <2>4. \A r \in fiTable' : r.ok = result[r.point].fi
    BY <1>2, <2>2, <2>3, StepOnFI DEF RowsAreAnswers
  <2>5. \A r \in sriTable' : r.ok = result[r.point].sri
    BY <1>2, <2>2, <2>3, StepOnSRI DEF RowsAreAnswers
  <2> QED BY <1>0, <2>4, <2>5 DEF RowsAreAnswers
<1> QED BY <1>1, <1>2 DEF Next

\* What store() compares agrees
LEMMA AnswersAgree ==
    ASSUME PipelineInv, RowsAreAnswers, NEW t \in Tasks
    PROVE  IntegrityHolds(t)
<1>1. /\ found[t].fi # NULL => \A r \in fiTable : r.serial = found[t].fi => r.point = PointOf[t]
      /\ found[t].sri # NULL => \A r \in sriTable : r.serial = found[t].sri => r.point = PointOf[t]
  BY OwnPoint DEF FISerial, SRISerial
<1> QED BY <1>1 DEF RowsAreAnswers, IntegrityHolds, ScalarsAgree, Outcome

LEMMA NeverRaisesKept ==
    ASSUME ~CodeChanges, TypeInv, PipelineInv, UniqueInv, CompletionInv, CompactionInv,
           RowsAreAnswers, NeverRaises, [Next]_vars
    PROVE  NeverRaises'
<1>1. ASSUME NEW u \in Tasks, Step(u) PROVE NeverRaises'
  BY <1>1, AnswersAgree DEF NumbersMayDisagree, Step, Dispatch, ComputeDone, StoreHandler, PersistFI, ValidateFI,
     PersistSRI, ValidateSRI, PersistCF, CFStored, ValidateCF, RevalidateFI, NeverRaises
<1>2. CASE LookupFI \/ LookupSRI \/ LookupCF
  BY <1>2, NoLookupRaises DEF NeverRaises
<1>3. CASE Open \/ QueueDone \/ Exit \/ Kill \/ (\E T \in Tables : PruneTable(T)) \/ UNCHANGED vars
  BY <1>3 DEF Open, QueueDone, Exit, Kill, Gone, PruneTable, vars, NeverRaises
<1> QED BY <1>1, <1>2, <1>3 DEF Next, Driver

LEMMA SolvedIsStoredKept ==
    ASSUME ~CodeChanges, TypeInv, PipelineInv, UniqueInv, CompletionInv, SolvedIsStored,
           [Next]_vars
    PROVE  SolvedIsStored'
<1>0. result' = result /\ Kept
  BY SameResult, StepKeeps
<1>1. \A t \in Tasks : Solved(t)' = Solved(t)
  BY <1>0 DEF Solved, Outcome
<1>2. CASE settled
  BY <1>0, <1>1, <1>2 DEF SolvedIsStored, Kept, Valid
<1>3. ASSUME ~settled, settled', NEW t \in Tasks, Solved(t)
      PROVE  \E c \in cfTable' :
                /\ c.validated
                /\ Valid(fiTable', c.fi, PointOf[t]) /\ Valid(sriTable', c.sri, PointOf[t])
  <2>1. ~(\E u \in Tasks : Step(u)) /\ ~Kill /\ ~UNCHANGED vars
    BY <1>3 DEF Step, Dispatch, ComputeDone, StoreHandler, PersistFI, ValidateFI, PersistSRI,
       ValidateSRI, PersistCF, CFStored, ValidateCF, RevalidateFI, Kill, Gone, vars
  <2>2. LookupCF \/ QueueDone
    BY <1>3, <2>1 DEF Next, Driver, Open, PruneTable, LookupFI, LookupSRI, Exit, Gone
  <2>3. UNCHANGED store /\ UNCHANGED found
    BY <2>2 DEF LookupCF, QueueDone
  <2>4. ASSUME found[t].fi # NULL, found[t].sri # NULL,
               NEW c \in cfTable, c.validated, HasKeys(c, found[t])
        PROVE  /\ c.validated
               /\ Valid(fiTable', c.fi, PointOf[t]) /\ Valid(sriTable', c.sri, PointOf[t])
    BY <2>3, <2>4 DEF PipelineInv, FoundIsValid, HasKeys, store
  <2>5. CASE LookupCF
    <3>1. phase = "lookupCF" /\ Checkable(t) /\ StoredCF(t) # {}
      BY <1>3, <2>5 DEF LookupCF
    <3>2. PICK c \in StoredCF(t) : TRUE
      BY <3>1
    <3>3. c \in cfTable /\ c.validated /\ HasKeys(c, found[t])
      BY <3>2 DEF StoredCF, MatchingCompaction, HasKeys
    <3>4. found[t].fi # NULL /\ found[t].sri # NULL
      BY <3>1, <3>2, FoundBoth
    <3> QED BY <2>3, <2>4, <3>3, <3>4 DEF store
  <2>6. CASE QueueDone /\ stage[t] = "idle"
    <3>1. /\ found[t].fi # NULL /\ found[t].sri # NULL
          /\ \E c \in cfTable : c.validated /\ HasKeys(c, found[t])
      BY <2>6 DEF QueueDone, CompletionInv, IdleIsServed
    <3> QED BY <2>3, <2>4, <3>1 DEF store
  <2>7. CASE QueueDone /\ stage[t] = "done"
    <3>1. PICK c \in cfTable : c.validated /\ HasKeys(c, CFKeys(t))
      BY <1>3, <2>7 DEF CompletionInv, CFProgress, HasCF, Solved
    <3>2. c.fi = FISerial(t) /\ c.sri = SRISerial(t)
      BY <1>3, <3>1 DEF Solved, HasKeys, CFKeys
    <3>3. Valid(fiTable, FISerial(t), PointOf[t]) /\ Valid(sriTable, SRISerial(t), PointOf[t])
      BY <2>7, ServedIsValid DEF AfterSRI
    <3> QED BY <2>3, <3>1, <3>2, <3>3 DEF store
  <2> QED BY <2>2, <2>5, <2>6, <2>7 DEF QueueDone
<1> QED BY <1>1, <1>2, <1>3 DEF SolvedIsStored

LEMMA SameAnswersInvariant ==
    ASSUME DistinctTasks, ~CodeChanges
    PROVE  Spec => []SameAnswersInv
<1>1. Init => SameAnswersInv
  BY DEF Init, SameAnswersInv, RowsAreAnswers, NeverRaises, SolvedIsStored
<1>2. TypeInv /\ PipelineInv /\ UniqueInv /\ CompletionInv /\ CompactionInv /\ SameAnswersInv
        /\ [Next]_vars => SameAnswersInv'
  <2> SUFFICES ASSUME TypeInv, PipelineInv, UniqueInv, CompletionInv, CompactionInv,
                      SameAnswersInv, [Next]_vars
               PROVE  SameAnswersInv'
    OBVIOUS
  <2>1. RowsAreAnswers /\ NeverRaises /\ SolvedIsStored
    BY DEF SameAnswersInv
  <2> QED BY <2>1, RowsAreAnswersKept, NeverRaisesKept, SolvedIsStoredKept DEF SameAnswersInv
<1> QED BY <1>1, <1>2, CompactionInvariant, CompletionInvariant, UniqueInvariant,
           PipelineInvariant, TypeInvariant, PTL DEF Spec

(***************************************************************************)
(* While the solver gives the same answers no run ends in an exception,    *)
(* whatever earlier runs were killed in the middle of.                     *)
(***************************************************************************)
THEOREM NoRunRaises ==
    ASSUME DistinctTasks, ~CodeChanges
    PROVE  Spec => []NeverRaises
<1>1. SameAnswersInv => NeverRaises
  BY DEF SameAnswersInv
<1> QED BY <1>1, SameAnswersInvariant, PTL

(***************************************************************************)
(* After one run has come to its regular end, no grid point that both      *)
(* solvers solve enters the queue again.                                   *)
(***************************************************************************)
THEOREM SolvedStaysSolved ==
    ASSUME DistinctTasks, ~CodeChanges
    PROVE  Spec => SolvedNotRecomputed
<1> DEFINE A == \A t \in Tasks : settled /\ Solved(t) /\ stage[t] = "idle" => stage'[t] = "idle"
<1>1. TypeInv /\ PipelineInv /\ UniqueInv /\ SameAnswersInv /\ [Next]_vars => [A]_vars
  <2> SUFFICES ASSUME TypeInv, PipelineInv, UniqueInv, SameAnswersInv, Next,
                      NEW t \in Tasks, settled, Solved(t), stage[t] = "idle"
               PROVE  stage'[t] = "idle"
    OBVIOUS
  <2>0. TypeOK
    BY DEF TypeInv
  <2>1. ASSUME NEW u \in Tasks, Step(u) PROVE stage'[t] = "idle"
    <3>1. stage[u] # "idle"
      BY <2>1 DEF Step, Dispatch, ComputeDone, StoreHandler, PersistFI, ValidateFI, PersistSRI,
         ValidateSRI, PersistCF, CFStored, ValidateCF, RevalidateFI
    <3> QED BY <2>1, <3>1, StepFacts
  <2>2. CASE LookupCF
    <3>1. PICK c \in cfTable :
             /\ c.validated
             /\ Valid(fiTable, c.fi, PointOf[t]) /\ Valid(sriTable, c.sri, PointOf[t])
      BY DEF SameAnswersInv, SolvedIsStored
    <3>2. /\ Matching(fiTable, PointOf[t]) # {} /\ Matching(sriTable, PointOf[t]) # {}
      BY <3>1 DEF Valid, Matching
    <3>3. found[t].fi # NULL /\ found[t].sri # NULL
      BY <2>2, <3>2 DEF LookupCF, UniqueInv, Absent, BeforeFI, BeforeSRI
    <3>4. /\ Valid(fiTable, found[t].fi, PointOf[t])
          /\ Valid(sriTable, found[t].sri, PointOf[t])
      BY <3>3 DEF PipelineInv, FoundIsValid
    <3>5. /\ ~Ambiguous(Matching(fiTable, PointOf[t]))
          /\ ~Ambiguous(Matching(sriTable, PointOf[t]))
      BY PipelineAssumption DEF UniqueInv, OneValidatedRow
    <3>6. c.fi = found[t].fi /\ c.sri = found[t].sri
      BY <3>1, <3>4, <3>5, SerialOfOneRow
    <3>7. c \in StoredCF(t) /\ Checkable(t)
      BY <3>1, <3>3, <3>6 DEF StoredCF, MatchingCompaction, Checkable
    <3> QED BY <2>0, <2>2, <3>7 DEF LookupCF
  <2>3. CASE Open \/ LookupFI \/ LookupSRI \/ QueueDone \/ Exit \/ Kill
               \/ \E T \in Tables : PruneTable(T)
    BY <2>3 DEF Open, LookupFI, LookupSRI, QueueDone, Exit, Kill, Gone, PruneTable
  <2> QED BY <2>1, <2>2, <2>3 DEF Next, Driver
<1> QED BY <1>1, SameAnswersInvariant, UniqueInvariant, PipelineInvariant, TypeInvariant, PTL
        DEF Spec, SolvedNotRecomputed
=============================================================================
