-------------------------- MODULE StoreComparison --------------------------
(***************************************************************************)
(* tools/compare_stores.py: two sharded stores are compared by what they   *)
(* hold, never by how it is laid out.  Store B starts as a copy of store A *)
(* and is laid out anew, worked on and damaged; the tool may be run on the *)
(* two at any time.                                                        *)
(*                                                                         *)
(* A store is a primary and a sequence of shard files; a shard maps each   *)
(* table to its rows.  A number stands for a float, a row of FullInstanton *)
(* for any row with foreign keys, a polymorphic reference and a JSON       *)
(* column.  A digest is the identity itself: nested values instead of a    *)
(* hash of them.                                                           *)
(***************************************************************************)
EXTENDS Integers, Sequences, FiniteSets, Bags, SequencesExt, FiniteSetsExt, Functions

CONSTANTS
    NULL,
    Numbers,        \* values of a float column
    Serials,        \* serials of a table
    InitialRows,    \* contents of store A: shard -> table -> rows
    MaxEdits        \* bound on what happens to store B

VARIABLES
    stores,         \* "A", "B" -> store
    edits,          \* number of edits made to store B
    report          \* of the last run of the tool; NULL after an edit

vars == <<stores, edits, report>>

---------------------------------------------------------------------------
(* What the tool declares of the tables.  Every column that is not         *)
(* bookkeeping enters the identity of a row, in one of five ways.          *)

Tables == {"N_init", "MasslessDecoupledDiffusion", "FullInstanton", "FullInstantonValue", "redshift"}
Replicated == {"N_init", "MasslessDecoupledDiffusion"}
Sharded == {"FullInstanton", "FullInstantonValue"}

GlobalBookkeeping == {"serial", "timestamp"}
BookkeepingColumns(table) == IF table = "FullInstanton" THEN {"label"} ELSE {}
JsonColumns(table) == IF table = "FullInstanton" THEN {"diagnostics"} ELSE {}
TimingKeys == {"compute_time"}
PolymorphicReferences(table) ==
    IF table = "FullInstanton"
    THEN [diffusion |-> [type |-> "diffusion_type", tables |-> [t \in {1} |-> "MasslessDecoupledDiffusion"]]]
    ELSE <<>>
ForeignKeys(table) ==
    CASE table = "FullInstanton" -> [N_init |-> "N_init"]
      [] table = "FullInstantonValue" -> [instanton |-> "FullInstanton"]
      [] OTHER -> <<>>
FloatColumns(table) ==
    CASE table = "N_init" -> {"N"}
      [] table = "FullInstanton" -> {"msr_action"}
      [] table = "FullInstantonValue" -> {"phi"}
      [] table = "redshift" -> {"z"}
      [] OTHER -> {}

Layout(table, column) ==
    CASE column \in DOMAIN PolymorphicReferences(table) -> "poly"
      [] column \in DOMAIN ForeignKeys(table) -> "fk"
      [] column \in JsonColumns(table) -> "json"
      [] column \in FloatColumns(table) -> "float"
      [] OTHER -> "value"

Compared(table, row) == DOMAIN row \ (GlobalBookkeeping \union BookkeepingColumns(table))

\* A foreign key or polymorphic reference: its table, or NULL for a type not mapped
ReferredTable(table, row, column) ==
    IF Layout(table, column) = "fk" THEN ForeignKeys(table)[column]
    ELSE LET poly == PolymorphicReferences(table)[column] IN
         IF row[poly.type] \in DOMAIN poly.tables THEN poly.tables[row[poly.type]] ELSE NULL

---------------------------------------------------------------------------
(* Reading a store *)

\* The shards found by name must be as many as the primary records
Readable(s) == s.is_primary /\ Len(s.shards) = s.recorded /\ s.shards # <<>>

ClientTables(s) == UNION {DOMAIN s.shards[k] : k \in DOMAIN s.shards}
ShardsHolding(s, table) == {k \in DOMAIN s.shards : table \in DOMAIN s.shards[k]}
LowestShard(s, table) == Min(ShardsHolding(s, table))

\* A table in neither list is replicated if all its foreign keys name such tables
Kind(s, table) ==
    LET refs == Range(ForeignKeys(table)) \ {"store_tag"} IN
    CASE table \in s.replicated -> "replicated"
      [] table \in s.sharded -> "sharded"
      [] OTHER -> IF refs # {} /\ refs \subseteq s.replicated THEN "replicated" ELSE "sharded"

\* Slip: a referenced row is looked for on every shard
LookupAnywhere(s, shard, table, serial) ==
    {row \in UNION {s.shards[k][table] : k \in ShardsHolding(s, table)} : row.serial = serial}

\* The rows a reference names: on the shard of the row that has it
Lookup(s, shard, table, serial) ==
    IF table \in DOMAIN s.shards[shard] THEN {row \in s.shards[shard][table] : row.serial = serial} ELSE {}

---------------------------------------------------------------------------
(* Identities *)

Garbled == [text |-> "no JSON"]

\* A value inside JSON has a kind: the float 4.0 is another value than the integer 4
Float(x) == [kind |-> "f", value |-> x]
Integer(x) == [kind |-> "i", value |-> x]

\* Timing keys are left out at any depth; text that is no JSON is compared as text
CanonicalJson(value) ==
    IF value = Garbled THEN <<"s", value>> ELSE <<"j", Restrict(value, DOMAIN value \ TimingKeys)>>

\* Slip: the value of every key is dropped, whatever its kind
SkeletonOfKeys(canonical) ==
    IF canonical[1] = "s" THEN canonical ELSE <<"j", [key \in DOMAIN canonical[2] |-> "f"]>>

\* For pairing near misses, a float is reduced to its bare tag and all else stays
Skeleton(canonical) ==
    IF canonical[1] = "s" THEN canonical
    ELSE <<"j", [key \in DOMAIN canonical[2] |->
                    IF canonical[2][key].kind = "f" THEN [kind |-> "f"] ELSE canonical[2][key]]>>

RECURSIVE Identity(_, _, _, _)

\* A reference is the identity of the row it names
Reference(s, shard, table, row, column) ==
    LET to == ReferredTable(table, row, column)
        named == Lookup(s, shard, to, row[column])
    IN  IF to = NULL THEN <<"unmapped", row[column]>>
        ELSE IF row[column] = NULL THEN <<"none">>
        ELSE IF named = {} THEN <<"unresolved", to>>
        ELSE <<"ref", to, Identity(s, shard, to, CHOOSE r \in named : TRUE)>>

Part(s, shard, table, row, column) ==
    CASE Layout(table, column) \in {"fk", "poly"} -> Reference(s, shard, table, row, column)
      [] Layout(table, column) = "json" -> CanonicalJson(row[column])
      [] OTHER -> <<"v", row[column]>>

Identity(s, shard, table, row) ==
    [column \in Compared(table, row) |-> Part(s, shard, table, row, column)]

RECURSIVE NearKey(_, _, _)

\* The identity without its floats; a reference to a row that both stores hold
\* stays, any other becomes the near key of the row it names
NearKey(table, identity, matched) ==
    [column \in DOMAIN identity \ FloatColumns(table) |->
        IF identity[column][1] = "ref" /\ identity[column][3] \notin matched[identity[column][2]]
        THEN <<"near", identity[column][2], NearKey(identity[column][2], identity[column][3], matched)>>
        ELSE IF column \in JsonColumns(table) THEN Skeleton(identity[column]) ELSE identity[column]]

---------------------------------------------------------------------------
(* Comparing *)

\* The rows of a table on some shards, and their identities, each as often as it is there
Held(s, table, shards) == UNION {{k} \X s.shards[k][table] : k \in shards}
Collect(s, table, shards) ==
    LET found == {<<kr, Identity(s, kr[1], table, kr[2])>> : kr \in Held(s, table, shards)}
    IN  [id \in {f[2] : f \in found} |-> Cardinality({f \in found : f[2] = id})]

\* A replicated table is compared by its lowest copy, any other by all its rows
ComparedShards(s, table) ==
    IF Kind(s, table) = "replicated" THEN {LowestShard(s, table)} ELSE ShardsHolding(s, table)
Contents(s, table) ==
    IF table \in ClientTables(s) THEN Collect(s, table, ComparedShards(s, table)) ELSE EmptyBag

\* Each copy of a replicated table against the lowest
CopiesDiffer(s, table) ==
    /\ Kind(s, table) = "replicated"
    /\ \/ ShardsHolding(s, table) # DOMAIN s.shards
       \/ \E k \in ShardsHolding(s, table) :
            Collect(s, table, {k}) # Collect(s, table, {LowestShard(s, table)})

\* The named problems of one store; every row of every shard is met
RowProblems(s, shard, table, row) ==
    {<<"JSON that does not parse", column>> : column \in {c \in JsonColumns(table) : row[c] = Garbled}}
      \union UNION {LET ref == Reference(s, shard, table, row, column) IN
                    CASE ref[1] = "unresolved" -> {<<"unresolved reference", column>>}
                      [] ref[1] = "unmapped" -> {<<"unknown type value", column>>}
                      [] OTHER -> {}
                    : column \in DOMAIN ForeignKeys(table) \union DOMAIN PolymorphicReferences(table)}
Problems(s) ==
    LET rows == UNION {{t} \X Held(s, t, ShardsHolding(s, t)) : t \in ClientTables(s)} IN
    (IF s.in_flight > 0 THEN {<<"replication in flight", "primary">>} ELSE {})
      \union {<<"replicated copies differ", table>> : table \in {t \in ClientTables(s) : CopiesDiffer(s, t)}}
      \union UNION {RowProblems(s, held[2][1], held[1], held[2][2]) : held \in rows}
ClassifiedDifferently(a, b) ==
    {<<"classified differently", table>> :
        table \in {t \in ClientTables(a) \intersect ClientTables(b) : Kind(a, t) # Kind(b, t)}}

\* The rows of one store only, paired by near key, in the order of their parts as text
Listed(bag) == FoldSet(LAMBDA id, list : list \o [i \in 1 .. bag[id] |-> id], <<>>, DOMAIN bag)
Pairs(table, a_only, b_only, matched) ==
    LET keyed(bag, key) == SelectSeq(Listed(bag), LAMBDA id : NearKey(table, id, matched) = key)
        keys == {NearKey(table, id, matched) : id \in DOMAIN a_only \union DOMAIN b_only}
    IN  UNION {ToSet(Zip(keyed(a_only, key), keyed(b_only, key))) : key \in keys}

\* What a pair lists: its own floats that differ, and references to rows that differ
OwnFloats(table) == FloatColumns(table) \union JsonColumns(table)
Differing(table, a, b) == {column \in DOMAIN a \intersect OwnFloats(table) : a[column] # b[column]}
Through(table, a, b) == {column \in DOMAIN a \ OwnFloats(table) : a[column] # b[column]}

\* Bookkeeping that differs between matched rows is counted, and changes nothing
BookkeepingDifferences(a, b, table, matched) ==
    LET of(s, id, column) == {kr[2][column] : kr \in
            {h \in Held(s, table, ComparedShards(s, table)) : Identity(s, h[1], table, h[2]) = id}}
    IN  {column \in {"timestamp"} \union BookkeepingColumns(table) :
            \E id \in matched : of(a, id, column) # of(b, id, column)}

\* compare_stores
Compare(a, b) ==
    LET tables == ClientTables(a) \union ClientTables(b)
        in_a == [t \in tables |-> Contents(a, t)]
        in_b == [t \in tables |-> Contents(b, t)]
        matched == [t \in tables |-> DOMAIN in_a[t] \intersect DOMAIN in_b[t]]
        a_only == [t \in tables |-> in_a[t] (-) in_b[t]]
        b_only == [t \in tables |-> in_b[t] (-) in_a[t]]
        problems == Problems(a) \union Problems(b) \union ClassifiedDifferently(a, b)
    IN  [pairs |-> [t \in tables |-> Pairs(t, a_only[t], b_only[t], matched)],
         bookkeeping |-> [t \in tables |-> BookkeepingDifferences(a, b, t, matched[t])],
         problems |-> problems,
         equal |-> problems = {} /\ \A t \in tables : a_only[t] = EmptyBag /\ b_only[t] = EmptyBag]

\* schema_snapshot reads the lowest shard; compare_schemas compares as sets
Snapshot(s) == s.schemas[1]
SchemaDifferences(a, b) ==
    {table \in DOMAIN a \union DOMAIN b :
        IF table \in DOMAIN a \intersect DOMAIN b THEN a[table] # b[table] ELSE TRUE}

ToolMayRun == report = NULL /\ UNCHANGED <<stores, edits>>
BothReadable == Readable(stores["A"]) /\ Readable(stores["B"])

\* main
CannotRead == ToolMayRun /\ ~BothReadable /\ report' = [exit |-> 2]

RunCompare ==
    /\ ToolMayRun /\ BothReadable
    /\ LET result == Compare(stores["A"], stores["B"]) IN
       report' = result @@ [exit |-> IF result.equal THEN 0 ELSE 1]

RunSchema ==
    /\ ToolMayRun /\ BothReadable
    /\ report' = [exit |-> IF SchemaDifferences(Snapshot(stores["A"]), Snapshot(stores["B"])) = {} THEN 0 ELSE 1]

---------------------------------------------------------------------------
(* What happens to store B *)

Edited(s) ==
    /\ edits < MaxEdits
    /\ stores' = [stores EXCEPT !["B"] = s] /\ edits' = edits + 1 /\ report' = NULL

B == stores["B"]
WithShard(k, table, rows) == [B EXCEPT !.shards[k][table] = rows]
Mapped(F(_, _)) ==
    [B EXCEPT !.shards = [k \in DOMAIN B.shards |-> [t \in DOMAIN B.shards[k] |-> {F(t, row) : row \in B.shards[k][t]}]]]
References(table) == DOMAIN ForeignKeys(table) \union DOMAIN PolymorphicReferences(table)
Rows(s, table) == {kr[2] : kr \in Held(s, table, ShardsHolding(s, table))}

\* Laid out anew: other serials, other shards, other bookkeeping
Renumber ==
    \E table \in {"N_init", "FullInstanton"}, i, j \in Serials :
        LET swap(n) == IF n = i THEN j ELSE IF n = j THEN i ELSE n
            renumbered(t, row) ==
                [c \in DOMAIN row |-> IF (c = "serial" /\ t = table) \/ (c \in References(t) /\ ReferredTable(t, row, c) = table)
                                      THEN swap(row[c]) ELSE row[c]]
        IN  i < j /\ Edited(Mapped(renumbered))

\* With its children or, by mistake, without
Move ==
    \E j, k \in DOMAIN B.shards : j # k /\
        \E row \in B.shards[j]["FullInstanton"], children \in BOOLEAN :
            LET own == {v \in B.shards[j]["FullInstantonValue"] : children /\ v.instanton = row.serial} IN
            Edited([B EXCEPT !.shards[j]["FullInstanton"] = @ \ {row}, !.shards[k]["FullInstanton"] = @ \union {row},
                             !.shards[j]["FullInstantonValue"] = @ \ own, !.shards[k]["FullInstantonValue"] = @ \union own])

Touch ==
    \E column \in {"timestamp", "label", "compute_time"} :
        LET touched(t, row) ==
                IF column \in DOMAIN row THEN [row EXCEPT ![column] = "later"]
                ELSE IF column = "compute_time" /\ t = "FullInstanton" /\ row.diagnostics # Garbled
                     THEN [row EXCEPT !.diagnostics.compute_time = "later"] ELSE row
        IN  Edited(Mapped(touched))

\* A row changed: a float on one copy or on all, what it names, and inside its JSON a
\* float, a count, or a count that becomes a float
Change ==
    \E k \in DOMAIN B.shards : \E table \in Tables : \E row \in B.shards[k][table] :
        LET on_all(new) == Mapped(LAMBDA t, r : IF t = table /\ r = row THEN new ELSE r)
            on_one(new) == WithShard(k, table, (B.shards[k][table] \ {row}) \union {new})
        IN  \/ \E column \in FloatColumns(table), x \in Numbers :
                  \E s \in {on_all([row EXCEPT ![column] = x]), on_one([row EXCEPT ![column] = x])} : s # B /\ Edited(s)
            \/ /\ table = "FullInstanton"
               /\ \E new \in {[row EXCEPT !.N_init = i] : i \in Serials \union {NULL}} \union
                             {[row EXCEPT !.diffusion_type = 2], [row EXCEPT !.diagnostics = Garbled]} \union
                             IF row.diagnostics = Garbled THEN {} ELSE
                             {[row EXCEPT !.diagnostics.residual = Float(x)] : x \in Numbers} \union
                             {[row EXCEPT !.diagnostics.iterations = n] :
                                 n \in {Integer(x) : x \in Numbers} \union {Float(x) : x \in Numbers}} :
                     new # row /\ Edited(on_one(new))

\* A row dropped, from all copies or, a replicated write interrupted, from one
Drop ==
    \E k \in DOMAIN B.shards : \E table \in Tables : \E row \in B.shards[k][table] :
        \/ Edited([B EXCEPT !.shards = [j \in DOMAIN @ |-> [@[j] EXCEPT ![table] = @ \ {row}]]])
        \/ \E flagged \in {0, 1} :
              /\ table \in Replicated
              /\ Edited([WithShard(k, table, B.shards[k][table] \ {row}) EXCEPT !.in_flight = flagged])

\* A row stored twice
Duplicate ==
    \E k \in DOMAIN B.shards, table \in Sharded : \E row \in B.shards[k][table] : \E n \in Serials :
        /\ \A r \in Rows(B, table) : r.serial # n
        /\ Edited(WithShard(k, table, B.shards[k][table] \union {[row EXCEPT !.serial = n]}))

Damage ==
    \/ Edited([B EXCEPT !.shards = SubSeq(@, 1, Len(@) - 1)]) /\ Len(B.shards) > 1
    \/ Edited([B EXCEPT !.is_primary = FALSE])
    \/ Edited([B EXCEPT !.replicated = @ \union {"redshift"}])
    \/ \E k \in DOMAIN B.schemas : Edited([B EXCEPT !.schemas[k]["redshift"] = @ \union {"index"}])

Init ==
    /\ LET copy == [is_primary |-> TRUE, recorded |-> Len(InitialRows), shards |-> InitialRows,
                    replicated |-> Replicated, sharded |-> Sharded, in_flight |-> 0,
                    schemas |-> [k \in DOMAIN InitialRows |-> [t \in Tables |-> {"columns"}]]]
       IN  stores = [name \in {"A", "B"} |-> copy]
    /\ edits = 0 /\ report = NULL

Next == CannotRead \/ RunCompare \/ RunSchema \/ Renumber \/ Move \/ Touch \/ Change \/ Drop \/ Duplicate \/ Damage

Spec == Init /\ [][Next]_vars

---------------------------------------------------------------------------
(* Properties *)

\* A store in order: every reference names a row of its own shard, every type is known,
\* all JSON parses, and the copies of a replicated table are one
Sound(s) ==
    /\ s.in_flight = 0
    /\ \A t \in s.replicated, k \in DOMAIN s.shards :
          LET held(j) == {Restrict(row, Compared(t, row) \union {"serial"}) : row \in s.shards[j][t]} IN held(k) = held(1)
    /\ \A k \in DOMAIN s.shards : \A row \in s.shards[k]["FullInstanton"] :
          /\ row.diffusion_type = 1 /\ row.diagnostics # Garbled
          /\ row.N_init # NULL => \E r \in s.shards[k]["N_init"] : r.serial = row.N_init
          /\ \E r \in s.shards[k]["MasslessDecoupledDiffusion"] : r.serial = row.diffusion
    /\ \A k \in DOMAIN s.shards : \A row \in s.shards[k]["FullInstantonValue"] :
          \E r \in s.shards[k]["FullInstanton"] : r.serial = row.instanton

\* Two stores are one up to serials, shards and bookkeeping
Isomorphic(a, b) ==
    LET serials(s, t) == {row.serial : row \in Rows(s, t)}
        renumberings(t) == Bijection(serials(a, t), serials(b, t))
    IN  \E tokens \in renumberings("N_init"), instantons \in renumberings("FullInstanton"),
           values \in renumberings("FullInstantonValue") :
        LET image(t, n) ==
                CASE n = NULL -> NULL
                  [] n # NULL /\ t = "N_init" -> tokens[n]
                  [] n # NULL /\ t = "FullInstanton" -> instantons[n]
                  [] n # NULL /\ t = "FullInstantonValue" -> values[n]
                  [] OTHER -> n
            science(t, row, c) == IF c \in JsonColumns(t) THEN CanonicalJson(row[c]) ELSE row[c]
            same(t, x, y) == \A c \in Compared(t, x) :
                IF c \in References(t) THEN y[c] = image(ReferredTable(t, x, c), x[c]) ELSE science(t, x, c) = science(t, y, c)
        IN  \A t \in Tables :
              /\ {image(t, x.serial) : x \in Rows(a, t)} = {y.serial : y \in Rows(b, t)}
              /\ \A x \in Rows(a, t), y \in Rows(b, t) : y.serial = image(t, x.serial) => same(t, x, y)

Distinct(s) == \A t \in ClientTables(s) : \A id \in DOMAIN Contents(s, t) : Contents(s, t)[id] = 1

\* Equal rows have one serial on every shard, as the layer writes them
SerialsAgree(s) == \A t \in Replicated, j, k \in DOMAIN s.shards :
    \A x \in s.shards[j][t], y \in s.shards[k][t] : Identity(s, j, t, x) = Identity(s, k, t, y) => x.serial = y.serial

Reported == IF report = NULL THEN FALSE ELSE "pairs" \in DOMAIN report

\* Exit 0 says exactly that the stores are in order and hold the same, however they are
\* laid out.  Nothing is claimed where two rows of a table are alike, whose children the
\* tool cannot tell apart, or where two copies hold equal rows under different serials,
\* at which it does not look
EqualMeansSame ==
    Reported /\ Distinct(B) /\ SerialsAgree(B) =>
        (report.exit = 0 <=> Sound(B) /\ Isomorphic(stores["A"], B) /\ B.replicated = Replicated)

RECURSIVE OnlyFloatsDiffer(_, _, _)
OnlyFloatsDiffer(table, x, y) ==
    /\ DOMAIN x = DOMAIN y
    /\ \A c \in DOMAIN x \ FloatColumns(table) :
          \/ x[c] = y[c]
          \/ /\ x[c][1] = "ref" /\ y[c][1] = "ref"
             /\ x[c][2] = y[c][2]
             /\ OnlyFloatsDiffer(x[c][2], x[c][3], y[c][3])
          \/ /\ x[c][1] = "j" /\ y[c][1] = "j"
             /\ DOMAIN x[c][2] = DOMAIN y[c][2]
             /\ \A key \in DOMAIN x[c][2] :
                   \/ x[c][2][key] = y[c][2][key]
                   \/ x[c][2][key].kind = "f" /\ y[c][2][key].kind = "f"

\* The rows of a near miss differ, and only in floats: their own, in a column or inside
\* JSON, or those of the rows they refer to, at whatever distance.  A count that changed,
\* or became a float, is no near miss
NearMissesAreFloats ==
    Reported => \A t \in DOMAIN report.pairs : \A pair \in report.pairs[t] :
        /\ OnlyFloatsDiffer(t, pair[1], pair[2])
        /\ Differing(t, pair[1], pair[2]) \union Through(t, pair[1], pair[2]) # {}
=============================================================================
