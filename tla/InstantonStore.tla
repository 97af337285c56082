--------------------------- MODULE InstantonStore ---------------------------
(***************************************************************************)
(* What one shard's tables promise about the rows of a compute target, as  *)
(* the factories under Datastore/SQL/ObjectFactories implement it: a row   *)
(* is inserted unvalidated, turned validated by a second call, found again *)
(* only once validated, and deleted at startup while it is not.            *)
(*                                                                         *)
(* A table is a set of rows.  The value rows of an object (FullInstanton-  *)
(* Value, SlowRollInstantonValue, CompactionFunctionSamples) are written   *)
(* in the transaction that inserts the object's row and deleted with it,   *)
(* so a row stands for itself and its value rows; "scalarsOnly" is the     *)
(* diagnostics marker full_values_stored = False.                          *)
(***************************************************************************)
EXTENDS Naturals

CONSTANTS
    Points,     \* identities of an instanton: trajectory, N_init, N_final, delta_Nstar, ...
    NULL        \* no serial: an object that is not stored, a NULL foreign key

(***************************************************************************)
(* Rows.  A solve that failed is stored too: ok = FALSE, every scalar NULL *)
(* and no marker.  A CompactionFunction row names its instantons by serial *)
(* and records which of its two paths produced a result.                   *)
(***************************************************************************)

InstantonRow(serial, p, ok, scalars) ==
    [serial |-> serial, point |-> p, ok |-> ok,
     scalarsOnly |-> ok /\ scalars, validated |-> FALSE]

CompactionRow(serial, fi, sri, full, slow, scalars) ==
    [serial |-> serial, fi |-> fi, sri |-> sri, full |-> full, slow |-> slow,
     scalarsOnly |-> (full \/ slow) /\ scalars, validated |-> FALSE]

InstantonRows(Serials) ==
    [serial : Serials, point : Points, ok : BOOLEAN,
     scalarsOnly : BOOLEAN, validated : BOOLEAN]

CompactionRows(Serials, Refs) ==
    [serial : Serials, fi : Refs, sri : Refs, full : BOOLEAN, slow : BOOLEAN,
     scalarsOnly : BOOLEAN, validated : BOOLEAN]

(***************************************************************************)
(* validate(): a failure is validated as it is; otherwise the number of    *)
(* value rows found is compared with the number the object expects, which  *)
(* agree because store() wrote them with the row, so the flag turns TRUE.  *)
(***************************************************************************)
Validate(table, serial) ==
    {IF r.serial = serial THEN [r EXCEPT !.validated = TRUE] ELSE r : r \in table}

\* Slip: the rows to delete and the rows to keep are exchanged
PruneValidated(table) == {r \in table : ~r.validated}

\* validate_on_startup(prune = True)
Prune(table) == {r \in table : r.validated}

\* Slips: the query leaves the flag out; it asks for solved rows only
MatchingAnyFlag(table, p) == {r \in table : r.point = p}
MatchingSolved(table, p) == {r \in table : r.validated /\ r.ok /\ r.point = p}

\* build(): the rows its query selects
Matching(table, p) == {r \in table : r.validated /\ r.point = p}

MatchingCompaction(table, fi, sri) ==
    {r \in table : r.validated /\ r.fi = fi /\ r.sri = sri}

\* one_or_none() raises on two rows ...
Ambiguous(rows) == \E r, s \in rows : r # s

\* Slip: a key field is missing from the query, which never finds anything
NeverFound(rows) == NULL

\* ... and otherwise the object carries the serial of the row, if there is one
SerialIn(rows) == IF rows = {} THEN NULL ELSE (CHOOSE r \in rows : TRUE).serial

\* build() without _do_not_populate raises on a row that has no value rows to load
CannotPopulate(rows) == \E r \in rows : r.scalarsOnly

=============================================================================
