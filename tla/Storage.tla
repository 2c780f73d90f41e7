--------------------------------- MODULE Storage ---------------------------------
(***************************************************************************)
(* The span table of the Core (core/storage/db.py): what _init_db does to  *)
(* the database of an older version, step by step, with a crash of the     *)
(* Core between any two steps, and insert_span afterwards.                 *)
(*                                                                         *)
(* ALTER TABLE and CREATE commit by themselves.  The UPDATE that clears    *)
(* the old timings opens a transaction that the index script commits, so a *)
(* crash in between undoes it.  The Core is one process with one event     *)
(* loop whose handlers call the storage without awaiting: two requests     *)
(* never interleave, and a query is atomic.                                *)
(***************************************************************************)
EXTENDS Integers, FiniteSets

CONSTANTS
  None,        (* SQL NULL                                                    *)
  Records,     (* the records the Core may be sent                            *)
  Legacy,      (* the rows the older version may have left                    *)
  NewColumns,  (* V2_NEW_COLUMNS                                              *)
  MaxRows,     (* bound on the rows of the table                              *)
  CrashRows    (* bound on the rows of the table when the Core dies           *)

(* (trace_id, span_id), the primary key.                                   *)
Key(r) == <<r.trace, r.span>>
IsLegacy(r) == \E l \in Legacy : Key(l) = Key(r)

(* The rows differ in their keys; the columns the steps name exist.        *)
ASSUME LegacyAssumption ==
  /\ \A r \in Records \cup Legacy : {"trace", "span", "ttft", "copy"} \subseteq DOMAIN r
  /\ \A l \in Legacy, r \in Records : Key(l) # Key(r)
  /\ None \notin NewColumns /\ None # "2"
  /\ \A n \in NewColumns : n # "v1" /\ n # "ttfc_ms"

VARIABLES
  columns,     (* the columns of the table spans, {} while there is none;     *)
               (* "v1" stands for those every version has                     *)
  keyed,       (* the table has its primary key                               *)
  version,     (* schema_version in the table metadata                        *)
  rows,        (* the committed rows                                          *)
  seen,        (* the rows as the open connection sees them                   *)
  existing,    (* existing_cols of this start                                 *)
  pc           (* where the Core stands: "down", a step of _init_db, "ready"  *)

vars == <<columns, keyed, version, rows, seen, existing, pc>>

(* Nothing, or a database of the older version, a file.                    *)
Init ==
  /\ \/ /\ columns = {}
        /\ keyed = FALSE
        /\ version = None
        /\ rows = {}
     \/ /\ columns = {"v1", "ttfc_ms"}
        /\ keyed \in BOOLEAN
        /\ version \in {None, "1"}
        /\ rows \in SUBSET Legacy
        /\ IsFiniteSet(rows)
        /\ Cardinality(rows) <= CrashRows
  /\ seen = rows
  /\ existing = {}
  /\ pc = "down"

(* CREATE TABLE IF NOT EXISTS, twice.                                      *)
CreateTables ==
  /\ pc = "down"
  /\ seen' = rows
  /\ columns' = IF columns = {} THEN {"v1"} \cup NewColumns ELSE columns
  /\ keyed' = (keyed \/ columns = {})
  /\ pc' = "read"
  /\ UNCHANGED <<version, rows, existing>>

ReadColumns ==
  /\ pc = "read"
  /\ existing' = columns
  /\ pc' = "alter"
  /\ UNCHANGED <<columns, keyed, version, rows, seen>>

(* Each ALTER TABLE commits by itself.                                     *)
AddColumn(c) ==
  /\ pc = "alter"
  /\ c \in NewColumns \ existing
  /\ c \notin columns
  /\ columns' = columns \cup {c}
  /\ UNCHANGED <<keyed, version, rows, seen, existing, pc>>

WithoutTimings(R) == {[r EXCEPT !.ttft = None] : r \in R}

(* Mutant: gated on the column alone, which is never dropped.              *)
MustClearAlways == "ttfc_ms" \in existing

(* One time only: a database already at version 2 keeps its timings.       *)
MustClear == version # "2" /\ "ttfc_ms" \in existing

(* Mutant: the version recorded before the clearing is committed.          *)
ClearTimingsLate ==
  /\ pc = "alter"
  /\ NewColumns \subseteq columns
  /\ seen' = IF MustClear THEN WithoutTimings(seen) ELSE seen
  /\ version' = "2"
  /\ pc' = "index"
  /\ UNCHANGED <<columns, keyed, rows, existing>>

ClearTimings ==
  /\ pc = "alter"
  /\ NewColumns \subseteq columns
  /\ seen' = IF MustClear THEN WithoutTimings(seen) ELSE seen
  /\ pc' = "index"
  /\ UNCHANGED <<columns, keyed, version, rows, existing>>

(* executescript commits what is open before it creates the indexes.       *)
CreateIndexes ==
  /\ pc = "index"
  /\ rows' = seen
  /\ pc' = "record"
  /\ UNCHANGED <<columns, keyed, version, seen, existing>>

RecordVersion ==
  /\ pc = "record"
  /\ version' = "2"
  /\ pc' = "ready"
  /\ UNCHANGED <<columns, keyed, rows, seen, existing>>

SameSpan(R, r) == {q \in R : Key(q) = Key(r)}

(* INSERT OR REPLACE: the key decides what is replaced.  A table that came *)
(* without one keeps every copy.                                           *)
Inserted(R, r) ==
  IF keyed THEN (R \ SameSpan(R, r)) \cup {r}
  ELSE R \cup {[r EXCEPT !.copy = Cardinality(SameSpan(R, r))]}

InsertSpan(r) ==
  /\ pc = "ready"
  /\ Cardinality(Inserted(rows, r)) <= MaxRows
  /\ rows' = Inserted(rows, r)
  /\ seen' = rows'
  /\ UNCHANGED <<columns, keyed, version, existing, pc>>

(* The process dies, and with it what its connection had not committed.    *)
Crash ==
  /\ pc # "down"
  /\ Cardinality(rows) <= CrashRows
  /\ pc' = "down"
  /\ seen' = rows
  /\ existing' = {}
  /\ UNCHANGED <<columns, keyed, version, rows>>

Next ==
  \/ CreateTables
  \/ ReadColumns
  \/ \E c \in NewColumns : AddColumn(c)
  \/ ClearTimings
  \/ CreateIndexes
  \/ RecordVersion
  \/ \E r \in Records : InsertSpan(r)
  \/ Crash

Spec == Init /\ [][Next]_vars

---------------------------------------------------------------------------
(* A Core that answers requests has all its columns, has recorded the      *)
(* version, and shows no timing of the older version, wherever earlier     *)
(* starts were interrupted.                                                *)
ReadyMeansMigrated ==
  pc = "ready" =>
    /\ NewColumns \subseteq columns
    /\ version = "2"
    /\ \A r \in rows : IsLegacy(r) => r.ttft = None

(* The migration never touches a span of this version: one stored by an    *)
(* earlier start keeps its timings until a record of the same span         *)
(* replaces it.                                                            *)
NewSpansSurvive ==
  [][\A r \in rows : ~IsLegacy(r) => r \in rows' \/ \E q \in rows' : Key(q) = Key(r) /\ pc = "ready"]_vars
=============================================================================
