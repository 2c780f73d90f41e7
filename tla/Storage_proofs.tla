------------------------------ MODULE Storage_proofs ------------------------------
(***************************************************************************)
(* ReadyMeansMigrated and NewSpansSurvive of Storage, for every set of     *)
(* records, old rows and columns, and any number of crashes; then          *)
(* CountsAgree, DashboardIsConsistent and DetailAgreesWithList of          *)
(* StorageQueries, for any number of traces, spans, models, sessions and   *)
(* windows.                                                                *)
(*                                                                         *)
(* The argument for the migration: the version is recorded only after the  *)
(* cleared rows are committed, and spans of this version are stored only   *)
(* after the version is.  So while the clearing may still run, every       *)
(* committed row is an old one (Untouched), and once the version is        *)
(* recorded no old row has a timing (Cleared).                             *)
(*                                                                         *)
(* For the queries: the table is finite and its rows have their types      *)
(* (TableOK), and the queries are sets of rows.  Counts are compared by    *)
(* inclusion.  A sum is the number of its units, so it stays the same when *)
(* the rows are parted into buckets (PartitionSum).  Every rank of the     *)
(* latencies has a duration (RankExists), so they ascend, and a percentile *)
(* lies between two neighbours.                                            *)
(***************************************************************************)
EXTENDS StorageQueries, FiniteSetTheorems, WellFoundedInduction, TLAPS

IsRow(r) == {"trace", "span", "ttft", "copy"} \subseteq DOMAIN r
Steps == {"down", "read", "alter", "index", "record", "ready"}
Cleared(R) == \A r \in R : IsLegacy(r) => r.ttft = None
Migrated == NewColumns \subseteq columns /\ Cleared(rows)

Shape ==
  /\ \A r \in rows \cup seen : IsRow(r)
  /\ pc \in Steps
  /\ pc # "index" => seen = rows

(* What is known of the table before and after the version is recorded.    *)
Versioned == version = "2" => Migrated
Untouched == version # "2" => \A r \in rows : IsLegacy(r)
NewTable == "ttfc_ms" \notin columns => \A r \in rows : ~IsLegacy(r)

(* What the step of a start that is reached adds.                          *)
Reached ==
  /\ pc \in {"alter", "index", "record"} => ("ttfc_ms" \in existing <=> "ttfc_ms" \in columns)
  /\ pc = "index" =>
       /\ NewColumns \subseteq columns
       /\ Cleared(seen)
       /\ \A r \in rows : ~IsLegacy(r) => r \in seen
       /\ \A r \in seen : \E q \in rows : Key(q) = Key(r)
  /\ pc = "record" => Migrated
  /\ pc = "ready" => version = "2"

IInv == Shape /\ Versioned /\ Untouched /\ NewTable /\ Reached

(* Clearing a timing keeps the key and takes the timing.                   *)
LEMMA ClearedRow ==
  ASSUME NEW r, IsRow(r)
  PROVE  LET q == [r EXCEPT !.ttft = None]
         IN IsRow(q) /\ Key(q) = Key(r) /\ q.ttft = None
  BY DEF IsRow, Key

(* So does numbering a copy.                                               *)
LEMMA NumberedRow ==
  ASSUME NEW r, IsRow(r), NEW n
  PROVE  LET q == [r EXCEPT !.copy = n]
         IN IsRow(q) /\ Key(q) = Key(r)
  BY DEF IsRow, Key

(* Whether a row is an old one is a matter of its key.                     *)
LEMMA LegacyByKey ==
  ASSUME NEW r, NEW q, Key(r) = Key(q)
  PROVE  IsLegacy(r) <=> IsLegacy(q)
  BY DEF IsLegacy

LEMMA RecordsAreNew ==
  ASSUME NEW r \in Records
  PROVE  ~IsLegacy(r) /\ IsRow(r)
  BY LegacyAssumption DEF IsLegacy, IsRow

(* The rows after the clearing.                                            *)
LEMMA ClearedRows ==
  ASSUME NEW R, \A r \in R : IsRow(r)
  PROVE  /\ Cleared(WithoutTimings(R))
         /\ \A q \in WithoutTimings(R) : IsRow(q) /\ \E r \in R : Key(q) = Key(r)
<1> SUFFICES ASSUME NEW r \in R
             PROVE  LET q == [r EXCEPT !.ttft = None]
                    IN IsRow(q) /\ Key(q) = Key(r) /\ q.ttft = None
  BY DEF WithoutTimings, Cleared
<1> QED BY ClearedRow

(* The rows after an insertion: old ones stay, and the rest are new.       *)
LEMMA InsertedRows ==
  ASSUME NEW R, \A q \in R : IsRow(q), NEW r \in Records
  PROVE  \E n : /\ IsRow(n) /\ Key(n) = Key(r) /\ n \in Inserted(R, r)
                /\ \A q \in Inserted(R, r) : q = n \/ q \in R
                /\ \A q \in R : q \in Inserted(R, r) \/ Key(q) = Key(r)
<1>1. CASE keyed
  <2>1. Inserted(R, r) = (R \ SameSpan(R, r)) \cup {r}
    BY <1>1 DEF Inserted
  <2> QED BY <2>1, RecordsAreNew DEF SameSpan
<1>2. CASE ~keyed
  <2> DEFINE n == [r EXCEPT !.copy = Cardinality(SameSpan(R, r))]
  <2>1. Inserted(R, r) = R \cup {n}
    BY <1>2 DEF Inserted
  <2>2. IsRow(n) /\ Key(n) = Key(r)
    BY RecordsAreNew, NumberedRow
  <2> QED BY <2>1, <2>2
<1> QED BY <1>1, <1>2

LEMMA InitIInv == Init => IInv
<1> SUFFICES ASSUME Init PROVE IInv
  OBVIOUS
<1>1. \A r \in Legacy : IsLegacy(r) /\ IsRow(r)
  BY LegacyAssumption DEF IsLegacy, IsRow
<1>2. rows \subseteq Legacy /\ seen = rows /\ pc = "down"
  BY DEF Init
<1>3. version # "2"
  <2>1. CASE version \in {None, "1"} /\ None # "2"
    BY <2>1
  <2> QED BY <2>1, LegacyAssumption DEF Init
<1>4. "ttfc_ms" \notin columns => rows = {}
  BY DEF Init
<1> QED BY <1>1, <1>2, <1>3, <1>4 DEF IInv, Shape, Versioned, Untouched, NewTable, Reached, Steps

LEMMA NextIInv == IInv /\ [Next]_vars => IInv'
<1> SUFFICES ASSUME IInv, [Next]_vars PROVE IInv'
  OBVIOUS
<1> USE DEF IInv, Shape, Steps
<1>1. CASE CreateTables
  <2>1. rows' = rows /\ seen' = rows /\ version' = version /\ pc' = "read"
    BY <1>1 DEF CreateTables
  <2>2. columns \subseteq columns' /\ ("ttfc_ms" \in columns' => "ttfc_ms" \in columns)
    BY <1>1, LegacyAssumption DEF CreateTables
  <2> QED BY <2>1, <2>2 DEF Versioned, Migrated, Cleared, Untouched, NewTable, Reached, IsLegacy, IsRow
<1>2. CASE ReadColumns
  BY <1>2 DEF ReadColumns, Versioned, Migrated, Cleared, Untouched, NewTable, Reached, IsLegacy, IsRow
<1>3. ASSUME NEW c \in NewColumns, AddColumn(c) PROVE IInv'
  <2>1. columns \subseteq columns' /\ ("ttfc_ms" \in columns' <=> "ttfc_ms" \in columns)
    BY <1>3, LegacyAssumption DEF AddColumn
  <2>2. UNCHANGED <<version, rows, seen, existing, pc>> /\ pc = "alter"
    BY <1>3 DEF AddColumn
  <2> QED BY <2>1, <2>2 DEF Versioned, Migrated, Cleared, Untouched, NewTable, Reached, IsLegacy, IsRow
<1>4. CASE ClearTimings
  <2>1. /\ pc = "alter" /\ pc' = "index" /\ NewColumns \subseteq columns /\ seen = rows
        /\ UNCHANGED <<columns, version, rows, existing>>
    BY <1>4 DEF ClearTimings
  <2>2. "ttfc_ms" \in existing <=> "ttfc_ms" \in columns
    BY <2>1 DEF Reached
  <2>3. /\ Cleared(seen')
        /\ \A r \in rows : ~IsLegacy(r) => r \in seen'
        /\ \A q \in seen' : IsRow(q) /\ \E r \in rows : Key(q) = Key(r)
    <3>1. CASE MustClear
      <4>1. seen' = WithoutTimings(rows) /\ version # "2"
        BY <1>4, <2>1, <3>1 DEF ClearTimings, MustClear
      <4>2. \A r \in rows : IsRow(r) /\ IsLegacy(r)
        BY <4>1 DEF Untouched
      <4> QED BY <4>1, <4>2, ClearedRows
    <3>2. CASE ~MustClear
      <4>1. seen' = rows
        BY <1>4, <2>1, <3>2 DEF ClearTimings
      <4>2. Cleared(rows)
        <5>1. CASE version = "2"
          BY <5>1 DEF Versioned, Migrated
        <5>2. CASE "ttfc_ms" \notin existing
          BY <5>2, <2>2 DEF NewTable, Cleared
        <5> QED BY <3>2, <5>1, <5>2 DEF MustClear
      <4> QED BY <4>1, <4>2
    <3> QED BY <3>1, <3>2
  <2>4. Shape'
    BY <2>1, <2>3 DEF IsRow
  <2>5. Versioned' /\ Untouched' /\ NewTable'
    BY <2>1 DEF Versioned, Migrated, Cleared, Untouched, NewTable, IsLegacy
  <2>6. Cleared(seen)' /\ \A r \in rows' : ~IsLegacy(r) => r \in seen'
    BY <2>1, <2>3 DEF Cleared, IsLegacy
  <2>7. Reached'
    BY <2>1, <2>2, <2>3, <2>6 DEF Reached, IsLegacy, Key
  <2> QED BY <2>4, <2>5, <2>7
<1>5. CASE CreateIndexes
  <2>1. /\ pc = "index" /\ pc' = "record" /\ rows' = seen /\ seen' = seen
        /\ UNCHANGED <<columns, version, existing>>
    BY <1>5 DEF CreateIndexes
  <2>2. NewColumns \subseteq columns /\ Cleared(seen)
    BY <2>1 DEF Reached
  <2>3. \A r \in seen : \E q \in rows : Key(q) = Key(r)
    BY <2>1 DEF Reached
  <2>4. version # "2" => \A r \in seen : IsLegacy(r)
    BY <2>3, LegacyByKey DEF Untouched
  <2>5. "ttfc_ms" \notin columns => \A r \in seen : ~IsLegacy(r)
    BY <2>3, LegacyByKey DEF NewTable
  <2>6. Shape'
    BY <2>1 DEF IsRow
  <2>7. Migrated'
    BY <2>1, <2>2 DEF Migrated, Cleared, IsLegacy
  <2>8. Untouched' /\ NewTable'
    BY <2>1, <2>4, <2>5 DEF Untouched, NewTable, IsLegacy
  <2>9. Reached'
    BY <2>1, <2>7 DEF Reached
  <2> QED BY <2>6, <2>7, <2>8, <2>9 DEF Versioned
<1>6. CASE RecordVersion
  <2>1. Migrated'
    BY <1>6 DEF RecordVersion, Reached, Migrated, Cleared, IsLegacy
  <2> QED BY <1>6, <2>1 DEF RecordVersion, Versioned, Untouched, NewTable, Reached, IsLegacy, IsRow
<1>7. ASSUME NEW r \in Records, InsertSpan(r) PROVE IInv'
  <2>1. /\ pc = "ready" /\ pc' = "ready" /\ rows' = Inserted(rows, r) /\ seen' = rows'
        /\ UNCHANGED <<columns, version, existing>>
    BY <1>7 DEF InsertSpan
  <2>2. version = "2" /\ Migrated
    BY <2>1 DEF Reached, Versioned
  <2>3. PICK n : /\ IsRow(n) /\ Key(n) = Key(r)
                 /\ \A q \in rows' : q = n \/ q \in rows
    BY <2>1, InsertedRows
  <2>4. ~IsLegacy(n)
    BY <2>3, RecordsAreNew, LegacyByKey
  <2>5. Cleared(rows)' /\ ("ttfc_ms" \notin columns => \A q \in rows' : ~IsLegacy(q))
    BY <2>2, <2>3, <2>4 DEF Migrated, Cleared, NewTable, IsLegacy
  <2>6. Shape'
    BY <2>1, <2>3 DEF IsRow
  <2>7. Migrated' /\ Untouched' /\ NewTable'
    BY <2>1, <2>2, <2>5 DEF Migrated, Untouched, NewTable, IsLegacy
  <2> QED BY <2>1, <2>2, <2>6, <2>7 DEF Versioned, Reached
<1>8. CASE Crash
  BY <1>8 DEF Crash, Versioned, Migrated, Cleared, Untouched, NewTable, Reached, IsLegacy, IsRow
<1>9. CASE UNCHANGED vars
  BY <1>9 DEF vars, Versioned, Migrated, Cleared, Untouched, NewTable, Reached, IsLegacy, IsRow, Key
<1> QED BY <1>1, <1>2, <1>3, <1>4, <1>5, <1>6, <1>7, <1>8, <1>9 DEF Next

(* A Core that answers requests has a migrated table (_init_db).           *)
THEOREM MigrationComplete == Spec => []ReadyMeansMigrated
<1>1. IInv => ReadyMeansMigrated
  BY DEF IInv, Reached, Versioned, Migrated, Cleared, ReadyMeansMigrated
<1> QED BY InitIInv, NextIInv, <1>1, PTL DEF Spec

(* No start of the Core touches a span of this version.                    *)
THEOREM MigrationIsOneTime == Spec => NewSpansSurvive
<1> DEFINE Survive == \A r \in rows : ~IsLegacy(r) =>
                        r \in rows' \/ \E q \in rows' : Key(q) = Key(r) /\ pc = "ready"
<1>1. IInv /\ [Next]_vars => [Survive]_vars
  <2> SUFFICES ASSUME IInv, Next PROVE Survive
    BY DEF vars
  <2>1. CASE rows' = rows
    BY <2>1
  <2>2. CASE CreateIndexes
    BY <2>2 DEF CreateIndexes, IInv, Reached
  <2>3. ASSUME NEW r \in Records, InsertSpan(r) PROVE Survive
    <3>1. pc = "ready" /\ rows' = Inserted(rows, r)
      BY <2>3 DEF InsertSpan
    <3>2. PICK n : /\ Key(n) = Key(r) /\ n \in rows'
                   /\ \A q \in rows : q \in rows' \/ Key(q) = Key(r)
      BY <3>1, InsertedRows DEF IInv, Shape
    <3> QED BY <3>1, <3>2
  <2> QED
    BY <2>1, <2>2, <2>3
    DEF Next, CreateTables, ReadColumns, AddColumn, ClearTimings, RecordVersion, Crash
<1> QED BY InitIInv, NextIInv, <1>1, PTL DEF Spec, NewSpansSurvive

---------------------------------------------------------------------------
(* The queries.  The table is finite, as a file is: a start clears it row  *)
(* by row, and a record adds one row at most.  Its rows keep the types of  *)
(* the records.                                                            *)
Typed(r) ==
  /\ {"start", "duration", "tokens", "session", "ttft", "copy"} \subseteq DOMAIN r
  /\ r.start \in Int /\ r.duration \in Int
  /\ r.tokens \in Nat \cup {None} /\ r.session \in Int \cup {None}

Table == IsFiniteSet(rows) /\ IsFiniteSet(seen) /\ \A r \in rows \cup seen : Typed(r)

LEMMA SentIsTyped ==
  ASSUME NEW r \in Records \cup Legacy
  PROVE  Typed(r)
  BY RowsAssumption, LegacyAssumption DEF Typed

LEMMA TypedCleared ==
  ASSUME NEW R, \A r \in R : Typed(r)
  PROVE  \A r \in WithoutTimings(R) : Typed(r)
<1> SUFFICES ASSUME NEW r \in R PROVE Typed([r EXCEPT !.ttft = None])
  BY DEF WithoutTimings
<1>1. Typed(r)
  OBVIOUS
<1> QED BY <1>1 DEF Typed

LEMMA TypedInserted ==
  ASSUME NEW R, \A r \in R : Typed(r), NEW r \in Records
  PROVE  \A q \in Inserted(R, r) : Typed(q)
<1>1. Typed(r)
  BY SentIsTyped
<1>2. Typed([r EXCEPT !.copy = Cardinality(SameSpan(R, r))])
  BY <1>1 DEF Typed
<1> QED BY <1>1, <1>2 DEF Inserted

LEMMA FiniteCleared ==
  ASSUME NEW R, IsFiniteSet(R)
  PROVE  IsFiniteSet(WithoutTimings(R))
<1> DEFINE f == [r \in R |-> [r EXCEPT !.ttft = None]]
<1>1. f \in Surjection(R, WithoutTimings(R))
  BY DEF WithoutTimings, Surjection
<1> QED BY <1>1, FS_Surjection

LEMMA FiniteTraces ==
  ASSUME NEW R, IsFiniteSet(R)
  PROVE  IsFiniteSet(TracesOf(R))
<1> DEFINE f == [r \in R |-> r.trace]
<1>1. f \in Surjection(R, TracesOf(R))
  BY DEF TracesOf, Surjection
<1> QED BY <1>1, FS_Surjection

LEMMA FiniteInserted ==
  ASSUME NEW R, IsFiniteSet(R), NEW r
  PROVE  IsFiniteSet(Inserted(R, r))
<1>1. IsFiniteSet(R \ SameSpan(R, r))
  BY FS_Difference
<1>2. CASE keyed
  BY <1>1, <1>2, FS_AddElement DEF Inserted
<1>3. CASE ~keyed
  BY <1>3, FS_AddElement DEF Inserted
<1> QED BY <1>2, <1>3

LEMMA TableOK == Spec => []Table
<1>1. Init => Table
  <2> SUFFICES ASSUME Init PROVE Table
    OBVIOUS
  <2>1. IsFiniteSet(rows) /\ rows \subseteq Legacy /\ seen = rows
    BY FS_EmptySet DEF Init
  <2> QED BY <2>1, SentIsTyped DEF Table
<1>2. Table /\ [Next]_vars => Table'
  <2> SUFFICES ASSUME Table, [Next]_vars PROVE Table'
    OBVIOUS
  <2>1. CASE rows' = rows /\ (seen' = rows \/ seen' = seen)
    BY <2>1 DEF Table, Typed
  <2>2. CASE ClearTimings
    <3>1. rows' = rows /\ (seen' = WithoutTimings(seen) \/ seen' = seen)
      BY <2>2 DEF ClearTimings
    <3>2. IsFiniteSet(WithoutTimings(seen)) /\ \A r \in WithoutTimings(seen) : Typed(r)
      BY FiniteCleared, TypedCleared DEF Table
    <3> QED BY <3>1, <3>2 DEF Table, Typed
  <2>3. CASE CreateIndexes
    BY <2>3 DEF CreateIndexes, Table, Typed
  <2>4. ASSUME NEW r \in Records, InsertSpan(r) PROVE Table'
    <3>1. rows' = Inserted(rows, r) /\ seen' = rows'
      BY <2>4 DEF InsertSpan
    <3>2. IsFiniteSet(Inserted(rows, r)) /\ \A q \in Inserted(rows, r) : Typed(q)
      BY FiniteInserted, TypedInserted DEF Table
    <3> QED BY <3>1, <3>2 DEF Table, Typed
  <2> QED
    BY <2>1, <2>2, <2>3, <2>4
    DEF Next, vars, CreateTables, ReadColumns, AddColumn, RecordVersion, Crash
<1> QED BY <1>1, <1>2, PTL DEF Spec

(* Fewer spans have fewer traces, and both are counted by numbers.         *)
LEMMA Fewer ==
  ASSUME NEW T, IsFiniteSet(T), NEW S \in SUBSET T
  PROVE  /\ IsFiniteSet(S) /\ Cardinality(S) \in Nat /\ Cardinality(T) \in Nat
         /\ Cardinality(S) <= Cardinality(T)
  BY FS_Subset, FS_CardinalityType

LEMMA Some ==
  ASSUME NEW S, IsFiniteSet(S), S # {}
  PROVE  Cardinality(S) \in Nat /\ Cardinality(S) > 0
<1>1. Cardinality(S) \in Nat /\ Cardinality(S) # 0
  BY FS_EmptySet, FS_CardinalityType
<1> QED BY <1>1

---------------------------------------------------------------------------
(* A sum of naturals counts units: f[x] for each x.  The fold that sums f  *)
(* takes its elements in an order of its own; that it counts the units is  *)
(* shown by a smallest subset of which it does not.                        *)
Units(f, T) == {u \in T \X Nat : u[2] \in 1..f[u[1]]}
Unit(f, x) == {x} \X (1..f[x])

(* Of some finite sets one is a smallest.                                  *)
LEMMA Least ==
  ASSUME NEW T, T # {}, \A s \in T : IsFiniteSet(s)
  PROVE  \E s \in T : \A u \in T : Cardinality(s) <= Cardinality(u)
<1> DEFINE N == {Cardinality(s) : s \in T}
<1>1. N \subseteq Nat /\ N # {}
  BY FS_CardinalityType
<1>2. PICK n \in N : \A k \in N : ~ (<<k, n>> \in OpToRel(<, Nat))
  BY <1>1, WFMin, NatLessThanWellFounded, Zenon
<1>3. ASSUME NEW k \in N PROVE n <= k
  <2>1. n \in Nat /\ k \in Nat
    BY <1>1
  <2>2. ~(k < n)
    BY <1>2, <2>1 DEF OpToRel
  <2> QED BY <2>1, <2>2
<1> QED BY <1>2, <1>3

LEMMA OneUnit ==
  ASSUME NEW S, NEW f \in [S -> Nat], NEW x \in S
  PROVE  IsFiniteSet(Unit(f, x)) /\ Cardinality(Unit(f, x)) = f[x]
<1>1. IsFiniteSet(1..f[x]) /\ Cardinality(1..f[x]) = f[x]
  BY FS_Interval
<1>2. IsFiniteSet({x}) /\ Cardinality({x}) = 1
  BY FS_Singleton
<1> QED BY <1>1, <1>2, FS_Product DEF Unit

LEMMA UnitsFinite ==
  ASSUME NEW S, NEW f \in [S -> Nat], NEW T \in SUBSET S, IsFiniteSet(T)
  PROVE  IsFiniteSet(Units(f, T))
<1> DEFINE U == {Unit(f, x) : x \in T}
           g == [x \in T |-> Unit(f, x)]
<1>1. g \in Surjection(T, U)
  BY DEF Surjection
<1>2. IsFiniteSet(U)
  BY <1>1, FS_Surjection
<1>3. IsFiniteSet(UNION U)
  BY <1>2, OneUnit, FS_UNION
<1>4. Units(f, T) \subseteq UNION U
  BY DEF Units, Unit
<1> QED BY <1>3, <1>4, FS_Subset

LEMMA UnitsAdd ==
  ASSUME NEW S, NEW f \in [S -> Nat], NEW T \in SUBSET S, IsFiniteSet(T), NEW x \in T
  PROVE  Cardinality(Units(f, T)) = f[x] + Cardinality(Units(f, T \ {x}))
<1>1. IsFiniteSet(Units(f, T \ {x})) /\ Cardinality(Units(f, T \ {x})) \in Nat
  BY UnitsFinite, FS_Subset, FS_CardinalityType
<1>2. Units(f, T) = Units(f, T \ {x}) \cup Unit(f, x)
  BY DEF Units, Unit
<1>3. Units(f, T \ {x}) \cap Unit(f, x) = {}
  BY DEF Units, Unit
<1>4. IsFiniteSet(Unit(f, x)) /\ Cardinality(Unit(f, x)) = f[x]
  BY OneUnit
<1>5. Cardinality({}) = 0
  BY FS_EmptySet
<1>6. f[x] \in Nat
  OBVIOUS
<1>7. Cardinality(Units(f, T \ {x}) \cup Unit(f, x))
        = Cardinality(Units(f, T \ {x})) + Cardinality(Unit(f, x)) - Cardinality(Units(f, T \ {x}) \cap Unit(f, x))
  BY <1>1, <1>4, FS_Union
<1>8. Cardinality(Units(f, T \ {x}) \cap Unit(f, x)) = 0
  BY <1>3, <1>5
<1>9. Cardinality(Units(f, T)) = Cardinality(Units(f, T \ {x}) \cup Unit(f, x))
  BY <1>2
<1> QED BY <1>1, <1>4, <1>6, <1>7, <1>8, <1>9

LEMMA SumIsUnits ==
  ASSUME NEW S, IsFiniteSet(S), NEW f \in [S -> Nat]
  PROVE  SumFunction(f) = Cardinality(Units(f, S))
<1> DEFINE iter[s \in SUBSET S] ==
             IF s = {} THEN 0 ELSE LET x == CHOOSE x \in s : TRUE IN f[x] + iter[s \ {x}]
           units == [s \in SUBSET S |-> Cardinality(Units(f, s))]
<1>1. SumFunction(f) = iter[S]
  BY DEF SumFunction, SumFunctionOnSet, FoldFunctionOnSet, MapThenFoldSet
<1>2. \A s \in SUBSET S : IsFiniteSet(s)
  BY FS_Subset
<1>3. Units(f, {}) = {} /\ Cardinality({}) = 0
  BY FS_EmptySet DEF Units
<1>4. ASSUME NEW s \in SUBSET S, s # {}
      PROVE  LET x == CHOOSE x \in s : TRUE
             IN s \ {x} \in SUBSET S /\ x \in s /\ units[s] = f[x] + units[s \ {x}]
  <2> DEFINE x == CHOOSE x \in s : TRUE
  <2>1. x \in s
    BY <1>4
  <2> HIDE DEF x
  <2>2. Cardinality(Units(f, s)) = f[x] + Cardinality(Units(f, s \ {x}))
    BY <1>2, <2>1, UnitsAdd
  <2> QED BY <2>1, <2>2 DEF x
<1>5. units = [s \in SUBSET S |-> IF s = {} THEN 0 ELSE LET x == CHOOSE x \in s : TRUE IN f[x] + units[s \ {x}]]
  BY <1>3, <1>4
<1>6. iter = [s \in SUBSET S |-> IF s = {} THEN 0 ELSE LET x == CHOOSE x \in s : TRUE IN f[x] + iter[s \ {x}]]
  BY <1>5, Zenon
<1> HIDE DEF iter
<1> DEFINE wrong == {s \in SUBSET S : iter[s] # units[s]}
<1>7. ASSUME wrong # {} PROVE FALSE
  <2>1. PICK s \in wrong : \A u \in wrong : Cardinality(s) <= Cardinality(u)
    BY <1>2, <1>7, Least
  <2>2. s # {}
    BY <1>3, <1>6, <2>1
  <2> DEFINE x == CHOOSE x \in s : TRUE
  <2>3. s \in SUBSET S /\ x \in s /\ s \ {x} \in SUBSET S
    BY <2>1, <2>2
  <2>4. iter[s] = f[x] + iter[s \ {x}] /\ units[s] = f[x] + units[s \ {x}]
    BY <1>4, <1>6, <2>2, <2>3
  <2>5. s \ {x} \in wrong
    BY <2>1, <2>3, <2>4
  <2> HIDE DEF x
  <2>6. Cardinality(s \ {x}) = Cardinality(s) - 1 /\ Cardinality(s) \in Nat
    BY <1>2, <2>3, FS_RemoveElement, FS_CardinalityType
  <2>7. Cardinality(s) <= Cardinality(s \ {x})
    BY <2>1, <2>5
  <2> QED BY <2>6, <2>7
<1>8. iter[S] = units[S]
  BY <1>7
<1> QED BY <1>1, <1>8 DEF iter

(* What is sorted into bins is as much as all bins hold.                   *)
LEMMA PartitionCount ==
  ASSUME NEW R, IsFiniteSet(R), NEW B, IsFiniteSet(B), NEW g \in [R -> B], NEW f \in [B -> Nat],
         \A b \in B : f[b] = Cardinality({r \in R : g[r] = b})
  PROVE  SumFunction(f) = Cardinality(R)
<1> DEFINE In(b) == {r \in R : g[r] = b}
           h == [b \in B |-> CHOOSE p : p \in Bijection(1..f[b], In(b))]
           m == [u \in Units(f, B) |-> h[u[1]][u[2]]]
<1>1. ASSUME NEW b \in B
      PROVE  h[b] \in Bijection(1..f[b], In(b))
  <2>1. IsFiniteSet(In(b)) /\ f[b] = Cardinality(In(b))
    BY FS_Subset
  <2>2. \E p : p \in Bijection(1..f[b], In(b))
    BY <2>1, FS_CardinalityType DEF ExistsBijection
  <2> QED BY <2>2
<1> HIDE DEF h
<1>2. ASSUME NEW b \in B
      PROVE  /\ \A i \in 1..f[b] : h[b][i] \in R /\ g[h[b][i]] = b
             /\ \A i, j \in 1..f[b] : h[b][i] = h[b][j] => i = j
             /\ \A r \in R : g[r] = b => \E i \in 1..f[b] : h[b][i] = r
  BY <1>1 DEF Bijection, Injection, Surjection, IsInjective
<1>3. \A u \in Units(f, B) : u[1] \in B /\ u[2] \in 1..f[u[1]] /\ u = <<u[1], u[2]>>
  BY DEF Units
<1>4. m \in [Units(f, B) -> R]
  BY <1>2, <1>3
<1>5. ASSUME NEW u \in Units(f, B), NEW v \in Units(f, B), m[u] = m[v]
      PROVE  u = v
  <2>1. u[1] = v[1]
    BY <1>2, <1>3, <1>5
  <2>2. u[2] = v[2]
    BY <1>2, <1>3, <1>5, <2>1
  <2> QED BY <1>3, <2>1, <2>2
<1>6. ASSUME NEW r \in R
      PROVE  \E u \in Units(f, B) : m[u] = r
  <2>1. PICK i \in 1..f[g[r]] : h[g[r]][i] = r
    BY <1>2
  <2>2. g[r] \in B /\ f[g[r]] \in Nat /\ i \in Nat
    OBVIOUS
  <2>3. <<g[r], i>> \in Units(f, B)
    BY <2>2 DEF Units
  <2> QED BY <2>1, <2>3
<1>7. m \in Bijection(Units(f, B), R)
  BY <1>4, <1>5, <1>6 DEF Bijection, Injection, Surjection, IsInjective
<1>8. IsFiniteSet(Units(f, B))
  BY UnitsFinite
<1>9. Cardinality(R) = Cardinality(Units(f, B))
  BY <1>7, <1>8, FS_Bijection DEF ExistsBijection
<1> QED BY <1>9, SumIsUnits

(* And the sum over all is the sum of the sums over the bins.              *)
LEMMA PartitionSum ==
  ASSUME NEW R, IsFiniteSet(R), NEW B, IsFiniteSet(B), NEW g \in [R -> B], NEW w \in [R -> Nat],
         NEW f \in [B -> Nat],
         \A b \in B : f[b] = SumFunction([r \in {q \in R : g[q] = b} |-> w[r]])
  PROVE  SumFunction(f) = SumFunction(w)
<1> DEFINE U == Units(w, R)
           k == [u \in U |-> g[u[1]]]
<1>1. IsFiniteSet(U)
  BY UnitsFinite
<1>2. k \in [U -> B]
  BY DEF Units
<1>3. ASSUME NEW b \in B
      PROVE  f[b] = Cardinality({u \in U : k[u] = b})
  <2> DEFINE S == {q \in R : g[q] = b}
             v == [r \in S |-> w[r]]
  <2>1. v \in [S -> Nat] /\ IsFiniteSet(S)
    BY FS_Subset
  <2>2. SumFunction(v) = Cardinality(Units(v, S))
    BY <2>1, SumIsUnits
  <2>3. Units(v, S) = {u \in U : k[u] = b}
    BY DEF Units
  <2> QED BY <2>2, <2>3
<1> HIDE DEF k, U
<1>4. SumFunction(f) = Cardinality(U)
  BY <1>1, <1>2, <1>3, PartitionCount
<1> QED BY <1>4, SumIsUnits DEF U

---------------------------------------------------------------------------
(* What the filters have in common: both limits or none, no condition on   *)
(* a whole trace.                                                          *)
Plain(f) ==
  /\ DOMAIN f = {"from", "to", "model", "session", "status", "longer"}
  /\ f.status = None /\ f.longer = None
  /\ f.from = None => f.to = None

LEMMA WindowFields ==
  ASSUME NEW w \in Windows \cup {NoFilter}
  PROVE  Plain(w) /\ w.session = None
<1>1. CASE w = NoFilter
  BY <1>1 DEF NoFilter, Plain
<1>2. CASE w \in Windows
  <2>1. PICK v \in Times \X Times : w = [NoFilter EXCEPT !.from = v[1], !.to = v[2]]
    BY <1>2 DEF Windows
  <2>2. v[1] # None
    BY <2>1, QueriesAssumption
  <2> QED BY <2>1, <2>2 DEF NoFilter, Plain
<1> QED BY <1>1, <1>2

LEMMA FilterFields == \A f \in Filters : Plain(f)
<1>1. SUFFICES ASSUME NEW w \in Windows \cup {NoFilter}, NEW m \in Models \cup {None},
                      NEW s \in Sessions \cup {None}
               PROVE  Plain(Filter(w, m, s))
  BY DEF Filters
<1>2. Plain(w)
  BY WindowFields
<1> QED BY <1>2 DEF Filter, Plain

(* A trace that the dashboard counts is in the list, and only a window     *)
(* with a model lets the list find a trace without any span that matches.  *)
LEMMA CountedIsListed ==
  ASSUME NEW R, NEW f
  PROVE  TracesOf(Matched(R, f)) \subseteq Qualified(R, f)
<1> SUFFICES ASSUME NEW r \in Matched(R, f) PROVE r.trace \in Qualified(R, f)
  BY DEF TracesOf
<1>1. r \in InWindow(R, f) /\ r \in R /\ (f.model = None \/ r.model = f.model)
  BY DEF Matched, InWindow
<1>2. r.trace \in HasSession(R, f.session)
  BY DEF Matched
<1> QED BY <1>1, <1>2 DEF Qualified, HasModel, TracesOf

LEMMA ListedIsCounted ==
  ASSUME NEW R, NEW f, Plain(f), f.from = None \/ f.model = None
  PROVE  Qualified(R, f) \subseteq TracesOf(Matched(R, f))
<1> SUFFICES ASSUME NEW t \in Qualified(R, f)
             PROVE  \E r \in Matched(R, f) : r.trace = t
  BY DEF TracesOf
<1>1. t \in HasSession(R, f.session)
  BY DEF Qualified
<1>2. PICK r \in InWindow(R, f) : r.trace = t /\ (f.model = None \/ r.model = f.model)
  <2>1. CASE f.model = None
    BY <2>1 DEF Qualified, TracesOf
  <2>2. CASE f.from = None /\ f.model # None
    <3>1. PICK r \in R : r.trace = t /\ r.model = f.model
      BY <2>2 DEF Qualified, HasModel
    <3>2. r \in InWindow(R, f)
      BY <2>2 DEF InWindow, Plain
    <3> QED BY <3>1, <3>2
  <2> QED BY <2>1, <2>2
<1> QED BY <1>1, <1>2 DEF Matched

LEMMA AllListed ==
  ASSUME NEW R, NEW f, Plain(f)
  PROVE  Listed(R, f) = Qualified(R, f)
  BY DEF Listed, Plain

(* The failed traces of the list have a failed span, anywhere.             *)
LEMMA FailedListed ==
  ASSUME NEW R, NEW f \in Filters
  PROVE  Listed(R, ByStatus(f)) = {t \in Qualified(R, f) : \E r \in R : r.trace = t /\ r.status = "ERROR"}
<1> DEFINE g == ByStatus(f)
<1>1. /\ g.from = f.from /\ g.to = f.to /\ g.model = f.model /\ g.session = f.session
      /\ g.longer = None /\ g.status = "ERROR"
  BY FilterFields DEF ByStatus, Plain
<1>2. Qualified(R, g) = Qualified(R, f)
  BY <1>1 DEF Qualified, InWindow
<1>3. \A t : TraceStatus(TraceSpans(R, t)) = "ERROR" <=> \E r \in R : r.trace = t /\ r.status = "ERROR"
  BY DEF TraceStatus, TraceSpans, Failed
<1> HIDE DEF g
<1>4. Listed(R, g) = {t \in Qualified(R, g) : TraceStatus(TraceSpans(R, t)) = "ERROR"}
  BY <1>1, QueriesAssumption DEF Listed
<1> QED BY <1>2, <1>3, <1>4 DEF g

LEMMA CountsFit ==
  ASSUME IsFiniteSet(rows), NEW f \in Filters
  PROVE  CountsLikeList(Metrics(rows, f), f)
<1> DEFINE M == Matched(rows, f)
           T == TracesOf(M)
           E == TracesOf(Failed(M))
           L == Listed(rows, f)
           B == Listed(rows, ByStatus(f))
<1>1. Metrics(rows, f).traces = Cardinality(T) /\ Metrics(rows, f).errors = Cardinality(E)
  BY DEF Metrics
<1>2. IsFiniteSet(L) /\ IsFiniteSet(B)
  <2>1. L \subseteq TracesOf(rows) /\ B \subseteq TracesOf(rows)
    BY DEF Listed, Qualified, HasModel, ByStatus
  <2> QED BY <2>1, FiniteTraces, FS_Subset
<1>3. L = Qualified(rows, f)
  BY FilterFields, AllListed
<1>4. T \subseteq L
  BY <1>3, CountedIsListed
<1>5. f.from = None \/ f.model = None => T = L
  BY <1>3, <1>4, FilterFields, ListedIsCounted
<1>6. E \subseteq B
  <2> SUFFICES ASSUME NEW r \in Failed(M) PROVE r.trace \in B
    BY DEF TracesOf
  <2>1. r \in M /\ r \in rows /\ r.status = "ERROR"
    BY DEF Failed, Matched, InWindow
  <2>2. r.trace \in Qualified(rows, f)
    BY <2>1, CountedIsListed DEF TracesOf
  <2> QED BY <2>1, <2>2, FailedListed
<1>7. Wholly(f) => B \subseteq E
  <2> SUFFICES ASSUME Wholly(f), NEW t \in B PROVE \E r \in Failed(M) : r.trace = t
    BY DEF TracesOf
  <2>1. PICK r \in rows : r.trace = t /\ r.status = "ERROR"
    BY FailedListed
  <2>2. t \in HasSession(rows, f.session)
    BY FailedListed DEF Qualified
  <2>3. r \in Matched(rows, f)
    BY <2>1, <2>2, FilterFields DEF Wholly, Matched, InWindow, Plain
  <2> QED BY <2>1, <2>3 DEF Failed
<1>8. Cardinality(T) <= Cardinality(L) /\ Cardinality(E) <= Cardinality(B)
  BY <1>2, <1>4, <1>6, Fewer
<1>9. Wholly(f) => E = B
  BY <1>6, <1>7
<1> HIDE DEF T, E, L, B
<1>10. /\ Cardinality(T) <= Cardinality(L) /\ Cardinality(E) <= Cardinality(B)
       /\ f.from = None \/ f.model = None => Cardinality(T) = Cardinality(L)
       /\ Wholly(f) => Cardinality(E) = Cardinality(B)
  BY <1>5, <1>8, <1>9
<1> QED BY <1>1, <1>10 DEF CountsLikeList, L, B

(* With a model as its only condition the dashboard sees what the model    *)
(* list groups.                                                            *)
LEMMA ModelsFit ==
  ASSUME NEW m \in DOMAIN ModelsList(rows)
  PROVE  LET l == ModelsList(rows)[m]
             d == Metrics(rows, [NoFilter EXCEPT !.model = m])
         IN l = [spans |-> d.spans, traces |-> d.traces, llm |-> d.llm, errors |-> d.llmErrors]
<1> DEFINE f == [NoFilter EXCEPT !.model = m]
           M == {r \in rows : r.model = m}
<1>1. f.from = None /\ f.to = None /\ f.model = m /\ f.session = None
  BY DEF NoFilter
<1>2. m \in {r.model : r \in rows} \ {None}
  BY DEF ModelsList
<1> HIDE DEF f
<1>3. Matched(rows, f) = M
  BY <1>1, <1>2 DEF Matched, InWindow, HasSession, TracesOf
<1>4. ModelsList(rows)[m] =
        [spans |-> Cardinality(M), traces |-> Cardinality(TracesOf(M)),
         llm |-> Cardinality(Of(M, "LLM")), errors |-> Cardinality(Failed(Of(M, "LLM")))]
  BY <1>2 DEF ModelsList
<1>5. /\ Metrics(rows, f).spans = Cardinality(M)
      /\ Metrics(rows, f).traces = Cardinality(TracesOf(M))
      /\ Metrics(rows, f).llm = Cardinality(Of(M, "LLM"))
      /\ Metrics(rows, f).llmErrors = Cardinality(Failed(Of(M, "LLM")))
  BY <1>3 DEF Metrics
<1> QED BY <1>4, <1>5 DEF f

(* A point of the chart: its bucket has a span.                            *)
LEMMA PointHasRates ==
  ASSUME IsFiniteSet(rows), NEW w \in Windows, NEW m \in Models \cup {None},
         NEW b \in Buckets(rows, [w EXCEPT !.model = m])
  PROVE  LET p == Point(rows, [w EXCEPT !.model = m], b)
         IN /\ p.traces > 0
            /\ m = None => p.traceErrors <= p.traces
<1> DEFINE f == [w EXCEPT !.model = m]
<1>1. f.from = w.from /\ f.to = w.to /\ f.model = m
  BY WindowFields DEF Plain
<1> HIDE DEF f
<1> DEFINE main == InBucket(MainSpans(rows, f), b)
           all == InBucket(CandidateSpans(rows, f), b)
           counted == Counted(main, all)
<1>2. /\ Point(rows, f, b).traces = Cardinality(TracesOf(counted))
      /\ Point(rows, f, b).traceErrors = Cardinality(TracesOf(Failed(all)))
  BY DEF Point
<1>3. counted \subseteq rows /\ SeriesTools(rows, f) \subseteq CandidateSpans(rows, f)
  BY DEF InBucket, MainSpans, CandidateSpans, SeriesTools, InWindow, Of, Counted
<1>4. counted # {}
  <2>1. PICK r \in MainSpans(rows, f) \cup SeriesTools(rows, f) : Bucket(r) = b
    BY DEF Buckets, f
  <2>2. CASE r \in MainSpans(rows, f)
    BY <2>1, <2>2 DEF InBucket, Counted
  <2>3. CASE r \in SeriesTools(rows, f)
    <3>1. r \in all
      BY <1>3, <2>1, <2>3 DEF InBucket
    <3> QED BY <3>1 DEF Counted
  <2> QED BY <2>1, <2>2, <2>3
<1>5. TracesOf(counted) # {} /\ IsFiniteSet(TracesOf(counted))
  <2>1. IsFiniteSet(counted)
    BY <1>3, FS_Subset
  <2> QED BY <1>4, <2>1, FiniteTraces DEF TracesOf
<1>6. Cardinality(TracesOf(counted)) > 0
  BY <1>5, Some
<1>7. m = None => Cardinality(TracesOf(Failed(all))) <= Cardinality(TracesOf(counted))
  <2> SUFFICES ASSUME m = None PROVE TracesOf(Failed(all)) \subseteq TracesOf(counted)
    BY <1>5, Fewer
  <2>1. CandidateSpans(rows, f) = MainSpans(rows, f)
    BY <1>1 DEF CandidateSpans, Candidates, MainSpans, InWindow, TracesOf
  <2>2. counted = all
    BY <2>1 DEF Counted
  <2>3. Failed(all) \subseteq counted
    BY <2>2 DEF Failed
  <2> QED BY <2>3 DEF TracesOf
<1> QED BY <1>2, <1>6, <1>7 DEF f

LEMMA ChartFits ==
  ASSUME IsFiniteSet(rows), NEW w \in Windows, NEW m \in Models \cup {None}
  PROVE  PointsHaveRates(w, m)
<1> DEFINE series == TimeSeries(rows, [w EXCEPT !.model = m])
<1> SUFFICES ASSUME NEW b \in DOMAIN series
             PROVE  /\ series[b].traces > 0
                    /\ m = None => series[b].traceErrors <= series[b].traces
  BY DEF PointsHaveRates
<1>1. b \in Buckets(rows, [w EXCEPT !.model = m])
  BY DEF TimeSeries
<1>2. series[b] = Point(rows, [w EXCEPT !.model = m], b)
  BY <1>1 DEF TimeSeries
<1> QED BY <1>1, <1>2, PointHasRates

(* Dashboard, trace list, model list and chart count alike (get_metrics,   *)
(* get_trace_summaries, get_models_list, get_time_series).                 *)
THEOREM ViewsCountAlike == Spec => []CountsAgree
<1>1. Table => CountsAgree
  BY CountsFit, ModelsFit, ChartFits DEF Table, CountsAgree
<1> QED BY TableOK, <1>1, PTL
---------------------------------------------------------------------------
(* The chart and the dashboard.  Spans that made the buckets are counted   *)
(* in them once each.                                                      *)
LEMMA BucketsAddUp ==
  ASSUME IsFiniteSet(rows), NEW f, NEW R \in SUBSET (MainSpans(rows, f) \cup SeriesTools(rows, f)),
         NEW n, n = [b \in Buckets(rows, f) |-> Cardinality(InBucket(R, b))]
  PROVE  SumFunction(n) = Cardinality(R)
<1> DEFINE B == Buckets(rows, f)
           A == MainSpans(rows, f) \cup SeriesTools(rows, f)
           g == [r \in R |-> Bucket(r)]
<1>1. IsFiniteSet(A)
  <2>1. A \subseteq rows
    BY DEF MainSpans, SeriesTools, CandidateSpans, InWindow, Of
  <2> QED BY <2>1, FS_Subset
<1>2. IsFiniteSet(B)
  <2> DEFINE h == [r \in A |-> Bucket(r)]
  <2>1. h \in Surjection(A, B)
    BY DEF Surjection, Buckets
  <2> QED BY <1>1, <2>1, FS_Surjection
<1>3. IsFiniteSet(R)
  BY <1>1, FS_Subset
<1>4. g \in [R -> B]
  BY DEF Buckets
<1>5. \A b \in B : {r \in R : g[r] = b} = InBucket(R, b)
  BY DEF InBucket
<1>6. \A b \in B : IsFiniteSet(InBucket(R, b)) /\ Cardinality(InBucket(R, b)) \in Nat
  BY <1>3, FS_Subset, FS_CardinalityType DEF InBucket
<1>7. n \in [B -> Nat] /\ \A b \in B : n[b] = Cardinality({r \in R : g[r] = b})
  BY <1>5, <1>6
<1> HIDE DEF g, B
<1> QED BY <1>2, <1>3, <1>4, <1>7, PartitionCount

Tokens(r) == IF r.tokens = None THEN 0 ELSE r.tokens

LEMMA TotalType ==
  ASSUME NEW R, IsFiniteSet(R), \A r \in R : Typed(r)
  PROVE  /\ [r \in R |-> Tokens(r)] \in [R -> Nat]
         /\ Total(R) = SumFunction([r \in R |-> Tokens(r)])
         /\ Total(R) \in Nat
<1>1. [r \in R |-> Tokens(r)] \in [R -> Nat]
  BY DEF Typed, Tokens
<1>2. Total(R) = SumFunction([r \in R |-> Tokens(r)])
  BY DEF Total, Tokens
<1> QED BY <1>1, <1>2, SumIsUnits, UnitsFinite, FS_CardinalityType

LEMMA TokensAddUp ==
  ASSUME IsFiniteSet(rows), \A r \in rows : Typed(r), NEW f, NEW R \in SUBSET MainSpans(rows, f),
         NEW n, n = [b \in Buckets(rows, f) |-> Total(InBucket(R, b))]
  PROVE  SumFunction(n) = Total(R)
<1> DEFINE B == Buckets(rows, f)
           A == MainSpans(rows, f) \cup SeriesTools(rows, f)
           g == [r \in R |-> Bucket(r)]
           w == [r \in R |-> Tokens(r)]
<1>1. A \subseteq rows /\ R \subseteq rows /\ R \subseteq A
  BY DEF MainSpans, SeriesTools, CandidateSpans, InWindow, Of
<1>2. IsFiniteSet(B)
  <2> DEFINE h == [r \in A |-> Bucket(r)]
  <2>1. h \in Surjection(A, B)
    BY DEF Surjection, Buckets
  <2> QED BY <1>1, <2>1, FS_Subset, FS_Surjection
<1>3. IsFiniteSet(R) /\ \A r \in R : Typed(r)
  BY <1>1, FS_Subset
<1>4. g \in [R -> B]
  BY DEF Buckets
<1>5. ASSUME NEW b \in B
      PROVE  /\ Total(InBucket(R, b)) \in Nat
             /\ Total(InBucket(R, b)) = SumFunction([r \in {q \in R : g[q] = b} |-> w[r]])
  <2>1. IsFiniteSet(InBucket(R, b)) /\ \A r \in InBucket(R, b) : Typed(r)
    BY <1>3, FS_Subset DEF InBucket
  <2>2. [r \in {q \in R : g[q] = b} |-> w[r]] = [r \in InBucket(R, b) |-> Tokens(r)]
    BY DEF InBucket
  <2> QED BY <2>1, <2>2, TotalType
<1>6. w \in [R -> Nat] /\ Total(R) = SumFunction(w)
  BY <1>3, TotalType
<1>7. n \in [B -> Nat] /\ \A b \in B : n[b] = SumFunction([r \in {q \in R : g[q] = b} |-> w[r]])
  BY <1>5
<1> HIDE DEF g, B, w
<1>8. SumFunction(n) = SumFunction(w)
  BY <1>2, <1>3, <1>4, <1>6, <1>7, PartitionSum
<1> QED BY <1>6, <1>8

LEMMA SeriesFits ==
  ASSUME IsFiniteSet(rows), \A r \in rows : Typed(r), NEW w \in Windows, NEW m \in Models \cup {None}
  PROVE  SeriesAddsUp(w, m)
<1> DEFINE f == [w EXCEPT !.model = m]
<1>1. f.from = w.from /\ f.to = w.to /\ f.model = m /\ f.session = None
  BY WindowFields DEF Plain
<1> HIDE DEF f
<1> DEFINE B == Buckets(rows, f)
           M == MainSpans(rows, f)
           T == SeriesTools(rows, f)
           C == Of(M, "LLM")
           series == TimeSeries(rows, f)
           d == Metrics(rows, f)
<1>2. Matched(rows, f) = M
  BY <1>1 DEF Matched, MainSpans, HasSession, TracesOf, InWindow
<1>3. ToolSpans(rows, f) = T
  BY <1>1, <1>2 DEF ToolSpans, SeriesTools, CandidateSpans, Candidates, Of, TracesOf, InWindow, MainSpans
<1>4. /\ d.llm = Cardinality(C) /\ d.llmErrors = Cardinality(Failed(C)) /\ d.tokens = Total(C)
      /\ d.tools = Cardinality(T) /\ d.toolErrors = Cardinality(Failed(T)) /\ d.spans = Cardinality(M)
  BY <1>2, <1>3 DEF Metrics
<1>5. /\ DOMAIN series = B
      /\ \A b \in B :
           /\ series[b].llm = Cardinality(InBucket(C, b))
           /\ series[b].llmErrors = Cardinality(InBucket(Failed(C), b))
           /\ series[b].tokens = Total(InBucket(C, b))
           /\ series[b].tools = Cardinality(InBucket(T, b))
           /\ series[b].toolErrors = Cardinality(InBucket(Failed(T), b))
           /\ m = None => series[b].spans = Cardinality(InBucket(M, b))
  <2> SUFFICES ASSUME NEW b \in B
               PROVE  /\ Point(rows, f, b).llm = Cardinality(InBucket(C, b))
                      /\ Point(rows, f, b).llmErrors = Cardinality(InBucket(Failed(C), b))
                      /\ Point(rows, f, b).tokens = Total(InBucket(C, b))
                      /\ Point(rows, f, b).tools = Cardinality(InBucket(T, b))
                      /\ Point(rows, f, b).toolErrors = Cardinality(InBucket(Failed(T), b))
                      /\ m = None => Point(rows, f, b).spans = Cardinality(InBucket(M, b))
    BY DEF TimeSeries
  <2>1. /\ Of(InBucket(M, b), "LLM") = InBucket(C, b)
        /\ Failed(InBucket(C, b)) = InBucket(Failed(C), b)
        /\ Failed(InBucket(T, b)) = InBucket(Failed(T), b)
    BY DEF Of, InBucket, Failed
  <2>2. m = None => Counted(InBucket(M, b), InBucket(CandidateSpans(rows, f), b)) = InBucket(M, b)
    <3> SUFFICES ASSUME m = None PROVE CandidateSpans(rows, f) = M
      BY DEF Counted
    <3> QED BY <1>1 DEF CandidateSpans, Candidates, MainSpans, InWindow, TracesOf
  <2> HIDE DEF M, T, C
  <2> QED BY <2>1, <2>2 DEF Point, M, T
<1>6. C \subseteq M /\ Failed(C) \subseteq M /\ Failed(T) \subseteq T
  BY DEF Of, Failed
<1>7. SumOver(series, "llm") = d["llm"]
  BY <1>4, <1>5, <1>6, BucketsAddUp DEF SumOver
<1>8. SumOver(series, "llmErrors") = d["llmErrors"]
  BY <1>4, <1>5, <1>6, BucketsAddUp DEF SumOver
<1>9. SumOver(series, "tools") = d["tools"]
  BY <1>4, <1>5, <1>6, BucketsAddUp DEF SumOver
<1>10. SumOver(series, "toolErrors") = d["toolErrors"]
  BY <1>4, <1>5, <1>6, BucketsAddUp DEF SumOver
<1>11. SumOver(series, "tokens") = d["tokens"]
  BY <1>4, <1>5, <1>6, TokensAddUp DEF SumOver
<1>12. m = None => SumOver(series, "spans") = d.spans
  BY <1>4, <1>5, <1>6, BucketsAddUp DEF SumOver
<1> HIDE DEF series, d
<1>13. \A field \in {"llm", "llmErrors", "tokens", "tools", "toolErrors"} : SumOver(series, field) = d[field]
  BY <1>7, <1>8, <1>9, <1>10, <1>11
<1> QED BY <1>12, <1>13 DEF SeriesAddsUp, series, d, f

---------------------------------------------------------------------------
(* The percentiles.                                                        *)
LEMMA HasMax ==
  ASSUME NEW S \in SUBSET Int, IsFiniteSet(S), S # {}
  PROVE  Max(S) \in S /\ \A y \in S : y <= Max(S)
<1> DEFINE Above(x) == {y \in S : y > x}
<1>1. PICK x \in S : \A y \in S : Cardinality(Above(x)) <= Cardinality(Above(y))
  <2> DEFINE A == {Above(x) : x \in S}
  <2>1. \A x \in S : IsFiniteSet(Above(x))
    <3> TAKE x \in S
    <3>1. Above(x) \in SUBSET S
      OBVIOUS
    <3> QED BY <3>1, FS_Subset
  <2>2. A # {} /\ \A s \in A : IsFiniteSet(s)
    BY <2>1
  <2> HIDE DEF A
  <2>3. PICK s \in A : \A u \in A : Cardinality(s) <= Cardinality(u)
    BY <2>2, Least
  <2>4. PICK x \in S : s = Above(x)
    BY DEF A
  <2>5. \A y \in S : Above(y) \in A
    BY DEF A
  <2> QED BY <2>3, <2>4, <2>5
<1>2. ASSUME NEW y \in S, y > x PROVE FALSE
  <2>1. Above(y) \in SUBSET Above(x) /\ Above(y) # Above(x)
    <3>1. x \in Int /\ y \in Int /\ \A z \in S : z \in Int
      OBVIOUS
    <3>2. \A z \in S : z > y => z > x
      BY <1>2, <3>1
    <3>3. y \in Above(x) /\ y \notin Above(y)
      BY <1>2, <3>1
    <3>4. Above(y) \in SUBSET Above(x)
      BY <3>2
    <3> QED BY <3>3, <3>4
  <2>2. IsFiniteSet(Above(x)) /\ IsFiniteSet(Above(y))
    BY FS_Subset
  <2>3. Cardinality(Above(x)) <= Cardinality(Above(y))
    BY <1>1
  <2> HIDE DEF Above
  <2>4. Cardinality(Above(y)) <= Cardinality(Above(x)) /\ Cardinality(Above(x)) # Cardinality(Above(y))
    BY <2>1, <2>2, FS_Subset
  <2> QED BY <2>2, <2>3, <2>4, FS_CardinalityType
<1>3. \A y \in S : x >= y
  BY <1>2
<1>4. Max(S) \in S /\ \A y \in S : Max(S) >= y
  BY <1>3 DEF Max
<1> QED BY <1>4

LEMMA HasMin ==
  ASSUME NEW S \in SUBSET Int, IsFiniteSet(S), S # {}
  PROVE  Min(S) \in S /\ \A y \in S : Min(S) <= y
<1> DEFINE Under(x) == {y \in S : y < x}
<1>1. PICK x \in S : \A y \in S : Cardinality(Under(x)) <= Cardinality(Under(y))
  <2> DEFINE A == {Under(x) : x \in S}
  <2>1. \A x \in S : IsFiniteSet(Under(x))
    <3> TAKE x \in S
    <3>1. Under(x) \in SUBSET S
      OBVIOUS
    <3> QED BY <3>1, FS_Subset
  <2>2. A # {} /\ \A s \in A : IsFiniteSet(s)
    BY <2>1
  <2> HIDE DEF A
  <2>3. PICK s \in A : \A u \in A : Cardinality(s) <= Cardinality(u)
    BY <2>2, Least
  <2>4. PICK x \in S : s = Under(x)
    BY DEF A
  <2>5. \A y \in S : Under(y) \in A
    BY DEF A
  <2> QED BY <2>3, <2>4, <2>5
<1>2. ASSUME NEW y \in S, y < x PROVE FALSE
  <2>1. Under(y) \in SUBSET Under(x) /\ Under(y) # Under(x)
    <3>1. x \in Int /\ y \in Int /\ \A z \in S : z \in Int
      OBVIOUS
    <3>2. \A z \in S : z < y => z < x
      BY <1>2, <3>1
    <3>3. y \in Under(x) /\ y \notin Under(y)
      BY <1>2, <3>1
    <3>4. Under(y) \in SUBSET Under(x)
      BY <3>2
    <3> QED BY <3>3, <3>4
  <2>2. IsFiniteSet(Under(x)) /\ IsFiniteSet(Under(y))
    BY FS_Subset
  <2>3. Cardinality(Under(x)) <= Cardinality(Under(y))
    BY <1>1
  <2> HIDE DEF Under
  <2>4. Cardinality(Under(y)) <= Cardinality(Under(x)) /\ Cardinality(Under(x)) # Cardinality(Under(y))
    BY <2>1, <2>2, FS_Subset
  <2> QED BY <2>2, <2>3, <2>4, FS_CardinalityType
<1>3. \A y \in S : x <= y
  BY <1>2
<1>4. Min(S) \in S /\ \A y \in S : Min(S) <= y
  BY <1>3 DEF Min
<1> QED BY <1>4

Below(R, d) == {r \in R : r.duration < d}
UpTo(R, d) == {r \in R : r.duration <= d}

LEMMA DurationsFinite ==
  ASSUME NEW R, IsFiniteSet(R), \A r \in R : r.duration \in Int
  PROVE  {r.duration : r \in R} \in SUBSET Int /\ IsFiniteSet({r.duration : r \in R})
<1> DEFINE h == [r \in R |-> r.duration]
<1>1. h \in Surjection(R, {r.duration : r \in R})
  BY DEF Surjection
<1> QED BY <1>1, FS_Surjection

(* Every rank has a duration: the least one that enough calls reach.       *)
LEMMA RankExists ==
  ASSUME NEW R, IsFiniteSet(R), \A r \in R : r.duration \in Int, NEW k \in 1..Cardinality(R)
  PROVE  \E d \in {r.duration : r \in R} : Cardinality(Below(R, d)) < k /\ k <= Cardinality(UpTo(R, d))
<1> DEFINE D == {r.duration : r \in R}
           E == {d \in D : k <= Cardinality(UpTo(R, d))}
<1>1. IsFiniteSet(D) /\ D \in SUBSET Int /\ Cardinality(R) \in Nat
  BY DurationsFinite, FS_CardinalityType
<1>2. R # {}
  BY <1>1, FS_EmptySet
<1>3. E # {}
  <2>1. Max(D) \in D /\ \A d \in D : d <= Max(D)
    BY <1>1, <1>2, HasMax
  <2>2. UpTo(R, Max(D)) = R
    BY <2>1 DEF UpTo
  <2> QED BY <1>1, <2>1, <2>2
<1>4. IsFiniteSet(E) /\ E \in SUBSET Int
  BY <1>1, FS_Subset
<1>5. Min(E) \in E /\ \A d \in E : Min(E) <= d
  BY <1>3, <1>4, HasMin
<1> DEFINE e == Min(E)
<1>6. e \in D /\ e \in Int /\ k <= Cardinality(UpTo(R, e))
  BY <1>4, <1>5
<1>7. ASSUME k <= Cardinality(Below(R, e)) PROVE FALSE
  <2> DEFINE L == Below(R, e)
             F == {r.duration : r \in L}
  <2>1. IsFiniteSet(L) /\ \A r \in L : r.duration \in Int
    BY FS_Subset DEF Below
  <2>2. L # {}
    BY <1>7, FS_EmptySet
  <2>3. IsFiniteSet(F) /\ F \in SUBSET Int /\ F # {}
    BY <2>1, <2>2, DurationsFinite
  <2>4. Max(F) \in F /\ \A d \in F : d <= Max(F)
    BY <2>3, HasMax
  <2>5. Max(F) \in D /\ Max(F) < e
    BY <2>4 DEF Below
  <2> DEFINE m == Max(F)
  <2>6. m \in Int /\ m \in D /\ m < e /\ \A r \in L : r.duration <= m
    BY <2>3, <2>4, <2>5
  <2> HIDE DEF m, F, e, E
  <2>7. \A r \in R : r.duration <= m <=> r.duration < e
    BY <1>6, <2>6 DEF Below
  <2>8. UpTo(R, m) = L
    BY <2>7 DEF UpTo, Below
  <2>9. m \in E
    BY <1>7, <2>6, <2>8 DEF E
  <2>10. e <= m
    BY <1>5, <2>9 DEF e
  <2> QED BY <1>6, <2>6, <2>10
<1>8. Cardinality(Below(R, e)) \in Nat
  BY FS_Subset, FS_CardinalityType DEF Below
<1> QED BY <1>6, <1>7, <1>8

(* So the list of latencies is sorted, and its k-th element has its rank.  *)
LEMMA LatenciesSorted ==
  ASSUME NEW R, IsFiniteSet(R), \A r \in R : r.duration \in Int
  PROVE  /\ Cardinality(R) \in Nat
         /\ Latencies(R) \in [1..Cardinality(R) -> Int]
         /\ Len(Latencies(R)) = Cardinality(R)
         /\ \A k \in 1..Cardinality(R) :
              /\ Latencies(R)[k] \in {r.duration : r \in R}
              /\ Cardinality(Below(R, Latencies(R)[k])) < k
              /\ k <= Cardinality(UpTo(R, Latencies(R)[k]))
         /\ \A j, k \in 1..Cardinality(R) : j <= k => Latencies(R)[j] <= Latencies(R)[k]
<1> DEFINE n == Cardinality(R)
           L == Latencies(R)
<1>1. n \in Nat
  BY FS_CardinalityType
<1>2. ASSUME NEW k \in 1..n
      PROVE  /\ L[k] \in {r.duration : r \in R}
             /\ Cardinality(Below(R, L[k])) < k /\ k <= Cardinality(UpTo(R, L[k]))
  <2>1. L[k] = CHOOSE d \in {r.duration : r \in R} :
                 Cardinality(Below(R, d)) < k /\ k <= Cardinality(UpTo(R, d))
    BY DEF Latencies, Below, UpTo
  <2> QED BY <2>1, RankExists
<1>3. L \in [1..n -> Int]
  BY <1>2 DEF Latencies
<1>4. Len(L) = n
  BY <1>1, <1>3
<1>5. ASSUME NEW j \in 1..n, NEW k \in 1..n, j <= k, L[k] < L[j] PROVE FALSE
  <2>1. UpTo(R, L[k]) \in SUBSET Below(R, L[j])
    BY <1>3, <1>5 DEF UpTo, Below
  <2>2. IsFiniteSet(Below(R, L[j]))
    BY FS_Subset DEF Below
  <2>3. /\ Cardinality(UpTo(R, L[k])) \in Nat /\ Cardinality(Below(R, L[j])) \in Nat
        /\ Cardinality(UpTo(R, L[k])) <= Cardinality(Below(R, L[j]))
    BY <2>1, <2>2, Fewer
  <2>4. Cardinality(Below(R, L[j])) < j /\ k <= Cardinality(UpTo(R, L[k]))
    BY <1>2
  <2> QED BY <1>1, <1>5, <2>3, <2>4
<1>6. \A j, k \in 1..n : j <= k => L[j] <= L[k]
  <2> SUFFICES ASSUME NEW j \in 1..n, NEW k \in 1..n, j <= k PROVE L[j] <= L[k]
    OBVIOUS
  <2>1. L[j] \in Int /\ L[k] \in Int
    BY <1>3
  <2>2. ~(L[k] < L[j])
    BY <1>5
  <2> QED BY <2>1, <2>2
<1> QED BY <1>1, <1>2, <1>3, <1>4, <1>6


(* Percentile interpolates: it stays between two neighbours of the list,   *)
(* and meets the lower one when the rank is whole.                         *)
LEMMA Scaled ==
  ASSUME NEW d \in Nat, NEW c \in Nat, NEW e \in Nat, c <= e
  PROVE  c * d \in Nat /\ c * d <= e * d /\ d * c <= d * e
<1> DEFINE x == e - c
<1>1. x \in Nat /\ e = c + x
  OBVIOUS
<1> HIDE DEF x
<1>2. x * d \in Nat /\ c * d \in Nat
  BY <1>1
<1>3. e * d = c * d + x * d
  BY <1>1
<1>4. d * c = c * d /\ d * e = e * d
  OBVIOUS
<1> QED BY <1>2, <1>3, <1>4

Ascending(L, n) ==
  /\ L \in [1..n -> Int] /\ Len(L) = n
  /\ \A j, k \in 1..n : j <= k => L[j] <= L[k]

Position(n, p) == ((n - 1) * p) \div 100
Part(n, p) == ((n - 1) * p) % 100

LEMMA PositionFits ==
  ASSUME NEW n \in Nat, n >= 1, NEW p \in 0..99
  PROVE  /\ Position(n, p) \in 0..n - 1 /\ Part(n, p) \in 0..99
         /\ (n - 1) * p = 100 * Position(n, p) + Part(n, p)
<1> DEFINE k == (n - 1) * p
<1>1. k \in Nat /\ k <= (n - 1) * 100
  BY Scaled
<1> HIDE DEF k
<1>2. k \div 100 \in Nat /\ k % 100 \in 0..99 /\ k = 100 * (k \div 100) + (k % 100)
  BY <1>1
<1>3. k \div 100 <= n - 1
  BY <1>1, <1>2
<1> QED BY <1>2, <1>3 DEF k, Position, Part

Interpolated(L, n, p) ==
  LET f == Position(n, p)
      c == Part(n, p)
      v == Percentile(L, p)
  IN /\ v \in Int /\ 100 * L[f + 1] <= v
     /\ f + 1 < n => v = 100 * L[f + 1] + c * (L[f + 2] - L[f + 1]) /\ v <= 100 * L[f + 2]
     /\ f + 1 = n \/ c = 0 => v = 100 * L[f + 1]

LEMMA PercentileAt ==
  ASSUME NEW n \in Nat, n >= 1, NEW L, Ascending(L, n), NEW p \in 0..99
  PROVE  Interpolated(L, n, p)
<1> DEFINE f == Position(n, p)
           c == Part(n, p)
           v == Percentile(L, p)
<1>a. L \in [1..n -> Int] /\ Len(L) = n /\ \A j, k \in 1..n : j <= k => L[j] <= L[k]
  BY DEF Ascending
<1>1. f \in 0..n - 1 /\ c \in 0..99
  BY PositionFits
<1>2. L # <<>>
  BY <1>a
<1>3. v = IF f + 1 < n THEN 100 * L[f + 1] + c * (L[f + 2] - L[f + 1]) ELSE 100 * L[f + 1]
  BY <1>a, <1>2 DEF Percentile, Position, Part
<1> HIDE DEF f, c, v
<1>4. L[f + 1] \in Int
  BY <1>a, <1>1
<1>5. CASE f + 1 < n
  <2> DEFINE a == L[f + 1]
             d == L[f + 2] - L[f + 1]
  <2>1. a \in Int /\ L[f + 2] \in Int /\ a <= L[f + 2]
    BY <1>a, <1>1, <1>5
  <2>2. d \in Nat /\ L[f + 2] = a + d
    BY <2>1
  <2>3. v = 100 * a + c * d
    BY <1>3, <1>5
  <2> HIDE DEF a, d
  <2>4. c * d \in Nat /\ c * d <= 100 * d /\ (c = 0 => c * d = 0)
    BY <1>1, <2>2, Scaled
  <2>5. v \in Int /\ 100 * a <= v /\ v <= 100 * L[f + 2] /\ (c = 0 => v = 100 * a)
    BY <2>1, <2>2, <2>3, <2>4
  <2>6. f + 1 # n
    BY <1>1, <1>5
  <2> QED BY <2>3, <2>5, <2>6 DEF Interpolated, a, d, f, c, v
<1>6. CASE ~(f + 1 < n)
  <2>1. v = 100 * L[f + 1]
    BY <1>3, <1>6
  <2>2. v \in Int /\ 100 * L[f + 1] <= v
    BY <1>4, <2>1
  <2> QED BY <1>6, <2>1, <2>2 DEF Interpolated, f, c, v
<1> QED BY <1>5, <1>6

LEMMA PercentilesGrow ==
  ASSUME NEW n \in Nat, n >= 1, NEW L, Ascending(L, n),
         NEW p \in 0..99, NEW q \in 0..99, p <= q
  PROVE  Percentile(L, p) <= Percentile(L, q)
<1> DEFINE f == Position(n, p)
           c == Part(n, p)
           g == Position(n, q)
           e == Part(n, q)
           v == Percentile(L, p)
           w == Percentile(L, q)
<1>1. f \in 0..n - 1 /\ c \in 0..99 /\ g \in 0..n - 1 /\ e \in 0..99
  BY PositionFits
<1>2. 100 * f + c <= 100 * g + e
  <2>1. (n - 1) * p = 100 * f + c
    BY PositionFits
  <2>2. (n - 1) * q = 100 * g + e
    BY PositionFits
  <2>3. n - 1 \in Nat /\ p \in Nat /\ q \in Nat
    OBVIOUS
  <2> HIDE DEF f, c, g, e
  <2>4. (n - 1) * p <= (n - 1) * q
    BY <2>3, Scaled
  <2> QED BY <2>1, <2>2, <2>4
<1>3. f <= g /\ (f = g => c <= e)
  <2> HIDE DEF f, c, g, e
  <2> QED BY <1>1, <1>2
<1>4. /\ v \in Int /\ w \in Int /\ 100 * L[g + 1] <= w
      /\ f + 1 < n => v = 100 * L[f + 1] + c * (L[f + 2] - L[f + 1]) /\ v <= 100 * L[f + 2]
      /\ f + 1 = n => v = 100 * L[f + 1]
      /\ g + 1 < n => w = 100 * L[g + 1] + e * (L[g + 2] - L[g + 1])
      /\ g + 1 = n => w = 100 * L[g + 1]
  <2>1. Interpolated(L, n, p) /\ Interpolated(L, n, q)
    BY PercentileAt
  <2> QED BY <2>1 DEF Interpolated
<1> HIDE DEF f, c, g, e, v, w
<1>a. L \in [1..n -> Int] /\ Len(L) = n /\ \A j, k \in 1..n : j <= k => L[j] <= L[k]
  BY DEF Ascending
<1>5. CASE f < g
  <2>1. L[f + 2] \in Int /\ L[g + 1] \in Int /\ L[f + 2] <= L[g + 1] /\ f + 1 < n
    BY <1>a, <1>1, <1>5
  <2> QED BY <1>4, <2>1 DEF v, w
<1>6. CASE f = g /\ f + 1 < n
  <2> DEFINE a == 100 * L[f + 1]
             d == L[f + 2] - L[f + 1]
  <2>1. L[f + 1] \in Int /\ L[f + 2] \in Int /\ L[f + 1] <= L[f + 2]
    BY <1>a, <1>1, <1>6
  <2>2. a \in Int /\ d \in Nat
    BY <2>1
  <2>3. v = a + c * d /\ w = a + e * d
    BY <1>4, <1>6
  <2> HIDE DEF a, d
  <2>4. c * d \in Nat /\ c * d <= e * d /\ e * d \in Nat
    BY <1>1, <1>3, <1>6, <2>2, Scaled
  <2> QED BY <2>2, <2>3, <2>4 DEF v, w
<1>7. CASE f = g /\ f + 1 = n
  BY <1>4, <1>7 DEF v, w
<1> QED BY <1>1, <1>3, <1>5, <1>6, <1>7

LEMMA PercentileWithin ==
  ASSUME NEW n \in Nat, n >= 1, NEW L, Ascending(L, n), NEW p \in 0..99
  PROVE  100 * L[1] <= Percentile(L, p) /\ Percentile(L, p) <= 100 * L[n]
<1> DEFINE f == Position(n, p)
           v == Percentile(L, p)
<1>1. f \in 0..n - 1
  BY PositionFits
<1>2. /\ v \in Int /\ 100 * L[f + 1] <= v
      /\ f + 1 < n => v <= 100 * L[f + 2]
      /\ f + 1 = n => v = 100 * L[f + 1]
  <2>1. Interpolated(L, n, p)
    BY PercentileAt
  <2> QED BY <2>1 DEF Interpolated
<1> HIDE DEF f, v
<1>a. L \in [1..n -> Int] /\ Len(L) = n /\ \A j, k \in 1..n : j <= k => L[j] <= L[k]
  BY DEF Ascending
<1>3. /\ L[1] \in Int /\ L[f + 1] \in Int /\ L[n] \in Int
      /\ L[1] <= L[f + 1] /\ L[f + 1] <= L[n]
  BY <1>a, <1>1
<1>4. f + 1 < n => L[f + 2] \in Int /\ L[f + 2] <= L[n]
  BY <1>a, <1>1
<1> QED BY <1>1, <1>2, <1>3, <1>4 DEF v

(* At least half of the list is up to the median, half from it on.         *)
LEMMA MedianPosition ==
  ASSUME NEW n \in Nat, n >= 1
  PROVE  LET f == Position(n, 50)
             c == Part(n, 50)
         IN 2 * (f + 1) >= n /\ 2 * f <= n - 1 /\ (c # 0 => 2 * f <= n - 2 /\ f + 1 < n)
<1> DEFINE f == Position(n, 50)
           c == Part(n, 50)
<1>1. f \in 0..n - 1 /\ c \in 0..99 /\ (n - 1) * 50 = 100 * f + c
  BY PositionFits
<1> HIDE DEF f, c
<1> QED BY <1>1 DEF f, c

LEMMA MedianHalves ==
  ASSUME NEW R, IsFiniteSet(R), R # {}, \A r \in R : r.duration \in Int
  PROVE  LET v == Percentile(Latencies(R), 50)
         IN /\ 2 * Cardinality({r \in R : 100 * r.duration <= v}) >= Cardinality(R)
            /\ 2 * Cardinality({r \in R : 100 * r.duration >= v}) >= Cardinality(R)
<1> DEFINE n == Cardinality(R)
           L == Latencies(R)
           f == Position(n, 50)
           c == Part(n, 50)
           v == Percentile(L, 50)
           low == {r \in R : 100 * r.duration <= v}
           high == {r \in R : 100 * r.duration >= v}
<1>1. n \in Nat /\ n >= 1
  BY FS_CardinalityType, FS_EmptySet
<1>2. /\ Ascending(L, n) /\ \A k \in 1..n : L[k] \in Int
      /\ \A k \in 1..n : Cardinality(Below(R, L[k])) < k /\ k <= Cardinality(UpTo(R, L[k]))
  BY LatenciesSorted DEF Ascending
<1> HIDE DEF n, L
<1>h. 50 \in 0..99
  OBVIOUS
<1>3. f \in 0..n - 1 /\ c \in 0..99
  BY <1>1, <1>h, PositionFits
<1>4. /\ v \in Int /\ 100 * L[f + 1] <= v
      /\ f + 1 < n => v <= 100 * L[f + 2]
      /\ c = 0 => v = 100 * L[f + 1]
  <2>1. Interpolated(L, n, 50)
    BY <1>1, <1>2, <1>h, PercentileAt
  <2> QED BY <2>1 DEF Interpolated
<1>5. 2 * (f + 1) >= n /\ 2 * f <= n - 1 /\ (c # 0 => 2 * f <= n - 2 /\ f + 1 < n)
  BY <1>1, MedianPosition
<1>6. IsFiniteSet(low) /\ IsFiniteSet(high) /\ Cardinality(low) \in Nat /\ Cardinality(high) \in Nat
  <2>1. low \in SUBSET R /\ high \in SUBSET R
    OBVIOUS
  <2> QED BY <2>1, FS_Subset, FS_CardinalityType
<1> HIDE DEF f, c, v
<1>7. 2 * Cardinality(low) >= n
  <2> DEFINE d == L[f + 1]
  <2>1. d \in Int /\ f + 1 <= Cardinality(UpTo(R, d))
    BY <1>1, <1>2, <1>3
  <2> HIDE DEF d
  <2>2. UpTo(R, d) \in SUBSET low
    <3>1. 100 * d <= v /\ v \in Int
      BY <1>4 DEF d
    <3>2. \A r \in R : r.duration <= d => 100 * r.duration <= v
      BY <2>1, <3>1
    <3> QED BY <3>2 DEF UpTo
  <2>3. Cardinality(UpTo(R, d)) \in Nat /\ Cardinality(UpTo(R, d)) <= Cardinality(low)
    BY <1>6, <2>2, FS_Subset, FS_CardinalityType
  <2> HIDE DEF low
  <2> QED BY <1>1, <1>3, <1>5, <1>6, <2>1, <2>3
(* A rank k above which the value v lies leaves the calls that are not     *)
(* below the k-th.                                                         *)
<1>8. ASSUME NEW k \in 1..n, v <= 100 * L[k], 2 * (k - 1) <= n PROVE 2 * Cardinality(high) >= n
  <2> DEFINE d == L[k]
             B == Below(R, d)
  <2>1. d \in Int /\ Cardinality(B) < k /\ v <= 100 * d
    BY <1>2, <1>8
  <2> HIDE DEF d
  <2>2. R \ B \in SUBSET high
    <3>1. \A r \in R : ~(r.duration < d) => 100 * r.duration >= v
      BY <1>4, <2>1
    <3> QED BY <3>1 DEF Below
  <2>3. B \in SUBSET R
    BY DEF Below
  <2>4. IsFiniteSet(B) /\ Cardinality(B) \in Nat /\ R \cap B = B
    BY <2>3, FS_Subset, FS_CardinalityType
  <2>5. Cardinality(R \ B) = n - Cardinality(B)
    BY <2>4, FS_Difference DEF n
  <2>6. Cardinality(R \ B) <= Cardinality(high)
    BY <1>6, <2>2, FS_Subset
  <2> HIDE DEF B, high
  <2> QED BY <1>1, <1>6, <1>8, <2>1, <2>4, <2>5, <2>6
<1>9. CASE c = 0
  <2>1. L[f + 1] \in Int /\ v = 100 * L[f + 1] /\ f + 1 \in 1..n /\ 2 * ((f + 1) - 1) <= n
    BY <1>1, <1>2, <1>3, <1>4, <1>5, <1>9
  <2>2. v <= 100 * L[f + 1]
    BY <2>1
  <2>3. 2 * Cardinality(high) >= n
    BY <1>8, <2>1, <2>2
  <2> QED BY <1>7, <2>3 DEF v, L, n
<1>10. CASE c # 0
  <2>1. v <= 100 * L[f + 2] /\ f + 2 \in 1..n /\ 2 * ((f + 2) - 1) <= n
    BY <1>1, <1>3, <1>4, <1>5, <1>10
  <2>2. 2 * Cardinality(high) >= n
    BY <1>8, <2>1
  <2> QED BY <1>7, <2>2 DEF v, L, n
<1> QED BY <1>9, <1>10

LEMMA LatenciesFit ==
  ASSUME NEW f, IsFiniteSet(rows), \A r \in rows : Typed(r)
  PROVE  LatenciesOrdered(Of(Matched(rows, f), "LLM"), f)
<1> DEFINE C == Of(Matched(rows, f), "LLM")
           times == {r.duration : r \in C}
           n == Cardinality(C)
           L == Latencies(C)
<1> SUFFICES ASSUME C # {}
             PROVE  /\ 100 * Min(times) <= LatencyShown(rows, f, 50)
                    /\ LatencyShown(rows, f, 50) <= LatencyShown(rows, f, 95)
                    /\ LatencyShown(rows, f, 95) <= LatencyShown(rows, f, 99)
                    /\ LatencyShown(rows, f, 99) <= 100 * Max(times)
                    /\ 2 * Cardinality({r \in C : 100 * r.duration <= LatencyShown(rows, f, 50)}) >= Cardinality(C)
                    /\ 2 * Cardinality({r \in C : 100 * r.duration >= LatencyShown(rows, f, 50)}) >= Cardinality(C)
  BY DEF LatenciesOrdered
<1>1. C \in SUBSET rows
  BY DEF Of, Matched, InWindow
<1>2. IsFiniteSet(C) /\ \A r \in C : r.duration \in Int
  BY <1>1, FS_Subset DEF Typed
<1> HIDE DEF C
<1>3. n \in Nat /\ n >= 1
  BY <1>2, FS_CardinalityType, FS_EmptySet
<1>4. Ascending(L, n) /\ \A k \in 1..n : L[k] \in times
  BY <1>2, LatenciesSorted DEF Ascending
<1>5. 50 \in 0..99 /\ 95 \in 0..99 /\ 99 \in 0..99 /\ 50 <= 95 /\ 95 <= 99
  OBVIOUS
<1>6. \A p \in 0..99 : LatencyShown(rows, f, p) = Percentile(L, p) /\ Percentile(L, p) \in Int
  <2> TAKE p \in 0..99
  <2>1. Interpolated(L, n, p)
    BY <1>3, <1>4, PercentileAt
  <2>2. Percentile(L, p) \in Int
    BY <2>1 DEF Interpolated
  <2> QED BY <2>2, QueriesAssumption DEF LatencyShown, C
<1>7. times \in SUBSET Int /\ IsFiniteSet(times) /\ times # {}
  BY <1>2, DurationsFinite
<1>8. Min(times) \in Int /\ Max(times) \in Int /\ \A d \in times : Min(times) <= d /\ d <= Max(times)
  BY <1>7, HasMin, HasMax
<1> DEFINE p50 == Percentile(L, 50)
           p95 == Percentile(L, 95)
           p99 == Percentile(L, 99)
<1> HIDE DEF L, n
<1>9. p50 <= p95 /\ p95 <= p99
  BY <1>3, <1>4, <1>5, PercentilesGrow
<1>10. 100 * L[1] <= p50 /\ p99 <= 100 * L[n]
  BY <1>3, <1>4, <1>5, PercentileWithin
<1>11. p50 \in Int /\ p99 \in Int
  BY <1>5, <1>6
<1>12. L[1] \in times /\ L[n] \in times
  BY <1>3, <1>4
<1> HIDE DEF times, p50, p95, p99
<1>13. 100 * Min(times) <= p50 /\ p99 <= 100 * Max(times)
  <2>1. Min(times) <= L[1] /\ L[n] <= Max(times) /\ L[1] \in Int /\ L[n] \in Int
    BY <1>7, <1>8, <1>12
  <2> QED BY <1>8, <1>10, <1>11, <2>1
<1>14. /\ 2 * Cardinality({r \in C : 100 * r.duration <= p50}) >= Cardinality(C)
       /\ 2 * Cardinality({r \in C : 100 * r.duration >= p50}) >= Cardinality(C)
  BY <1>2, MedianHalves DEF p50, L
<1>15. /\ LatencyShown(rows, f, 50) = p50
       /\ LatencyShown(rows, f, 95) = p95
       /\ LatencyShown(rows, f, 99) = p99
  BY <1>5, <1>6 DEF p50, p95, p99
<1> QED BY <1>9, <1>13, <1>14, <1>15

(* Whatever rows are stored, the points of a chart of get_time_series add  *)
(* up to the dashboard of get_metrics for its window and model, and its    *)
(* percentiles are ordered and those of the calls that it counted, under   *)
(* every filter.                                                           *)
THEOREM DashboardAddsUp == Spec => []DashboardIsConsistent
<1>1. Table => DashboardIsConsistent
  <2> SUFFICES ASSUME Table PROVE DashboardIsConsistent
    OBVIOUS
  <2>1. IsFiniteSet(rows) /\ \A r \in rows : Typed(r)
    BY DEF Table
  <2>2. \A w \in Windows, m \in Models \cup {None} : SeriesAddsUp(w, m)
    BY <2>1, SeriesFits
  <2>3. \A f \in Filters : LatenciesOrdered(Of(Matched(rows, f), "LLM"), f)
    BY <2>1, LatenciesFit
  <2> QED BY <2>2, <2>3 DEF DashboardIsConsistent
<1> QED BY TableOK, <1>1, PTL
---------------------------------------------------------------------------
(* The detail.                                                             *)
LEMMA HasFirst ==
  ASSUME NEW S, IsFiniteSet(S), S # {}, \A r \in S : r.start \in Int
  PROVE  First(S) \in S
<1> DEFINE starts == {r.start : r \in S}
           h == [r \in S |-> r.start]
<1>1. h \in Surjection(S, starts)
  BY DEF Surjection
<1>2. IsFiniteSet(starts) /\ starts \in SUBSET Int /\ starts # {}
  BY <1>1, FS_Surjection
<1>3. Min(starts) \in starts /\ \A t \in starts : Min(starts) <= t
  BY <1>2, HasMin
<1>4. PICK r \in S : r.start = Min(starts)
  BY <1>3
<1>5. \A q \in S : r.start <= q.start
  BY <1>3, <1>4
<1> QED BY <1>5 DEF First

LEMMA OnlyValue ==
  ASSUME NEW v \in Int
  PROVE  Max({v}) = v
<1>1. IsFiniteSet({v})
  BY FS_Singleton
<1>2. Max({v}) \in {v}
  BY <1>1, HasMax
<1> QED BY <1>2

(* A session that is the only one of a trace is the one both show,         *)
(* whichever span speaks.                                                  *)
LEMMA SessionsAgree ==
  ASSUME NEW S, IsFiniteSet(S), S # {}, \A r \in S : Typed(r), Cardinality(Values(S)) <= 1
  PROVE  Spoken(S) = TraceSession(S)
<1> DEFINE A == Of(S, "AGENT")
           roots == {r \in S : r.root}
           chosen == IF A # {} THEN A ELSE IF roots # {} THEN roots ELSE S
           others == {r \in S : r.session # None}
<1>1. /\ A \in SUBSET S /\ roots \in SUBSET S /\ others \in SUBSET S
      /\ chosen # {} /\ chosen \in SUBSET S
  BY DEF Of
<1>2. \A T \in SUBSET S : T # {} => First(T) \in T
  <2> TAKE T \in SUBSET S
  <2>1. IsFiniteSet(T) /\ \A r \in T : r.start \in Int
    BY FS_Subset DEF Typed
  <2> QED BY <2>1, HasFirst
<1>3. Spoken(S) = IF First(chosen).session # None THEN First(chosen).session
                  ELSE IF others # {} THEN First(others).session ELSE None
  BY DEF Spoken
<1>4. Values(A) \in SUBSET Values(S)
  BY DEF Values, Of
<1>5. \A r \in S : r.session # None => r.session \in Values(S)
  BY DEF Values
<1>6. First(chosen) \in S /\ (others # {} => First(others) \in S /\ First(others).session # None)
  BY <1>1, <1>2
<1>7. CASE Values(S) = {}
  <2>1. others = {} /\ First(chosen).session = None
    BY <1>5, <1>6, <1>7
  <2>2. Values(A) = {}
    BY <1>4, <1>7
  <2>3. TraceSession(S) = None
    BY <1>7, <2>2 DEF TraceSession
  <2> QED BY <1>3, <2>1, <2>3
<1>8. CASE Values(S) # {}
  <2>1. PICK r \in S : r.session # None
    BY <1>8 DEF Values
  <2> DEFINE v == r.session
  <2>2. v \in Values(S) /\ v \in Int
    BY <1>5, <2>1 DEF Typed
  <2>3. IsFiniteSet(Values(S))
    <3> DEFINE h == [q \in S |-> q.session]
               W == {q.session : q \in S}
    <3>1. h \in Surjection(S, W)
      BY DEF Surjection
    <3>2. IsFiniteSet(W)
      BY <3>1, FS_Surjection
    <3> QED BY <3>2, FS_Subset DEF Values
  <2>4. Values(S) = {v}
    <3>1. {v} \in SUBSET Values(S) /\ IsFiniteSet({v}) /\ Cardinality({v}) = 1
      BY <2>2, FS_Singleton
    <3>2. Cardinality({v}) <= Cardinality(Values(S)) /\ Cardinality(Values(S)) \in Nat
      BY <2>3, <3>1, FS_Subset, FS_CardinalityType
    <3>3. Cardinality({v}) = Cardinality(Values(S))
      BY <3>1, <3>2
    <3> QED BY <2>3, <3>1, <3>3, FS_Subset
  <2> HIDE DEF v
  <2>5. others # {} /\ First(others).session = v
    BY <1>5, <1>6, <2>1, <2>4
  <2>6. First(chosen).session # None => First(chosen).session = v
    BY <1>5, <1>6, <2>4
  <2>7. Values(A) = {} \/ Values(A) = {v}
    BY <1>4, <2>4
  <2>8. TraceSession(S) = v
    BY <2>2, <2>4, <2>7, OnlyValue DEF TraceSession
  <2> HIDE DEF chosen, others
  <2> QED BY <1>3, <2>5, <2>6, <2>8
<1> QED BY <1>7, <1>8

LEMMA StatusAndDuration ==
  ASSUME NEW t
  PROVE  LET S == TraceSpans(rows, t)
         IN /\ Detail(rows, t).status = TraceStatus(S)
            /\ Detail(rows, t).duration = TraceDuration(S)
<1>1. \A S : (\E r \in S : r.status = "ERROR") <=> Failed(S) # {}
  BY DEF Failed
<1> QED BY <1>1 DEF Detail, TraceStatus, TraceDuration

LEMMA DetailFits ==
  ASSUME IsFiniteSet(rows), \A r \in rows : Typed(r), NEW t \in TracesOf(rows)
  PROVE  LET s == Summary(rows, t)
             d == Detail(rows, t)
         IN /\ [d EXCEPT !.session = None] = [s EXCEPT !.session = None]
            /\ Cardinality(Values(TraceSpans(rows, t))) <= 1 => d.session = s.session
<1> DEFINE S == TraceSpans(rows, t)
           s == Summary(rows, t)
           d == Detail(rows, t)
<1>1. IsFiniteSet(S) /\ S # {} /\ \A r \in S : Typed(r)
  BY FS_Subset DEF TraceSpans, TracesOf
<1>2. /\ s = [status |-> TraceStatus(S), duration |-> TraceDuration(S), session |-> TraceSession(S),
              spans |-> Cardinality(S), llm |-> Cardinality(Of(S, "LLM")),
              tools |-> Cardinality(Of(S, "TOOL")), tokens |-> Total(Of(S, "LLM"))]
      /\ d = [status |-> TraceStatus(S), duration |-> TraceDuration(S), session |-> Spoken(S),
              spans |-> Cardinality(S), llm |-> Cardinality(Of(S, "LLM")),
              tools |-> Cardinality(Of(S, "TOOL")), tokens |-> Total(Of(S, "LLM"))]
  <2>1. (\E r \in S : r.status = "ERROR") <=> Failed(S) # {}
    BY DEF Failed
  <2> HIDE DEF S
  <2> QED BY <2>1 DEF Summary, Detail, TraceStatus, TraceDuration, S
<1> HIDE DEF S, s, d
<1>3. [d EXCEPT !.session = None] = [s EXCEPT !.session = None]
  BY <1>2
<1>4. Cardinality(Values(S)) <= 1 => d.session = s.session
  BY <1>1, <1>2, SessionsAgree
<1> QED BY <1>3, <1>4 DEF S, s, d

LEMMA FoundAsShown ==
  ASSUME NEW w \in Windows, NEW n \in Durations
  PROVE  Listed(rows, [ByStatus(w) EXCEPT !.longer = n]) =
           {t \in Qualified(rows, w) :
              Detail(rows, t).status = "ERROR" /\ Detail(rows, t).duration >= n}
<1> DEFINE f == [ByStatus(w) EXCEPT !.longer = n]
<1>1. /\ f.from = w.from /\ f.to = w.to /\ f.model = w.model /\ f.session = w.session
      /\ f.status = "ERROR" /\ f.longer = n
  BY WindowFields DEF ByStatus
<1> HIDE DEF f
<1>2. Qualified(rows, f) = Qualified(rows, w)
  BY <1>1 DEF Qualified, InWindow
<1>3. f.status # None /\ f.longer # None
  BY <1>1, QueriesAssumption
<1>4. Listed(rows, f) = {t \in Qualified(rows, w) : /\ TraceStatus(TraceSpans(rows, t)) = "ERROR"
                                                    /\ TraceDuration(TraceSpans(rows, t)) >= n}
  BY <1>1, <1>2, <1>3 DEF Listed
<1> QED BY <1>4, StatusAndDuration DEF f

(* A trace looks the same in the list of get_trace_summaries and in its    *)
(* detail in main.py: status, duration and counts always, the session when *)
(* its spans name at most one; and the list finds by status and duration   *)
(* the traces whose detail shows them.                                     *)
THEOREM DetailAgrees == Spec => []DetailAgreesWithList
<1>1. Table => DetailAgreesWithList
  BY DetailFits, FoundAsShown DEF Table, DetailAgreesWithList
<1> QED BY TableOK, <1>1, PTL
=============================================================================
