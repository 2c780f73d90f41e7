-------------------------------- MODULE MCStorage --------------------------------
(***************************************************************************)
(* Small tables for TLC: two traces of two spans, LLM spans of two models, *)
(* TOOL spans without a model and AGENT spans that alone name the session, *)
(* as the SDK reports them, and rows of the older version.                 *)
(***************************************************************************)
EXTENDS StorageQueries, TLC

CONSTANTS T1, T2, M1, M2

Row(t, i, k, st, m, se, at, d, first, n) ==
  [trace |-> t, span |-> i, root |-> i = 1, kind |-> k, status |-> st, model |-> m, session |-> se,
   start |-> at, duration |-> d, ttft |-> first, tokens |-> n, copy |-> 0]

MCRecords ==
  {Row(t, i, "LLM", st, m, None, at, IF at = i THEN 0 ELSE 3, 1, at) :
     t \in {T1, T2}, i \in {1, 2}, st \in {"OK", "ERROR"}, m \in {M1, M2}, at \in {1, 2}}
  \cup {Row(t, 2, "TOOL", st, None, None, at, 1, None, None) :
     t \in {T1, T2}, st \in {"OK", "ERROR"}, at \in {1, 2}}
  \cup {Row(t, 1, "AGENT", "OK", None, se, se, 2, None, None) : t \in {T1, T2}, se \in {1, 2}}

MCLegacy == {Row(t, 0, "LLM", "OK", None, 1, 1, 2, 1, None) : t \in {T1, T2}}

Interchangeable == Permutations({T1, T2}) \cup Permutations({M1, M2})
=============================================================================
