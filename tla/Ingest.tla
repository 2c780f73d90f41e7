--------------------------------- MODULE Ingest ---------------------------------
(***************************************************************************)
(* What POST /api/v1/ingest of the Core does with one batch: the request   *)
(* model refuses the whole batch when one record does not validate (422);  *)
(* else the records are inserted one by one, and the answer is 502 only if *)
(* none of them could be inserted.                                         *)
(***************************************************************************)
CONSTANTS
  Invalid,     (* records IngestRecord refuses, e.g. an integer user_id       *)
  Unstorable   (* records whose insert_span raises                            *)

Validates(batch) == batch \cap Invalid = {}

(* INSERT OR REPLACE: a record sent twice is stored once.                  *)
Inserted(batch) == IF Validates(batch) THEN batch \ Unstorable ELSE {}

(* Partial success is answered 200 as well.                                *)
Answer(batch) == IF Inserted(batch) # {} THEN "ok" ELSE "failed"
=============================================================================
