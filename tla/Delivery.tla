-------------------------------- MODULE Delivery --------------------------------
(***************************************************************************)
(* What a telemetry reporter promises its callers: a record it accepted is *)
(* held, and leaves once, as sent or as dropped.  What is counted as sent  *)
(* was stored by the Core, but for records that it cannot store: they are  *)
(* counted with a batch that was answered in part.  A record may be lost   *)
(* without a trace only when the reporter stops or when requeueing a       *)
(* failed batch meets a full queue; nothing else is lost and nothing comes *)
(* back.                                                                   *)
(***************************************************************************)
EXTENDS FiniteSets, Naturals

CONSTANTS
  Records,
  Unsafe,      (* records that cannot be serialized                           *)
  Unstorable,  (* records that the Core cannot store                          *)
  MaxQueue     (* max_queue_size                                              *)

VARIABLES
  held,        (* accepted, neither sent, dropped nor lost                    *)
  sent, dropped, lost,
  stored,      (* records the Core has stored                                 *)
  stopping     (* between the call of stop and the next start                 *)

vars == <<held, sent, dropped, lost, stored, stopping>>

Known == held \cup sent \cup dropped \cup lost

Init ==
  /\ held = {}
  /\ sent = {}
  /\ dropped = {}
  /\ lost = {}
  /\ stored = {}
  /\ stopping = FALSE

Accept(r) ==
  /\ r \notin Known
  /\ held' = held \cup {r}
  /\ UNCHANGED <<sent, dropped, lost, stored, stopping>>

(* A full queue refuses the record and counts it.                          *)
Refuse(r) ==
  /\ r \notin Known
  /\ Cardinality(held) >= MaxQueue
  /\ dropped' = dropped \cup {r}
  /\ UNCHANGED <<held, sent, lost, stored, stopping>>

(* The Core stores records, whether the reporter hears of it or not.       *)
Store(S) ==
  /\ stored' = stored \cup S
  /\ UNCHANGED <<held, sent, dropped, lost, stopping>>

Send(S) ==
  /\ S \ Unstorable \subseteq stored
  /\ held' = held \ S
  /\ sent' = sent \cup S
  /\ UNCHANGED <<dropped, lost, stored, stopping>>

Drop(S) ==
  /\ stopping \/ S \subseteq Unsafe
  /\ held' = held \ S
  /\ dropped' = dropped \cup S
  /\ UNCHANGED <<sent, lost, stored, stopping>>

(* A failed batch comes back to a full queue.                              *)
Lose(S) ==
  /\ Cardinality(held) > MaxQueue
  /\ held' = held \ S
  /\ lost' = lost \cup S
  /\ UNCHANGED <<sent, dropped, stored, stopping>>

(* Stopping, and giving up records while it lasts.                         *)
Stop(S) ==
  /\ stopping' = TRUE
  /\ held' = held \ S
  /\ lost' = lost \cup S
  /\ UNCHANGED <<sent, dropped, stored>>

Start ==
  /\ stopping' = FALSE
  /\ UNCHANGED <<held, sent, dropped, lost, stored>>

Next ==
  \/ \E r \in Records : Accept(r) \/ Refuse(r)
  \/ \E S \in SUBSET held : Store(S) \/ Send(S) \/ Drop(S) \/ Lose(S) \/ Stop(S)
  \/ Start

Spec == Init /\ [][Next]_vars
=============================================================================
