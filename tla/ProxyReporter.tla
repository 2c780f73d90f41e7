----------------------------- MODULE ProxyReporter -----------------------------
(***************************************************************************)
(* The Proxy's TelemetryReporter.  Handlers, flush task and stop() all run *)
(* on the one event loop of the Proxy, so report() is a single step; what  *)
(* interleaves is the POST the flush task awaits, and the shutdown.        *)
(***************************************************************************)
EXTENDS Naturals, FiniteSets, Sequences, Functions

CONSTANTS Records, Invalid, Unstorable, MaxQueue, BatchSize

ASSUME ProxyAssumption ==
  /\ IsFiniteSet(Records)
  /\ Invalid \subseteq Records
  /\ Unstorable \subseteq Records
  /\ MaxQueue \in Nat \ {0}
  /\ BatchSize \in Nat \ {0}

Core == INSTANCE Ingest

VARIABLES
  fresh,       (* records no handler has reported yet                         *)
  queue, batch,
  task,        (* the flush task, then stop() once it has cancelled it        *)
  answer,      (* what became of the POST in flight                           *)
  stopFlag,    (* _stop                                                       *)
  sent, dropped,
  stored,      (* rows of the Core's spans table                              *)
  accepted     (* records in the order they were queued: history              *)

vars == <<fresh, queue, batch, task, answer, stopFlag, sent, dropped, stored, accepted>>

InQueue == Range(queue)
InBatch == Range(batch)

Init ==
  /\ fresh = Records
  /\ queue = <<>>
  /\ batch = <<>>
  /\ task = "sleep"
  /\ answer = "none"
  /\ stopFlag = FALSE
  /\ sent = {}
  /\ dropped = {}
  /\ stored = {}
  /\ accepted = <<>>

(* Mutant of Enqueue: a full queue is waited for.                          *)
EnqueueWaiting(r) ==
  \/ stopFlag /\ UNCHANGED <<queue, dropped, accepted>>
  \/ /\ ~stopFlag
     /\ Len(queue) < MaxQueue
     /\ queue' = Append(queue, r)
     /\ accepted' = Append(accepted, r)
     /\ UNCHANGED dropped

Enqueue(r) ==
  \/ stopFlag /\ UNCHANGED <<queue, dropped, accepted>>
  \/ /\ ~stopFlag
     /\ Len(queue) >= MaxQueue
     /\ dropped' = dropped \cup {r}
     /\ UNCHANGED <<queue, accepted>>
  \/ /\ ~stopFlag
     /\ Len(queue) < MaxQueue
     /\ queue' = Append(queue, r)
     /\ accepted' = Append(accepted, r)
     /\ UNCHANGED dropped

Report(r) ==
  /\ r \in fresh
  /\ fresh' = fresh \ {r}
  /\ Enqueue(r)
  /\ UNCHANGED <<batch, task, answer, stopFlag, sent, stored>>

(* Where _flush returns to, in the flush loop and in stop().               *)
Returned == CASE task = "final_sending" -> "closed"
              [] task # "final_sending" /\ stopFlag -> "finished"
              [] OTHER                  -> "sleep"

TakeBatch ==
  /\ task \in {"sleep", "final"}
  /\ queue # <<>>
  /\ LET n == IF Len(queue) < BatchSize THEN Len(queue) ELSE BatchSize
     IN  batch' = SubSeq(queue, 1, n) /\ queue' = SubSeq(queue, n + 1, Len(queue))
  /\ task' = IF task = "sleep" THEN "sending" ELSE "final_sending"
  /\ answer' = "none"
  /\ UNCHANGED <<fresh, stopFlag, sent, dropped, stored, accepted>>

Sending == task \in {"sending", "final_sending"}

CoreReceives ==
  /\ Sending
  /\ answer = "none"
  /\ stored' = stored \cup Core!Inserted(InBatch)
  /\ answer' = Core!Answer(InBatch)
  /\ UNCHANGED <<fresh, queue, batch, task, stopFlag, sent, dropped, accepted>>

ConnectionFails ==
  /\ Sending
  /\ answer # "failed"
  /\ answer' = "failed"
  /\ UNCHANGED <<fresh, queue, batch, task, stopFlag, sent, dropped, stored, accepted>>

ReceiveOk ==
  /\ Sending
  /\ answer = "ok"
  /\ sent' = sent \cup InBatch
  /\ batch' = <<>>
  /\ answer' = "none"
  /\ task' = Returned
  /\ UNCHANGED <<fresh, queue, stopFlag, dropped, stored, accepted>>

(* Mutant of Requeued: put back behind what was queued meanwhile.          *)
RequeuedBehind ==
  LET room == MaxQueue - Len(queue)
      first == IF Len(batch) > room THEN Len(batch) - room + 1 ELSE 1
  IN  queue \o SubSeq(batch, first, Len(batch))

(* From the end of the batch, at the head, while there is room.            *)
Requeued ==
  LET room == MaxQueue - Len(queue)
      first == IF Len(batch) > room THEN Len(batch) - room + 1 ELSE 1
  IN  SubSeq(batch, first, Len(batch)) \o queue

ReceiveFailure ==
  /\ Sending
  /\ answer = "failed"
  /\ queue' = Requeued
  /\ batch' = <<>>
  /\ answer' = "none"
  /\ task' = Returned
  /\ UNCHANGED <<fresh, stopFlag, sent, dropped, stored, accepted>>

(* stop() sets the flag and cancels the task, which forgets a batch whose  *)
(* POST it awaits ...                                                      *)
BeginStop ==
  /\ task \in {"sleep", "sending"}
  /\ ~stopFlag
  /\ stopFlag' = TRUE
  /\ task' = "final"
  /\ batch' = <<>>
  /\ answer' = "none"
  /\ UNCHANGED <<fresh, queue, sent, dropped, stored, accepted>>

(* ... and flushes one batch, if there is any.                             *)
FinalFlushIdle ==
  /\ task = "final"
  /\ queue = <<>>
  /\ task' = "closed"
  /\ UNCHANGED <<fresh, queue, batch, answer, stopFlag, sent, dropped, stored, accepted>>

Next ==
  \/ \E r \in Records : Report(r)
  \/ TakeBatch
  \/ CoreReceives
  \/ ConnectionFails
  \/ ReceiveOk
  \/ ReceiveFailure
  \/ BeginStop
  \/ FinalFlushIdle

Spec == Init /\ [][Next]_vars

-----------------------------------------------------------------------------
(* Properties                                                              *)

(* Records are sent in the order they were queued, across failed batches   *)
(* put back while handlers report more, and a batch put back never grows   *)
(* the queue past its limit.                                               *)
AcceptedBefore(r, s) ==
  \E i, j \in DOMAIN accepted : i < j /\ accepted[i] = r /\ accepted[j] = s
QueueKeepsOrder ==
  LET waiting == batch \o queue
  IN  /\ \A i, j \in DOMAIN waiting : i < j => AcceptedBefore(waiting[i], waiting[j])
      /\ Len(queue) <= MaxQueue

(* The Proxy's reporter implements Delivery: outside a shutdown it loses    *)
(* records only to a queue that is full when a batch comes back.            *)
Promise == INSTANCE Delivery WITH
  Unsafe <- {},
  held <- InQueue \cup InBatch,
  lost <- Range(accepted) \ (InQueue \cup InBatch \cup sent),
  stopping <- stopFlag
ImplementsDelivery == Promise!Spec
=============================================================================
