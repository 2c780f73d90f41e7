-------------------------------- MODULE Reporter --------------------------------
(***************************************************************************)
(* The SDK Reporter: business threads call report(), a background thread   *)
(* runs the event loop with the flush task, and one thread calls stop_sync *)
(* (shutdown or atexit) and possibly start_sync again.                     *)
(*                                                                         *)
(* The loop's coroutines switch only at an await; threads switch anywhere. *)
(* Counters are kept as the sets of records they count; fail_count, which  *)
(* nothing reads, is left out.                                             *)
(***************************************************************************)
EXTENDS Naturals, FiniteSets, Sequences, Functions

CONSTANTS
  Callers,     (* business threads                                            *)
  Records,     (* telemetry records they report, each of them once            *)
  NoRecord,    (* what a caller holds between two reports                     *)
  Unsafe,      (* records json.dumps refuses                                  *)
  Invalid, Unstorable,  (* see Ingest                                         *)
  MaxQueue, BatchSize,
  MaxStarts    (* bound on the calls of start_sync                            *)

ASSUME ReporterAssumption ==
  /\ IsFiniteSet(Callers)
  /\ IsFiniteSet(Records)
  /\ NoRecord \notin Records
  /\ Unsafe \subseteq Records
  /\ Invalid \subseteq Records
  /\ Unstorable \subseteq Records
  /\ MaxQueue \in Nat \ {0}
  /\ BatchSize \in Nat \ {0}
  /\ MaxStarts \in Nat \ {0}

Core == INSTANCE Ingest

VARIABLES
  fresh,       (* records report() was not yet called with                    *)
  hand,        (* record a caller is about to append, or NoRecord                 *)
  queue,       (* _queue                                                      *)
  batch,       (* good_records of the running _flush                          *)
  loop,        (* where the loop thread is                                    *)
  answer,      (* what became of the POST in flight                           *)
  stopFlag,    (* _stop                                                       *)
  draining,    (* stop(), not the flush task, runs _flush                     *)
  stopper,     (* the thread in stop_sync                                     *)
  starts,
  sent, dropped,   (* _sent_count, _dropped_count                             *)
  stored,      (* rows of the Core's spans table                              *)
  accepted,    (* records in the order they were appended: history            *)
  mark         (* Len(accepted) when _stop was set: history                   *)

callerVars == <<fresh, hand>>
loopVars == <<batch, loop, answer>>
stopVars == <<stopFlag, draining, stopper, starts, mark>>
countVars == <<sent, dropped>>
vars == <<callerVars, queue, loopVars, stopVars, countVars, stored, accepted>>

Front(s) == SubSeq(s, 1, Len(s) - 1)
Last(s) == s[Len(s)]

(* Mutant of Safe: no preflight, the batch is serialized as a whole.       *)
Unchecked(r) == TRUE

Safe(r) == r \notin Unsafe

(* After the first start_sync.                                             *)
Init ==
  /\ fresh = Records
  /\ hand = [c \in Callers |-> NoRecord]
  /\ queue = <<>>
  /\ batch = <<>>
  /\ loop = "sleep"
  /\ answer = "none"
  /\ stopFlag = FALSE
  /\ draining = FALSE
  /\ stopper = "idle"
  /\ starts = 1
  /\ sent = {}
  /\ dropped = {}
  /\ stored = {}
  /\ accepted = <<>>
  /\ mark = 0

-----------------------------------------------------------------------------
(* report(): the checks, and the append another thread may get between     *)

CheckReport(c, r) ==
  /\ hand[c] = NoRecord
  /\ r \in fresh
  /\ fresh' = fresh \ {r}
  /\ \/ stopFlag /\ UNCHANGED <<hand, dropped>>
     \/ ~stopFlag /\ Len(queue) >= MaxQueue /\ dropped' = dropped \cup {r} /\ UNCHANGED hand
     \/ ~stopFlag /\ Len(queue) < MaxQueue /\ hand' = [hand EXCEPT ![c] = r]
        /\ UNCHANGED dropped
  /\ UNCHANGED <<queue, loopVars, stopVars, sent, stored, accepted>>

AppendReport(c) ==
  /\ hand[c] # NoRecord
  /\ hand' = [hand EXCEPT ![c] = NoRecord]
  /\ queue' = Append(queue, hand[c])
  /\ accepted' = Append(accepted, hand[c])
  /\ UNCHANGED <<fresh, loopVars, stopVars, countVars, stored>>

-----------------------------------------------------------------------------
(* _flush, by the flush task or by the drain loop of stop()                 *)

(* Where _flush returns to: the drain loop, or the flush loop's condition. *)
Returned == IF draining THEN "drain" ELSE IF stopFlag THEN "finished" ELSE "sleep"

Taken == SubSeq(queue, 1, IF Len(queue) <= BatchSize THEN Len(queue) ELSE BatchSize)

(* good_records, once the first n records of a batch were looked at.        *)
GoodRecords(s) ==
  LET good[n \in 0..Len(s)] ==
        IF n = 0 THEN <<>>
        ELSE IF Safe(s[n]) THEN Append(good[n - 1], s[n]) ELSE good[n - 1]
  IN  good[Len(s)]

TakeBatch ==
  /\ loop \in {"sleep", "drain"}
  /\ queue # <<>>
  /\ queue' = SubSeq(queue, Len(Taken) + 1, Len(queue))
  /\ batch' = GoodRecords(Taken)
  /\ dropped' = dropped \cup (Range(Taken) \ Range(batch'))
  /\ loop' = IF batch' = <<>> THEN Returned ELSE "sending"
  /\ answer' = "none"
  /\ UNCHANGED <<callerVars, stopVars, sent, stored, accepted>>

(* The flush task wakes up, finds nothing and then sees _stop.             *)
FinishFlushLoop ==
  /\ loop = "sleep"
  /\ queue = <<>>
  /\ stopFlag
  /\ loop' = "finished"
  /\ UNCHANGED <<callerVars, queue, batch, answer, stopVars, countVars, stored, accepted>>

(* The request is only made of records that can be serialized.             *)
CoreReceives ==
  /\ loop = "sending"
  /\ answer = "none"
  /\ Range(batch) \cap Unsafe = {}
  /\ stored' = stored \cup Core!Inserted(Range(batch))
  /\ answer' = Core!Answer(Range(batch))
  /\ UNCHANGED <<callerVars, queue, batch, loop, stopVars, countVars, accepted>>

(* Refused, reset or timed out, before or after the Core has stored it.    *)
ConnectionFails ==
  /\ loop = "sending"
  /\ answer # "failed"
  /\ answer' = "failed"
  /\ UNCHANGED <<callerVars, queue, batch, loop, stopVars, countVars, stored, accepted>>

ReceiveOk ==
  /\ loop = "sending"
  /\ answer = "ok"
  /\ sent' = sent \cup Range(batch)
  /\ batch' = <<>>
  /\ answer' = "none"
  /\ loop' = Returned
  /\ UNCHANGED <<callerVars, queue, stopVars, dropped, stored, accepted>>

(* Mutant of ReceiveFailure: requeued during shutdown as well.             *)
RequeueAlways ==
  /\ loop = "sending"
  /\ answer = "failed"
  /\ answer' = "none"
  /\ loop' = "requeue"
  /\ UNCHANGED <<callerVars, queue, batch, stopVars, countVars, stored, accepted>>

(* Mutant of ReceiveFailure: a failed batch is forgotten.                  *)
ForgetFailed ==
  /\ loop = "sending"
  /\ answer = "failed"
  /\ answer' = "none"
  /\ batch' = <<>>
  /\ loop' = Returned
  /\ dropped' = IF stopFlag THEN dropped \cup Range(batch) ELSE dropped
  /\ UNCHANGED <<callerVars, queue, stopVars, sent, stored, accepted>>

ReceiveFailure ==
  /\ loop = "sending"
  /\ answer = "failed"
  /\ answer' = "none"
  /\ IF stopFlag
     THEN /\ dropped' = dropped \cup Range(batch)
          /\ batch' = <<>>
          /\ loop' = Returned
     ELSE /\ loop' = "requeue"
          /\ UNCHANGED <<dropped, batch>>
  /\ UNCHANGED <<callerVars, queue, stopVars, sent, stored, accepted>>

(* From the end of the batch: room is checked ...                          *)
RequeueCheck ==
  /\ loop = "requeue"
  /\ \/ batch = <<>> /\ loop' = Returned /\ UNCHANGED batch
     \/ batch # <<>> /\ Len(queue) < MaxQueue /\ loop' = "requeue_add" /\ UNCHANGED batch
     \/ batch # <<>> /\ Len(queue) >= MaxQueue /\ batch' = Front(batch) /\ UNCHANGED loop
  /\ UNCHANGED <<callerVars, queue, answer, stopVars, countVars, stored, accepted>>

(* Mutant of RequeueAdd: the batch is not reversed.                        *)
RequeueInBatchOrder ==
  /\ loop = "requeue_add"
  /\ queue' = <<Head(batch)>> \o queue
  /\ batch' = Tail(batch)
  /\ loop' = "requeue"
  /\ UNCHANGED <<callerVars, answer, stopVars, countVars, stored, accepted>>

(* ... and the record put back at the head.                                *)
RequeueAdd ==
  /\ loop = "requeue_add"
  /\ queue' = <<Last(batch)>> \o queue
  /\ batch' = Front(batch)
  /\ loop' = "requeue"
  /\ UNCHANGED <<callerVars, answer, stopVars, countVars, stored, accepted>>

Flush == TakeBatch \/ ReceiveOk \/ ReceiveFailure \/ RequeueCheck \/ RequeueAdd

-----------------------------------------------------------------------------
(* stop_sync() on its thread and stop() on the loop                         *)

CallStop ==
  /\ stopper = "idle"
  /\ loop # "off"
  /\ stopper' = "waiting"
  /\ stopFlag' = TRUE
  /\ mark' = Len(accepted)
  /\ UNCHANGED <<callerVars, queue, loopVars, draining, starts, countVars, stored, accepted>>

(* stop() starts when the flush task is suspended or over; cancelled in    *)
(* the middle of a POST, the task forgets its batch.                       *)
BeginStop ==
  /\ stopper = "waiting"
  /\ ~draining
  /\ loop \in {"sleep", "sending", "finished"}
  /\ draining' = TRUE
  /\ loop' = "drain"
  /\ batch' = <<>>
  /\ answer' = "none"
  /\ UNCHANGED <<callerVars, queue, stopFlag, stopper, starts, mark, countVars, stored,
                 accepted>>

(* Mutant of EndDrain: at most one batch is flushed.                       *)
EndDrainEarly ==
  /\ loop = "drain"
  /\ loop' = "stopped"
  /\ UNCHANGED <<callerVars, queue, batch, answer, stopVars, countVars, stored, accepted>>

(* The queue is empty, or the deadline has passed.                         *)
EndDrain ==
  /\ loop = "drain"
  /\ loop' = "drained"
  /\ UNCHANGED <<callerVars, queue, batch, answer, stopVars, countVars, stored, accepted>>

CountLeftover ==
  /\ loop = "drained"
  /\ \/ queue = <<>> /\ loop' = "stopped" /\ UNCHANGED dropped
     \/ queue # <<>> /\ loop' = "clearing" /\ dropped' = dropped \cup Range(queue)
  /\ UNCHANGED <<callerVars, queue, batch, answer, stopVars, sent, stored, accepted>>

ClearQueue ==
  /\ loop = "clearing"
  /\ loop' = "stopped"
  /\ queue' = <<>>
  /\ UNCHANGED <<callerVars, batch, answer, stopVars, countVars, stored, accepted>>

(* stop() is over, or future.result gave up waiting for it while a POST    *)
(* of the drain hangs; the loop is stopped and the thread joined.          *)
StopReturns ==
  /\ stopper = "waiting"
  /\ draining
  /\ loop \in {"stopped", "sending"}
  /\ stopper' = "idle"
  /\ draining' = FALSE
  /\ loop' = "off"
  /\ batch' = <<>>
  /\ answer' = "none"
  /\ UNCHANGED <<callerVars, queue, stopFlag, starts, mark, countVars, stored, accepted>>

StartSync ==
  /\ loop = "off"
  /\ starts < MaxStarts
  /\ starts' = starts + 1
  /\ stopFlag' = FALSE
  /\ loop' = "sleep"
  /\ UNCHANGED <<callerVars, queue, batch, answer, draining, stopper, mark, countVars,
                 stored, accepted>>

Stop == BeginStop \/ EndDrain \/ CountLeftover \/ ClearQueue

-----------------------------------------------------------------------------
Next ==
  \/ \E c \in Callers : AppendReport(c) \/ \E r \in Records : CheckReport(c, r)
  \/ Flush
  \/ FinishFlushLoop
  \/ CoreReceives
  \/ ConnectionFails
  \/ CallStop
  \/ Stop
  \/ StopReturns
  \/ StartSync

Spec == Init /\ [][Next]_vars

(* Threads run, timers fire, and a POST ends by its timeout at the latest;  *)
(* the deadline of the drain loop and the wait of stop_sync need not pass.  *)
Fairness ==
  /\ \A c \in Callers : WF_vars(AppendReport(c))
  /\ WF_vars(Flush)
  /\ WF_vars(FinishFlushLoop)
  /\ WF_vars(CoreReceives \/ ConnectionFails)
  /\ WF_vars(BeginStop)
  /\ WF_vars(EndDrain /\ queue = <<>>)
  /\ WF_vars(CountLeftover \/ ClearQueue)
  /\ WF_vars(StopReturns /\ loop = "stopped")

FairSpec == Spec /\ Fairness

-----------------------------------------------------------------------------
(* Properties                                                              *)

InQueue == Range(queue)
Held == (InQueue \cup Range(batch)) \ dropped

(* Telemetry goes out in the order it was accepted, across failed batches  *)
(* put back at the head of a queue that callers append to meanwhile; and   *)
(* the queue is longer than its bound by a record of each caller at most.  *)
AcceptedBefore(r, s) ==
  \E i, j \in DOMAIN accepted : i < j /\ accepted[i] = r /\ accepted[j] = s
QueueKeepsOrder ==
  LET waiting == batch \o queue
  IN  /\ \A i, j \in DOMAIN waiting : i < j => AcceptedBefore(waiting[i], waiting[j])
      /\ Len(queue) <= MaxQueue + Cardinality(Callers)

(* When stop() has ended, whatever is still queued was appended by a thread *)
(* that had passed the _stop check before stop_sync set it.                 *)
DrainLeavesNothing ==
  loop = "stopped" => \A r \in InQueue : \E i \in DOMAIN accepted : i > mark /\ accepted[i] = r

(* The reporter implements Delivery: see there what may be lost, and when. *)
Promise == INSTANCE Delivery WITH
  held <- Held,
  lost <- Range(accepted) \ (InQueue \cup Range(batch) \cup sent \cup dropped),
  stopping <- stopFlag
ImplementsDelivery == Promise!Spec

(* stop_sync returns with the Core down for good, and without its own       *)
(* timeouts: nothing is requeued once _stop is set.                         *)
StopEnds == stopper = "waiting" ~> stopper = "idle"

(* The Core is up again and again, and its answer gets through.            *)
CoreIsUp == SF_vars(CoreReceives) /\ SF_vars(ReceiveOk)

(* The turn of a record to be put back has come, and the queue is full.     *)
MeetsFullQueue(r) ==
  loop = "requeue" /\ batch # <<>> /\ Last(batch) = r /\ Len(queue) >= MaxQueue

Settles(r) ==
  r \in Held ~> r \in sent \/ r \in dropped \cap Unsafe \/ MeetsFullQueue(r) \/ loop = "off"

(* With the Core up again and again, every accepted record is sent, counted *)
(* as unserializable, or forgotten where a failed batch comes back to a     *)
(* full queue, for as long as the reporter runs: none waits for ever, once  *)
(* no record waits that the Core refuses or cannot store.                   *)
BadIsGone == <>[]((Invalid \cup Unstorable) \cap Held = {})
AcceptedIsSettled == CoreIsUp /\ BadIsGone => \A r \in Records : Settles(r)

(* What a comment says, and the code does not do                           *)

(* reporter.py _record_is_json_safe: one bad record must not poison the     *)
(* entire batch.  A record the Core's model refuses is bad, too.            *)
GoodRecordSettles ==
  CoreIsUp => \A r \in Records \ (Unsafe \cup Invalid) : Settles(r)
=============================================================================
