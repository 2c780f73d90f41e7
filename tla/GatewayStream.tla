------------------------------ MODULE GatewayStream ------------------------------
(***************************************************************************)
(* One upstream stream wrapped by GatewayStream or AsyncGatewayStream: the *)
(* reader iterating it, the threads that close it (client disconnect), and *)
(* threads that close the Router on their own (handle.finalize).           *)
(*                                                                         *)
(* AttemptSpan.close, force_close and try_aggregate_result are one step    *)
(* each here: GatewayLifecycle models what happens inside their locks.     *)
(***************************************************************************)
EXTENDS Naturals, FiniteSets

CONSTANTS
  Reader,      (* the thread or task that iterates the stream                 *)
  Closers,     (* threads or tasks that call close() / aclose()               *)
  Finalizers,  (* threads or tasks that call RouterSpan.close()               *)
  MaxChunks    (* bound on the chunks of the stream                           *)

ASSUME StreamAssumption ==
  /\ Reader \notin Closers \cup Finalizers
  /\ Closers \cap Finalizers = {}
  /\ MaxChunks \in Nat

Threads == {Reader} \cup Closers \cup Finalizers

(* What is_meaningful_content, extract_chunk_usage and the [DONE] test tell *)
(* apart.                                                                   *)
Chunks == [kind : {"content", "other"}, usage : BOOLEAN]
            \cup {[kind |-> "done", usage |-> FALSE]}
NoChunk == [kind |-> "none", usage |-> FALSE]

NoResult == [ok |-> FALSE, error |-> "none", usage |-> 0, known |-> 0, source |-> "none"]
NoReport == [status |-> "none", result |-> NoResult]

VARIABLES
  async,       (* AsyncGatewayStream, used by tasks of one event loop, which  *)
               (* switch only at an await; GatewayStream is used by threads,  *)
               (* which switch anywhere                                       *)
  pc,          (* next step of each thread                                    *)
  kind,        (* terminal path of a thread: success, error or cancelled      *)
  resume,      (* where the reader goes when the finalizer returns            *)
  usage,       (* usage a thread's AttemptResult carries; 0 is None           *)
  (* GatewayStream / AsyncGatewayStream, _TerminalFinalizer *)
  read,        (* chunks received; usage is named by the chunk it came with   *)
  chunk,       (* chunk being observed                                        *)
  streamUsage, (* _stream_usage                                               *)
  firstToken,  (* _first_token_time is set                                    *)
  streamClosed, finalized,
  iterClosed,  (* the wrapped iterator was closed                             *)
  ended,       (* how the upstream itself ended the stream: history           *)
  claimUsage,  (* _stream_usage when _finalized was set: history              *)
  (* AttemptSpan *)
  attError, attUsage, aggregated, open, attReport,
  (* RouterSpan *)
  routerClosed, result, ttft, routerEvents, routerReport

streamVars == <<read, chunk, streamUsage, firstToken, streamClosed, finalized,
                iterClosed, ended, claimUsage>>
attemptVars == <<attError, attUsage, aggregated, open, attReport>>
routerVars == <<routerClosed, result, ttft, routerEvents, routerReport>>
vars == <<async, pc, kind, resume, usage, streamVars, attemptVars, routerVars>>

(* A started Router with one started Attempt and the wrapper for it.       *)
Init ==
  /\ async \in BOOLEAN
  /\ pc = [t \in Threads |-> IF t = Reader THEN "wrap" ELSE "idle"]
  /\ kind = [t \in Threads |-> "cancelled"]
  /\ resume = "done"
  /\ usage = [t \in Threads |-> 0]
  /\ read = 0
  /\ chunk = NoChunk
  /\ streamUsage = 0
  /\ firstToken = FALSE
  /\ streamClosed = FALSE
  /\ finalized = FALSE
  /\ iterClosed = FALSE
  /\ ended = "no"
  /\ claimUsage = 0
  /\ attError = "none"
  /\ attUsage = 0
  /\ aggregated = FALSE
  /\ open = TRUE
  /\ attReport = "none"
  /\ routerClosed = FALSE
  /\ result = NoResult
  /\ ttft = FALSE
  /\ routerEvents = {}
  /\ routerReport = NoReport

(* An event loop runs another task only while every task is suspended.     *)
Suspended == {"wrap", "reading", "waiting", "dropped", "idle", "closing", "done",
              "cancelled"}
(* A thread that has returned, or a task that ended by its cancellation.   *)
Gone(t) == pc[t] \in {"done", "cancelled"}
CanRun(t) == async => \A u \in Threads \ {t} : pc[u] \in Suspended

Goto(t, from, to) ==
  /\ pc[t] = from
  /\ CanRun(t)
  /\ pc' = [pc EXCEPT ![t] = to]

(* Enter one of finalize_success / finalize_error / finalize_cancelled.    *)
EnterFinalizer(t, from, path) ==
  /\ Goto(t, from, "check")
  /\ kind' = [kind EXCEPT ![t] = path]

Return(t) == IF t = Reader THEN resume ELSE "done"

-----------------------------------------------------------------------------
(* The reader: construction, __next__ / __anext__, _observe_chunk          *)

(* Mutant of WrapStream: a success is aggregated at the response header.    *)
WrapAsSuccess ==
  /\ Goto(Reader, "wrap", "reading")
  /\ aggregated' = TRUE
  /\ result' = [NoResult EXCEPT !.ok = TRUE, !.source = "stream"]
  /\ UNCHANGED <<async, kind, resume, usage, streamVars, attError, attUsage, open,
                 attReport, routerClosed, ttft, routerEvents, routerReport>>

WrapStream ==
  /\ Goto(Reader, "wrap", "reading")
  /\ UNCHANGED <<async, kind, resume, usage, streamVars, attemptVars, routerVars>>

CallNext ==
  /\ Goto(Reader, "reading", IF streamClosed THEN "done" ELSE "waiting")
  /\ UNCHANGED <<async, kind, resume, usage, streamVars, attemptVars, routerVars>>

ReceiveChunk ==
  /\ Goto(Reader, "waiting", "observe")
  /\ ~iterClosed
  /\ read < MaxChunks
  /\ read' = read + 1
  /\ chunk' \in Chunks
  /\ UNCHANGED <<async, kind, resume, usage, streamUsage, firstToken, streamClosed,
                 finalized, iterClosed, ended, claimUsage, attemptVars, routerVars>>

(* StopIteration, from the upstream or from a closed generator.            *)
StreamEnds ==
  /\ EnterFinalizer(Reader, "waiting", "success")
  /\ resume' = "done"
  /\ ended' = IF iterClosed \/ ended # "no" THEN ended ELSE "end"
  /\ UNCHANGED <<async, usage, read, chunk, streamUsage, firstToken, streamClosed,
                 finalized, iterClosed, claimUsage, attemptVars, routerVars>>

(* The upstream raises, or the read fails because close() took the         *)
(* connection away.                                                        *)
StreamRaises ==
  /\ EnterFinalizer(Reader, "waiting", "error")
  /\ resume' = "done"
  /\ ended' = IF iterClosed \/ ended # "no" THEN ended ELSE "raise"
  /\ UNCHANGED <<async, usage, read, chunk, streamUsage, firstToken, streamClosed,
                 finalized, iterClosed, claimUsage, attemptVars, routerVars>>

(* asyncio.CancelledError or GeneratorExit delivered to the waiting task.  *)
ReaderCancelled ==
  /\ async
  /\ EnterFinalizer(Reader, "waiting", "cancelled")
  /\ resume' = "done"
  /\ UNCHANGED <<async, usage, streamVars, attemptVars, routerVars>>

(* Usage capture, then [DONE], then the first meaningful content.          *)
ObserveChunk ==
  /\ streamUsage' = IF chunk.usage THEN read ELSE streamUsage
  /\ \/ /\ chunk.kind = "done"
        /\ EnterFinalizer(Reader, "observe", "success")
        /\ resume' = "reading"
        /\ ended' = IF ended = "no" THEN "end" ELSE ended
        /\ UNCHANGED firstToken
     \/ /\ chunk.kind # "done"
        /\ Goto(Reader, "observe", IF chunk.kind = "content" /\ ~firstToken
                                   THEN "token_ttft" ELSE "reading")
        /\ firstToken' = (firstToken \/ chunk.kind = "content")
        /\ UNCHANGED <<kind, resume, ended>>
  /\ UNCHANGED <<async, usage, read, chunk, streamClosed, finalized, iterClosed,
                 claimUsage, attemptVars, routerVars>>

RecordTtft ==
  /\ Goto(Reader, "token_ttft", "token_event")
  /\ ttft' = TRUE
  /\ UNCHANGED <<async, kind, resume, usage, streamVars, attemptVars, routerClosed,
                 result, routerEvents, routerReport>>

RecordFirstToken ==
  /\ Goto(Reader, "token_event", "reading")
  /\ routerEvents' = routerEvents \cup {"first_token"}
  /\ UNCHANGED <<async, kind, resume, usage, streamVars, attemptVars, routerClosed,
                 result, ttft, routerReport>>

(* The consumer leaves the loop and closes the stream.                     *)
ReaderCloses ==
  /\ Goto(Reader, "reading", "close_check")
  /\ resume' = "done"
  /\ UNCHANGED <<async, kind, usage, streamVars, attemptVars, routerVars>>

(* __exit__ with an exception: no close() unless already finalized.        *)
ReaderExitsWithError ==
  /\ IF finalized THEN Goto(Reader, "reading", "close_check") /\ UNCHANGED kind
                  ELSE EnterFinalizer(Reader, "reading", "cancelled")
  /\ resume' = "done"
  /\ UNCHANGED <<async, usage, streamVars, attemptVars, routerVars>>

(* Mutant of CollectStream: __del__ leaves a stream alone that produced      *)
(* content.                                                                *)
CollectUnused ==
  /\ \A c \in Closers : Gone(c)
  /\ IF finalized \/ streamClosed \/ firstToken
     THEN Goto(Reader, "dropped", "done") /\ UNCHANGED kind
     ELSE EnterFinalizer(Reader, "dropped", "cancelled")
  /\ resume' = "done"
  /\ UNCHANGED <<async, usage, streamVars, attemptVars, routerVars>>

(* The consumer just forgets the stream ...                                *)
DropStream ==
  /\ Goto(Reader, "reading", "dropped")
  /\ UNCHANGED <<async, kind, resume, usage, streamVars, attemptVars, routerVars>>

(* ... and __del__ runs once nobody else refers to it.                     *)
CollectStream ==
  /\ \A c \in Closers : Gone(c)
  /\ IF finalized \/ streamClosed
     THEN Goto(Reader, "dropped", "done") /\ UNCHANGED kind
     ELSE EnterFinalizer(Reader, "dropped", "cancelled")
  /\ resume' = "done"
  /\ UNCHANGED <<async, usage, streamVars, attemptVars, routerVars>>

-----------------------------------------------------------------------------
(* close() / aclose()                                                      *)

CallClose(c) ==
  /\ Goto(c, "idle", "close_check")
  /\ UNCHANGED <<async, kind, resume, usage, streamVars, attemptVars, routerVars>>

(* A thread that never closes the stream drops its reference.              *)
ForgetStream(c) ==
  /\ Goto(c, "idle", "done")
  /\ UNCHANGED <<async, kind, resume, usage, streamVars, attemptVars, routerVars>>

CheckClosed(t) ==
  /\ Goto(t, "close_check", IF streamClosed THEN Return(t) ELSE "close_mark")
  /\ UNCHANGED <<async, kind, resume, usage, streamVars, attemptVars, routerVars>>

MarkClosed(t) ==
  /\ Goto(t, "close_mark", "closing")
  /\ streamClosed' = TRUE
  /\ UNCHANGED <<async, kind, resume, usage, read, chunk, streamUsage, firstToken,
                 finalized, iterClosed, ended, claimUsage, attemptVars, routerVars>>

(* The iterator may have no close, or refuse it while it is running.       *)
CloseIterator(t) ==
  /\ EnterFinalizer(t, "closing", "cancelled")
  /\ UNCHANGED <<async, resume, usage, streamVars, attemptVars, routerVars>>

(* A task cancelled while aclose() awaits the iterator's aclose: the       *)
(* CancelledError passes "except Exception", no finalizer runs, and         *)
(* _closed stays set, so that neither a later aclose() nor __del__ makes up *)
(* for it.                                                                 *)
CloseCancelled(t) ==
  /\ async
  /\ Goto(t, "closing", "cancelled")
  /\ UNCHANGED <<async, kind, resume, usage, streamVars, attemptVars, routerVars>>

(* In aclose() the iterator is closed while aclose() itself is suspended.  *)
IteratorCloses(t) ==
  /\ pc[t] = "closing"
  /\ CanRun(t)
  /\ ~iterClosed
  /\ iterClosed' = TRUE
  /\ UNCHANGED <<async, pc, kind, resume, usage, read, chunk, streamUsage, firstToken,
                 streamClosed, finalized, ended, claimUsage, attemptVars, routerVars>>

-----------------------------------------------------------------------------
(* _TerminalFinalizer: finalize_success, finalize_error, finalize_cancelled *)

CheckFinalized(t) ==
  /\ Goto(t, "check", IF finalized THEN Return(t) ELSE "claim")
  /\ UNCHANGED <<async, kind, resume, usage, streamVars, attemptVars, routerVars>>

ClaimFinalized(t) ==
  /\ Goto(t, "claim", IF kind[t] = "success" THEN "event" ELSE "mark")
  /\ finalized' = TRUE
  /\ claimUsage' = IF finalized THEN claimUsage ELSE streamUsage
  /\ UNCHANGED <<async, kind, resume, usage, read, chunk, streamUsage, firstToken,
                 streamClosed, iterClosed, ended, attemptVars, routerVars>>

(* _classify never answers unknown on a stream.                            *)
ErrorOf(path) ==
  CASE path = "success" -> "none" [] path = "error" -> "stream" [] OTHER -> "cancelled"

MarkError(t) ==
  /\ Goto(t, "mark", "event")
  /\ attError' = ErrorOf(kind[t])
  /\ UNCHANGED <<async, kind, resume, usage, streamVars, attUsage, aggregated, open,
                 attReport, routerVars>>

RecordStreamEvent(t) ==
  /\ Goto(t, "event", "usage")
  /\ routerEvents' = routerEvents \cup
       {CASE kind[t] = "success" -> "stream_completed"
          [] kind[t] = "error" -> "response_failed"
          [] OTHER -> "stream_cancelled"}
  /\ UNCHANGED <<async, kind, resume, usage, streamVars, attemptVars, routerClosed,
                 result, ttft, routerReport>>

(* _apply_usage_to_attempt; the cost is computed from the same usage.      *)
ApplyUsage(t) ==
  /\ Goto(t, "usage", "publish")
  /\ usage' = [usage EXCEPT ![t] = streamUsage]
  /\ attUsage' = IF streamUsage = 0 THEN attUsage ELSE streamUsage
  /\ UNCHANGED <<async, kind, resume, streamVars, attError, aggregated, open, attReport,
                 routerVars>>

(* AttemptSpan.try_aggregate_result.                                       *)
TryAggregate(r) ==
  /\ aggregated' = TRUE
  /\ result' = IF aggregated THEN result ELSE r

(* Mutant of PublishResult: straight to the Router, without the claim.     *)
PublishAlways(t) ==
  /\ Goto(t, "publish", "close_attempt")
  /\ aggregated' = TRUE
  /\ result' = [ok |-> kind[t] = "success", error |-> ErrorOf(kind[t]),
                usage |-> usage[t], known |-> claimUsage, source |-> "stream"]
  /\ UNCHANGED <<async, kind, resume, usage, streamVars, attError, attUsage, open,
                 attReport, routerClosed, ttft, routerEvents, routerReport>>

PublishResult(t) ==
  /\ Goto(t, "publish", "close_attempt")
  /\ TryAggregate([ok |-> kind[t] = "success", error |-> ErrorOf(kind[t]),
                   usage |-> usage[t], known |-> claimUsage, source |-> "stream"])
  /\ UNCHANGED <<async, kind, resume, usage, streamVars, attError, attUsage, open,
                 attReport, routerClosed, ttft, routerEvents, routerReport>>

(* AttemptSpan.close: status from the error, report, leave _open_attempts. *)
EndAttempt ==
  IF attReport # "none" THEN UNCHANGED <<attReport, open>>
  ELSE /\ attReport' = IF attError # "none" THEN "ERROR" ELSE "OK"
       /\ open' = FALSE

CloseAttempt(t) ==
  /\ Goto(t, "close_attempt", "router_close")
  /\ EndAttempt
  /\ UNCHANGED <<async, kind, resume, usage, streamVars, attError, attUsage, aggregated,
                 routerVars>>

-----------------------------------------------------------------------------
(* RouterSpan.close, from _close_router or from handle.finalize            *)

CallFinalize(f) ==
  /\ Goto(f, "idle", "router_close")
  /\ UNCHANGED <<async, kind, resume, usage, streamVars, attemptVars, routerVars>>

CloseRouter(t) ==
  /\ Goto(t, "router_close", IF routerClosed THEN Return(t) ELSE "snapshot")
  /\ routerClosed' = TRUE
  /\ UNCHANGED <<async, kind, resume, usage, streamVars, attemptVars, result, ttft,
                 routerEvents, routerReport>>

SnapshotOpen(t) ==
  /\ Goto(t, "snapshot", IF open THEN "force" ELSE "router_report")
  /\ open' = FALSE
  /\ UNCHANGED <<async, kind, resume, usage, streamVars, attError, attUsage, aggregated,
                 attReport, routerVars>>

(* Mutant of ForceClose: the forced Attempt is only closed.                *)
ForceWithoutResult(t) ==
  /\ Goto(t, "force", "force_close")
  /\ attError' = IF attError = "none" THEN "internal" ELSE attError
  /\ UNCHANGED <<async, kind, resume, usage, streamVars, attUsage, aggregated, open,
                 attReport, routerVars>>

(* AttemptSpan.force_close up to the release of the lock: the result       *)
(* carries the usage written on the Attempt, not the stream's.             *)
ForceClose(t) ==
  /\ pc[t] = "force"
  /\ \/ /\ attReport # "none"
        /\ Goto(t, "force", "router_report")
        /\ UNCHANGED <<attError, aggregated, result>>
     \/ /\ attReport = "none"
        /\ Goto(t, "force", "force_close")
        /\ attError' = IF aggregated \/ attError # "none" THEN attError ELSE "internal"
        /\ TryAggregate([ok |-> FALSE, error |-> attError', usage |-> attUsage,
                         known |-> streamUsage, source |-> "force"])
  /\ UNCHANGED <<async, kind, resume, usage, streamVars, attUsage, open, attReport,
                 routerClosed, ttft, routerEvents, routerReport>>

CloseForced(t) ==
  /\ Goto(t, "force_close", "router_report")
  /\ EndAttempt
  /\ UNCHANGED <<async, kind, resume, usage, streamVars, attError, attUsage, aggregated,
                 routerVars>>

(* Terminal event, aggregates, status and report: no result can be         *)
(* published any more, see RecordReflectsStream.                           *)
ReportRouter(t) ==
  /\ Goto(t, "router_report", Return(t))
  /\ routerEvents' = routerEvents \cup
       {IF result.error # "none" THEN "response_failed" ELSE "response_completed"}
  /\ routerReport' = [status |-> IF result.error # "none" THEN "ERROR" ELSE "OK",
                      result |-> result]
  /\ UNCHANGED <<async, kind, resume, usage, streamVars, attemptVars, routerClosed,
                 result, ttft>>

-----------------------------------------------------------------------------
Finalize(t) ==
  \/ CheckFinalized(t)
  \/ ClaimFinalized(t)
  \/ MarkError(t)
  \/ RecordStreamEvent(t)
  \/ ApplyUsage(t)
  \/ PublishResult(t)
  \/ CloseAttempt(t)
  \/ CloseRouter(t)
  \/ SnapshotOpen(t)
  \/ ForceClose(t)
  \/ CloseForced(t)
  \/ ReportRouter(t)

CloseStream(t) == CheckClosed(t) \/ MarkClosed(t) \/ CloseIterator(t)

Observe == ObserveChunk \/ RecordTtft \/ RecordFirstToken

ReadStream ==
  \/ WrapStream
  \/ CallNext
  \/ ReceiveChunk
  \/ StreamEnds
  \/ StreamRaises
  \/ ReaderCancelled
  \/ ReaderCloses
  \/ ReaderExitsWithError
  \/ DropStream

Terminated ==
  /\ \A t \in Threads : Gone(t)
  /\ UNCHANGED vars

Next ==
  \/ ReadStream
  \/ Observe
  \/ CollectStream
  \/ \E c \in Closers : CallClose(c) \/ ForgetStream(c)
  \/ \E f \in Finalizers : CallFinalize(f)
  \/ \E t \in Threads : CloseStream(t) \/ CloseCancelled(t) \/ IteratorCloses(t)
                           \/ Finalize(t)
  \/ Terminated

Spec == Init /\ [][Next]_vars

(* SDK code that runs keeps running, and CPython calls __del__ when the     *)
(* last reference goes; what readers and closers do next, and whether a     *)
(* task is cancelled, is their affair.                                     *)
Fairness ==
  /\ \A t \in Threads : WF_vars(Finalize(t) \/ CloseStream(t))
  /\ WF_vars(Observe)
  /\ WF_vars(CollectStream)

FairSpec == Spec /\ Fairness

-----------------------------------------------------------------------------
(* Properties                                                              *)

RouterReported == routerReport # NoReport

(* streaming.py _publish_and_close: the result is published before the     *)
(* Attempt leaves the Router, so whoever closes the Router, its record has *)
(* the stream's result, with the usage captured before the terminal path   *)
(* was taken, and nothing is published after it.                           *)
RecordReflectsStream ==
  /\ RouterReported => aggregated /\ routerReport.result = result
  /\ routerReport.result.source = "stream" =>
       routerReport.result.usage >= routerReport.result.known

(* The finalizer's flag: one stream records one of completed and cancelled, *)
(* and Router and Attempt never disagree, one OK and one ERROR, whether    *)
(* the stream, a close() or handle.finalize ended them.  Tasks keep it;    *)
(* threads may pass the unlocked check of the flag together.               *)
TerminalStatesAgree ==
  async =>
    /\ ~({"stream_completed", "stream_cancelled"} \subseteq routerEvents)
    /\ RouterReported /\ attReport # "none" => routerReport.status = attReport

(* A Router closed by its gateway in the middle of a stream reports no      *)
(* success: a success is only published after the upstream's own end.       *)
SuccessOnlyAtEnd == result.ok /\ ~streamClosed => ended = "end"

(* A stream that is closed, or that everybody forgot and __del__ finds      *)
(* open, gets its Router reported by whichever task reaches the finalizer  *)
(* first.  The one way out is a task cancelled inside aclose().            *)
Abandoned == streamClosed \/ (pc[Reader] = "dropped" /\ \A c \in Closers : Gone(c))
AbandonedStreamIsReported ==
  Abandoned ~> RouterReported \/ \E t \in Threads : pc[t] = "cancelled"

(* What openspec/specs/gateway-observability-runtime/spec.md:273 says: the *)
(* Router and Attempt spans of a stream end at a terminal state, aclose    *)
(* among them, on any terminal path.                                       *)
ClosedStreamIsReported == streamClosed ~> RouterReported
=============================================================================
