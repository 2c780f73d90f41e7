-------------------------- MODULE GatewayStream_proofs --------------------------
(***************************************************************************)
(* The three safety properties of GatewayStream, for any closers, any      *)
(* finalizers and streams of any length.                                   *)
(***************************************************************************)
EXTENDS GatewayStream, TLAPS

Errors == {"none", "stream", "cancelled", "internal"}
Results == [ok : BOOLEAN, error : Errors, usage : Nat, known : Nat,
            source : {"none", "stream", "force"}]

(* Before the terminal path is claimed, and after it is left               *)
Outside == {"wrap", "reading", "waiting", "observe", "token_ttft", "token_event",
            "dropped", "idle", "close_check", "close_mark", "closing", "check", "done",
            "cancelled"}
(* _publish_and_close, by whoever claimed the terminal path                *)
Publishing == {"mark", "event", "usage", "publish", "close_attempt"}
(* RouterSpan.close, past its test-and-set of _closed                      *)
Closing == {"snapshot", "force", "force_close", "router_report"}
Steps == Outside \cup Publishing \cup Closing \cup {"claim", "router_close"}

TypeOK ==
  /\ async \in BOOLEAN
  /\ pc \in [Threads -> Steps]
  /\ kind \in [Threads -> {"success", "error", "cancelled"}]
  /\ resume \in {"reading", "done"}
  /\ usage \in [Threads -> Nat]
  /\ read \in Nat
  /\ chunk \in Chunks \cup {NoChunk}
  /\ streamUsage \in Nat
  /\ firstToken \in BOOLEAN
  /\ streamClosed \in BOOLEAN
  /\ finalized \in BOOLEAN
  /\ iterClosed \in BOOLEAN
  /\ ended \in {"no", "end", "raise"}
  /\ claimUsage \in Nat
  /\ attError \in Errors
  /\ attUsage \in Nat
  /\ aggregated \in BOOLEAN
  /\ open \in BOOLEAN
  /\ attReport \in {"none", "OK", "ERROR"}
  /\ routerClosed \in BOOLEAN
  /\ result \in Results
  /\ routerReport \in {NoReport} \cup [status : {"OK", "ERROR"}, result : Results]

-----------------------------------------------------------------------------
(* The inductive invariant                                                  *)

(* Usage only grows, and is read after the terminal path was claimed.      *)
UsageOK ==
  /\ streamUsage <= read
  /\ claimUsage <= streamUsage
  /\ \A t \in Threads : pc[t] \in Publishing => finalized
  /\ \A t \in Threads : pc[t] = "publish" => claimUsage <= usage[t]
  /\ result.source = "stream" => result.known <= result.usage

(* One thread closes the Router.                                           *)
ClosesOnce ==
  /\ \A t, u \in Threads : pc[t] \in Closing /\ pc[u] \in Closing => t = u
  /\ \A t \in Threads : pc[t] \in Closing => routerClosed /\ ~RouterReported
  /\ RouterReported => routerClosed

(* An Attempt that has left the Router has published its result, unless    *)
(* the closer of the Router took it out, who then publishes one.           *)
PublishedOK ==
  /\ attReport # "none" => aggregated
  /\ \A t \in Threads :
       pc[t] \in {"close_attempt", "force_close", "router_report"} => aggregated
  /\ ~open => \/ attReport # "none"
              \/ routerClosed /\ \A t \in Threads : pc[t] # "snapshot"
  /\ RouterReported => /\ aggregated
                       /\ routerReport.result = result
                       /\ routerReport.status = IF result.error # "none" THEN "ERROR" ELSE "OK"

(* Success is the reader's, at the end of the stream or after a close; a    *)
(* reader to whom the upstream raised never reads again.                   *)
EndOK ==
  /\ iterClosed => streamClosed
  /\ \A t \in Threads : pc[t] = "closing" => streamClosed
  /\ \A t \in Threads : kind[t] = "success" => streamClosed \/ ended = "end"
  /\ ended = "raise" => pc[Reader] = "done" \/ ((pc[Reader] \in Outside => pc[Reader] = "check") /\ resume = "done")
  /\ result.ok => streamClosed \/ ended = "end"

(* Of the tasks of an event loop one runs, and the terminal path holds no  *)
(* await: whoever claims it is the only one, and the error on the Attempt  *)
(* is the one in the result.                                               *)
OneRuns ==
  \A t, u \in Threads : pc[t] \notin Suspended /\ pc[u] \notin Suspended => t = u
NoTerminalEvent == "stream_completed" \notin routerEvents /\ "stream_cancelled" \notin routerEvents
ErrorsAgree ==
  /\ ~finalized => NoTerminalEvent
  /\ \A t \in Threads : pc[t] = "claim" => ~finalized
  /\ \A t \in Threads : pc[t] \in {"mark", "event"} => NoTerminalEvent
  /\ "stream_completed" \notin routerEvents \/ "stream_cancelled" \notin routerEvents
  /\ ~aggregated /\ attError # "none" =>
       \E t \in Threads : pc[t] \in {"event", "usage", "publish"}
  /\ \A t \in Threads : pc[t] \in {"event", "usage", "publish"} /\ ~aggregated
                           => attError = ErrorOf(kind[t])
  /\ aggregated /\ attReport = "none" =>
       \E t \in Threads : pc[t] \in {"close_attempt", "force_close"}
  /\ \A t \in Threads : pc[t] \in {"close_attempt", "force_close"} /\ attReport = "none"
                           => attError = result.error
  /\ attReport # "none" => attReport = IF result.error # "none" THEN "ERROR" ELSE "OK"
AgreeOK == async => OneRuns /\ ErrorsAgree

IInv == TypeOK /\ UsageOK /\ ClosesOnce /\ PublishedOK /\ EndOK /\ AgreeOK

-----------------------------------------------------------------------------
LEMMA TypeInit == Init => TypeOK
<1>. SUFFICES ASSUME Init PROVE TypeOK
  OBVIOUS
<1>1. pc \in [Threads -> Steps]
  BY DEF Init, Steps, Outside
<1>2. result \in Results /\ attError \in Errors
  BY DEF Init, NoResult, Results, Errors
<1>. QED BY <1>1, <1>2 DEF Init, TypeOK

LEMMA MoveType ==
  ASSUME TypeOK, NEW t \in Threads, NEW from, NEW to \in Steps, Goto(t, from, to)
  PROVE  pc' \in [Threads -> Steps]
BY DEF Goto, TypeOK

LEMMA ReturnType ==
  ASSUME TypeOK, NEW t
  PROVE  Return(t) \in {"reading", "done"}
BY DEF TypeOK, Return

LEMMA ReadersType ==
  ASSUME TypeOK, ReadStream \/ Observe \/ CollectStream
  PROVE  TypeOK'
<1>. USE DEF TypeOK, Goto, EnterFinalizer, Steps, Outside, streamVars, attemptVars, routerVars
<1>1. Reader \in Threads
  BY DEF Threads
<1>2. CASE WrapStream
  BY <1>1, <1>2 DEF WrapStream
<1>3. CASE CallNext
  BY <1>1, <1>3 DEF CallNext
<1>4. CASE ReceiveChunk
  BY <1>1, <1>4 DEF ReceiveChunk
<1>5. CASE StreamEnds
  BY <1>1, <1>5 DEF StreamEnds
<1>6. CASE StreamRaises
  BY <1>1, <1>6 DEF StreamRaises
<1>7. CASE ReaderCancelled
  BY <1>1, <1>7 DEF ReaderCancelled
<1>8. CASE ObserveChunk
  <2>1. pc' \in [Threads -> Steps] /\ kind' \in [Threads -> {"success", "error", "cancelled"}]
    BY <1>1, <1>8 DEF ObserveChunk
  <2>2. /\ streamUsage' \in Nat /\ firstToken' \in BOOLEAN /\ ended' \in {"no", "end", "raise"}
        /\ resume' \in {"reading", "done"}
    BY <1>8 DEF ObserveChunk
  <2>3. UNCHANGED <<async, usage, read, chunk, streamClosed, finalized, iterClosed,
                    claimUsage, attemptVars, routerVars>>
    BY <1>8 DEF ObserveChunk
  <2>. HIDE DEF Steps
  <2>. QED BY <2>1, <2>2, <2>3
<1>9. CASE RecordTtft
  BY <1>1, <1>9 DEF RecordTtft
<1>10. CASE RecordFirstToken
  BY <1>1, <1>10 DEF RecordFirstToken
<1>11. CASE ReaderCloses
  BY <1>1, <1>11 DEF ReaderCloses
<1>12. CASE ReaderExitsWithError
  BY <1>1, <1>12 DEF ReaderExitsWithError
<1>13. CASE DropStream
  BY <1>1, <1>13 DEF DropStream
<1>14. CASE CollectStream
  BY <1>1, <1>14 DEF CollectStream
<1>. QED
  BY <1>2, <1>3, <1>4, <1>5, <1>6, <1>7, <1>8, <1>9, <1>10, <1>11, <1>12, <1>13, <1>14
     DEF ReadStream, Observe

LEMMA ClosersType ==
  ASSUME TypeOK, NEW t \in Threads,
         CallClose(t) \/ ForgetStream(t) \/ CallFinalize(t) \/ CloseStream(t) \/ CloseCancelled(t) \/ IteratorCloses(t)
  PROVE  TypeOK'
<1>. USE DEF TypeOK, Goto, EnterFinalizer, Steps, Outside, streamVars, attemptVars, routerVars
<1>1. CASE CallClose(t) \/ ForgetStream(t)
  BY <1>1 DEF CallClose, ForgetStream
<1>2. CASE CallFinalize(t)
  BY <1>2 DEF CallFinalize
<1>3. CASE CheckClosed(t)
  BY <1>3, ReturnType DEF CheckClosed
<1>4. CASE MarkClosed(t)
  BY <1>4 DEF MarkClosed
<1>5. CASE CloseIterator(t)
  BY <1>5 DEF CloseIterator
<1>6. CASE IteratorCloses(t)
  BY <1>6 DEF IteratorCloses
<1>7. CASE CloseCancelled(t)
  BY <1>7 DEF CloseCancelled
<1>. QED BY <1>1, <1>2, <1>3, <1>4, <1>5, <1>6, <1>7 DEF CloseStream

LEMMA FinalizersType ==
  ASSUME TypeOK, NEW t \in Threads, Finalize(t)
  PROVE  TypeOK'
<1>0. EndAttempt => attReport' \in {"none", "OK", "ERROR"} /\ open' \in BOOLEAN
  BY DEF EndAttempt, TypeOK
<1>. USE DEF TypeOK, Goto, Steps, Outside, Publishing, Closing, streamVars, attemptVars, routerVars
<1>1. CASE CheckFinalized(t)
  BY <1>1, ReturnType DEF CheckFinalized
<1>2. CASE ClaimFinalized(t)
  BY <1>2 DEF ClaimFinalized
<1>3. CASE MarkError(t)
  BY <1>3 DEF MarkError, ErrorOf, Errors
<1>4. CASE RecordStreamEvent(t)
  BY <1>4 DEF RecordStreamEvent
<1>5. CASE ApplyUsage(t)
  BY <1>5 DEF ApplyUsage
<1>6. CASE PublishResult(t)
  <2>1. [ok |-> kind[t] = "success", error |-> ErrorOf(kind[t]),
         usage |-> usage[t], known |-> claimUsage, source |-> "stream"] \in Results
    BY DEF Results, ErrorOf, Errors
  <2>. QED BY <1>6, <2>1 DEF PublishResult, TryAggregate
<1>7. CASE CloseAttempt(t)
  <2>1. pc' \in [Threads -> Steps]
    BY <1>7 DEF CloseAttempt
  <2>. HIDE DEF Steps
  <2>. QED BY <1>0, <1>7, <2>1 DEF CloseAttempt
<1>8. CASE CloseRouter(t)
  BY <1>8, ReturnType DEF CloseRouter
<1>9. CASE SnapshotOpen(t)
  <2>1. pc' \in [Threads -> Steps]
    BY <1>9 DEF SnapshotOpen
  <2>2. open' \in BOOLEAN /\ UNCHANGED <<async, kind, resume, usage, streamVars, attError, attUsage,
                                         aggregated, attReport, routerVars>>
    BY <1>9 DEF SnapshotOpen
  <2>. HIDE DEF Steps
  <2>. QED BY <2>1, <2>2
<1>10. CASE ForceClose(t)
  <2>1. attError' \in Errors
    BY <1>10 DEF ForceClose, Errors
  <2>2. [ok |-> FALSE, error |-> attError', usage |-> attUsage,
         known |-> streamUsage, source |-> "force"] \in Results
    BY <2>1 DEF Results
  <2>3. pc' \in [Threads -> Steps]
    BY <1>10 DEF ForceClose
  <2>4. result' \in Results /\ aggregated' \in BOOLEAN
    BY <1>10, <2>2 DEF ForceClose, TryAggregate
  <2>5. UNCHANGED <<async, kind, resume, usage, streamVars, attUsage, open, attReport,
                    routerClosed, ttft, routerEvents, routerReport>>
    BY <1>10 DEF ForceClose
  <2>. HIDE DEF Steps
  <2>. QED BY <2>1, <2>3, <2>4, <2>5
<1>11. CASE CloseForced(t)
  <2>1. pc' \in [Threads -> Steps]
    BY <1>11 DEF CloseForced
  <2>. HIDE DEF Steps
  <2>. QED BY <1>0, <1>11, <2>1 DEF CloseForced
<1>12. CASE ReportRouter(t)
  BY <1>12, ReturnType DEF ReportRouter
<1>. QED
  BY <1>1, <1>2, <1>3, <1>4, <1>5, <1>6, <1>7, <1>8, <1>9, <1>10, <1>11, <1>12 DEF Finalize

LEMMA TypeKept == TypeOK /\ [Next]_vars => TypeOK'
<1>. SUFFICES ASSUME TypeOK, [Next]_vars PROVE TypeOK'
  OBVIOUS
<1>1. CASE UNCHANGED vars
  BY <1>1 DEF vars, streamVars, attemptVars, routerVars, TypeOK
<1>. QED
  BY <1>1, ReadersType, ClosersType, FinalizersType DEF Next, Terminated, Threads

-----------------------------------------------------------------------------
(* Steps before the terminal path                                           *)

(* What such a step leaves alone; it only adds to the usage that is known.  *)
Quiet ==
  /\ UNCHANGED <<async, usage, finalized, claimUsage, attemptVars, routerClosed, result, routerReport>>
  /\ \A e \in {"stream_completed", "stream_cancelled"} : e \in routerEvents' <=> e \in routerEvents
  /\ streamUsage <= streamUsage' /\ streamUsage' <= read'
QuietMove(t) ==
  /\ \E to \in Outside : pc[t] \in Outside /\ pc' = [pc EXCEPT ![t] = to]
  /\ CanRun(t)
  /\ kind' \in [Threads -> {"success", "error", "cancelled"}]
  /\ \A u \in Threads \ {t} : kind'[u] = kind[u]
  /\ Quiet

LEMMA ReaderIsQuiet ==
  ASSUME TypeOK, streamUsage <= read, ReadStream \/ Observe \/ CollectStream
  PROVE  QuietMove(Reader)
<1>. USE DEF Goto, EnterFinalizer, Outside, streamVars, attemptVars, routerVars, Quiet, QuietMove
<1>0. Reader \in Threads /\ kind \in [Threads -> {"success", "error", "cancelled"}]
      /\ read \in Nat /\ streamUsage \in Nat
  BY DEF Threads, TypeOK
<1>1. CASE WrapStream
  BY <1>0, <1>1 DEF WrapStream
<1>2. CASE CallNext
  <2>1. \/ pc' = [pc EXCEPT ![Reader] = "done"]
        \/ pc' = [pc EXCEPT ![Reader] = "waiting"]
    BY <1>2 DEF CallNext
  <2>. QED BY <1>0, <1>2, <2>1 DEF CallNext
<1>3. CASE ReceiveChunk
  BY <1>0, <1>3 DEF ReceiveChunk
<1>4. CASE StreamEnds
  BY <1>0, <1>4 DEF StreamEnds
<1>5. CASE StreamRaises
  BY <1>0, <1>5 DEF StreamRaises
<1>6. CASE ReaderCancelled
  BY <1>0, <1>6 DEF ReaderCancelled
<1>7. CASE ObserveChunk
  <2>1. /\ streamUsage <= streamUsage' /\ streamUsage' <= read /\ read' = read
        /\ UNCHANGED <<async, usage, finalized, claimUsage, attemptVars, routerVars>>
        /\ CanRun(Reader)
    BY <1>0, <1>7 DEF ObserveChunk
  <2>2. \E to \in Outside : pc[Reader] \in Outside /\ pc' = [pc EXCEPT ![Reader] = to]
    BY <1>0, <1>7 DEF ObserveChunk
  <2>3. kind' = kind \/ kind' = [kind EXCEPT ![Reader] = "success"]
    BY <1>7 DEF ObserveChunk
  <2>. QED BY <1>0, <2>1, <2>2, <2>3
<1>8. CASE RecordTtft
  BY <1>0, <1>8 DEF RecordTtft
<1>9. CASE RecordFirstToken
  BY <1>0, <1>9 DEF RecordFirstToken
<1>10. CASE ReaderCloses
  BY <1>0, <1>10 DEF ReaderCloses
<1>11. CASE ReaderExitsWithError
  BY <1>0, <1>11 DEF ReaderExitsWithError
<1>12. CASE DropStream
  BY <1>0, <1>12 DEF DropStream
<1>13. CASE CollectStream
  BY <1>0, <1>13 DEF CollectStream
<1>. QED
  BY <1>1, <1>2, <1>3, <1>4, <1>5, <1>6, <1>7, <1>8, <1>9, <1>10, <1>11, <1>12, <1>13
     DEF ReadStream, Observe

LEMMA CloserIsQuiet ==
  ASSUME TypeOK, streamUsage <= read, NEW t \in Threads,
         \/ CallClose(t) \/ ForgetStream(t) \/ CloseStream(t) \/ CloseCancelled(t) \/ IteratorCloses(t)
         \/ CheckFinalized(t) /\ finalized
  PROVE  QuietMove(t)
<1>. USE DEF Goto, EnterFinalizer, Outside, streamVars, attemptVars, routerVars, Quiet, QuietMove
<1>0. /\ kind \in [Threads -> {"success", "error", "cancelled"}]
      /\ read \in Nat /\ streamUsage \in Nat
      /\ pc = [pc EXCEPT ![t] = pc[t]]
  BY DEF TypeOK
<1>r. Return(t) \in Outside
  BY ReturnType
<1>1. CASE CallClose(t) \/ ForgetStream(t)
  BY <1>0, <1>1 DEF CallClose, ForgetStream
<1>2. CASE CheckClosed(t)
  <2>1. \/ pc' = [pc EXCEPT ![t] = Return(t)]
        \/ pc' = [pc EXCEPT ![t] = "close_mark"]
    BY <1>2 DEF CheckClosed
  <2>2. \E to \in Outside : pc[t] \in Outside /\ pc' = [pc EXCEPT ![t] = to]
    BY <1>2, <2>1, <1>r DEF CheckClosed
  <2>3. CanRun(t) /\ UNCHANGED <<async, kind, resume, usage, streamVars, attemptVars, routerVars>>
    BY <1>2 DEF CheckClosed
  <2>4. /\ kind' \in [Threads -> {"success", "error", "cancelled"}]
        /\ \A u \in Threads \ {t} : kind'[u] = kind[u]
        /\ Quiet
    BY <1>0, <2>3
  <2>. HIDE DEF Outside, Quiet
  <2>. QED BY <2>2, <2>3, <2>4, Zenon
<1>3. CASE MarkClosed(t)
  BY <1>0, <1>3 DEF MarkClosed
<1>4. CASE CloseIterator(t)
  BY <1>0, <1>4 DEF CloseIterator
<1>5. CASE IteratorCloses(t)
  BY <1>0, <1>5 DEF IteratorCloses
<1>6. CASE CheckFinalized(t) /\ finalized
  <2>1. pc' = [pc EXCEPT ![t] = Return(t)]
    BY <1>6 DEF CheckFinalized
  <2>2. \E to \in Outside : pc[t] \in Outside /\ pc' = [pc EXCEPT ![t] = to]
    BY <1>6, <2>1, <1>r DEF CheckFinalized
  <2>3. CanRun(t) /\ UNCHANGED <<async, kind, resume, usage, streamVars, attemptVars, routerVars>>
    BY <1>6 DEF CheckFinalized
  <2>4. /\ kind' \in [Threads -> {"success", "error", "cancelled"}]
        /\ \A u \in Threads \ {t} : kind'[u] = kind[u]
        /\ Quiet
    BY <1>0, <2>3
  <2>. HIDE DEF Outside, Quiet
  <2>. QED BY <2>2, <2>3, <2>4, Zenon
<1>7. CASE CloseCancelled(t)
  BY <1>0, <1>7 DEF CloseCancelled
<1>. QED BY <1>1, <1>2, <1>3, <1>4, <1>5, <1>6, <1>7 DEF CloseStream

LEMMA QuietKeeps ==
  ASSUME IInv, TypeOK', NEW t \in Threads, QuietMove(t)
  PROVE  UsageOK' /\ ClosesOnce' /\ PublishedOK' /\ AgreeOK'
<1>1. PICK to \in Outside : pc[t] \in Outside /\ pc' = [pc EXCEPT ![t] = to]
  BY DEF QuietMove
<1>2. \A u \in Threads : pc'[u] = pc[u] \/ (u = t /\ pc'[u] \in Outside /\ pc[u] \in Outside)
  BY <1>1 DEF IInv, TypeOK
<1>3. Quiet /\ CanRun(t)
  BY DEF QuietMove
<1>. USE DEF Quiet, attemptVars, Outside, Publishing, Closing
<1>4. UsageOK'
  <2>1. /\ claimUsage \in Nat /\ streamUsage \in Nat /\ streamUsage' \in Nat /\ read' \in Nat
    BY DEF IInv, TypeOK
  <2>. QED BY <1>2, <1>3, <2>1 DEF IInv, UsageOK
<1>5. ClosesOnce'
  BY <1>2, <1>3 DEF IInv, ClosesOnce, RouterReported
<1>6. PublishedOK'
  BY <1>2, <1>3 DEF IInv, PublishedOK, RouterReported
<1>7. AgreeOK'
  <2>. SUFFICES ASSUME async PROVE (OneRuns /\ ErrorsAgree)'
    BY <1>3 DEF AgreeOK
  <2>1. OneRuns /\ ErrorsAgree
    BY DEF IInv, AgreeOK
  <2>2. OneRuns'
    BY <1>2, <1>3, <2>1 DEF OneRuns, CanRun
  <2>3. \A u \in Threads : pc'[u] \in {"event", "usage", "publish"} => ErrorOf(kind[u])' = ErrorOf(kind[u])
    BY <1>2 DEF QuietMove, ErrorOf
  <2>4. ErrorsAgree'
    BY <1>2, <1>3, <2>1, <2>3 DEF ErrorsAgree, NoTerminalEvent
  <2>. QED BY <2>2, <2>4
<1>. QED BY <1>4, <1>5, <1>6, <1>7

-----------------------------------------------------------------------------
(* The terminal path and the closing of the Router                          *)

Terminal(t) ==
  \/ CheckFinalized(t) /\ ~finalized
  \/ CallFinalize(t)
  \/ Finalize(t) /\ ~CheckFinalized(t)

LEMMA UsageKept ==
  ASSUME IInv, TypeOK', NEW t \in Threads, Terminal(t)
  PROVE  UsageOK'
<1>. USE DEF IInv, Goto, streamVars, attemptVars, routerVars, UsageOK, Publishing
<1>0. pc \in [Threads -> Steps] /\ claimUsage \in Nat /\ streamUsage \in Nat /\ usage \in [Threads -> Nat]
  BY DEF TypeOK
<1>1. CASE CheckFinalized(t) /\ ~finalized
  BY <1>0, <1>1, ReturnType DEF CheckFinalized
<1>2. CASE ClaimFinalized(t)
  BY <1>0, <1>2 DEF ClaimFinalized
<1>3. CASE MarkError(t)
  BY <1>0, <1>3 DEF MarkError
<1>4. CASE RecordStreamEvent(t)
  BY <1>0, <1>4 DEF RecordStreamEvent
<1>5. CASE ApplyUsage(t)
  BY <1>0, <1>5 DEF ApplyUsage
<1>6. CASE PublishResult(t)
  BY <1>0, <1>6 DEF PublishResult, TryAggregate
<1>7. CASE CloseAttempt(t)
  BY <1>0, <1>7 DEF CloseAttempt, EndAttempt
<1>8. CASE CallFinalize(t)
  BY <1>0, <1>8 DEF CallFinalize
<1>9. CASE CloseRouter(t)
  BY <1>0, <1>9, ReturnType DEF CloseRouter
<1>10. CASE SnapshotOpen(t)
  BY <1>0, <1>10 DEF SnapshotOpen
<1>11. CASE ForceClose(t)
  BY <1>0, <1>11 DEF ForceClose, TryAggregate
<1>12. CASE CloseForced(t)
  BY <1>0, <1>12 DEF CloseForced, EndAttempt
<1>13. CASE ReportRouter(t)
  BY <1>0, <1>13, ReturnType DEF ReportRouter
<1>. QED
  BY <1>1, <1>2, <1>3, <1>4, <1>5, <1>6, <1>7, <1>8, <1>9, <1>10, <1>11, <1>12, <1>13 DEF Terminal, Finalize

LEMMA ClosesKept ==
  ASSUME IInv, TypeOK', NEW t \in Threads, Terminal(t)
  PROVE  ClosesOnce'
<1>. USE DEF IInv, Goto, streamVars, attemptVars, routerVars, ClosesOnce, Closing, RouterReported
<1>0. pc \in [Threads -> Steps] /\ claimUsage \in Nat /\ streamUsage \in Nat /\ usage \in [Threads -> Nat]
  BY DEF TypeOK
<1>1. CASE CheckFinalized(t) /\ ~finalized
  BY <1>0, <1>1, ReturnType DEF CheckFinalized
<1>2. CASE ClaimFinalized(t)
  BY <1>0, <1>2 DEF ClaimFinalized
<1>3. CASE MarkError(t)
  BY <1>0, <1>3 DEF MarkError
<1>4. CASE RecordStreamEvent(t)
  BY <1>0, <1>4 DEF RecordStreamEvent
<1>5. CASE ApplyUsage(t)
  BY <1>0, <1>5 DEF ApplyUsage
<1>6. CASE PublishResult(t)
  BY <1>0, <1>6 DEF PublishResult, TryAggregate
<1>7. CASE CloseAttempt(t)
  BY <1>0, <1>7 DEF CloseAttempt, EndAttempt
<1>8. CASE CallFinalize(t)
  BY <1>0, <1>8 DEF CallFinalize
<1>9. CASE CloseRouter(t)
  BY <1>0, <1>9, ReturnType DEF CloseRouter
<1>10. CASE SnapshotOpen(t)
  BY <1>0, <1>10 DEF SnapshotOpen
<1>11. CASE ForceClose(t)
  BY <1>0, <1>11 DEF ForceClose, TryAggregate
<1>12. CASE CloseForced(t)
  BY <1>0, <1>12 DEF CloseForced, EndAttempt
<1>13. CASE ReportRouter(t)
  BY <1>0, <1>13, ReturnType DEF ReportRouter
<1>. QED
  BY <1>1, <1>2, <1>3, <1>4, <1>5, <1>6, <1>7, <1>8, <1>9, <1>10, <1>11, <1>12, <1>13 DEF Terminal, Finalize

LEMMA PublishedKept ==
  ASSUME IInv, TypeOK', NEW t \in Threads, Terminal(t)
  PROVE  PublishedOK'
<1>. USE DEF IInv, Goto, streamVars, attemptVars, routerVars, PublishedOK, ClosesOnce, Closing, RouterReported
<1>0. pc \in [Threads -> Steps] /\ claimUsage \in Nat /\ streamUsage \in Nat /\ usage \in [Threads -> Nat]
  BY DEF TypeOK
<1>1. CASE CheckFinalized(t) /\ ~finalized
  BY <1>0, <1>1, ReturnType DEF CheckFinalized
<1>2. CASE ClaimFinalized(t)
  BY <1>0, <1>2 DEF ClaimFinalized
<1>3. CASE MarkError(t)
  BY <1>0, <1>3 DEF MarkError
<1>4. CASE RecordStreamEvent(t)
  BY <1>0, <1>4 DEF RecordStreamEvent
<1>5. CASE ApplyUsage(t)
  BY <1>0, <1>5 DEF ApplyUsage
<1>6. CASE PublishResult(t)
  BY <1>0, <1>6 DEF PublishResult, TryAggregate
<1>7. CASE CloseAttempt(t)
  BY <1>0, <1>7 DEF CloseAttempt, EndAttempt
<1>8. CASE CallFinalize(t)
  BY <1>0, <1>8 DEF CallFinalize
<1>9. CASE CloseRouter(t)
  BY <1>0, <1>9, ReturnType DEF CloseRouter
<1>10. CASE SnapshotOpen(t)
  BY <1>0, <1>10 DEF SnapshotOpen
<1>11. CASE ForceClose(t)
  BY <1>0, <1>11 DEF ForceClose, TryAggregate
<1>12. CASE CloseForced(t)
  BY <1>0, <1>12 DEF CloseForced, EndAttempt
<1>13. CASE ReportRouter(t)
  BY <1>0, <1>13, ReturnType DEF ReportRouter
<1>. QED
  BY <1>1, <1>2, <1>3, <1>4, <1>5, <1>6, <1>7, <1>8, <1>9, <1>10, <1>11, <1>12, <1>13 DEF Terminal, Finalize

LEMMA EndKeptByReader ==
  ASSUME IInv, ReadStream \/ Observe \/ CollectStream
  PROVE  EndOK'
<1>. USE DEF IInv, Goto, EnterFinalizer, Outside, streamVars, attemptVars, routerVars, EndOK
<1>0. /\ pc \in [Threads -> Steps] /\ Reader \in Threads
      /\ kind \in [Threads -> {"success", "error", "cancelled"}]
      /\ ended \in {"no", "end", "raise"}
  BY DEF TypeOK, Threads
<1>1. CASE WrapStream
  BY <1>0, <1>1 DEF WrapStream
<1>2. CASE CallNext
  BY <1>0, <1>2 DEF CallNext
<1>3. CASE ReceiveChunk
  BY <1>0, <1>3 DEF ReceiveChunk
<1>4. CASE StreamEnds
  BY <1>0, <1>4 DEF StreamEnds
<1>5. CASE StreamRaises
  BY <1>0, <1>5 DEF StreamRaises
<1>6. CASE ReaderCancelled
  BY <1>0, <1>6 DEF ReaderCancelled
<1>7. CASE ObserveChunk
  BY <1>0, <1>7 DEF ObserveChunk
<1>8. CASE RecordTtft
  BY <1>0, <1>8 DEF RecordTtft
<1>9. CASE RecordFirstToken
  BY <1>0, <1>9 DEF RecordFirstToken
<1>10. CASE ReaderCloses
  BY <1>0, <1>10 DEF ReaderCloses
<1>11. CASE ReaderExitsWithError
  BY <1>0, <1>11 DEF ReaderExitsWithError
<1>12. CASE DropStream
  BY <1>0, <1>12 DEF DropStream
<1>13. CASE CollectStream
  BY <1>0, <1>13 DEF CollectStream
<1>. QED
  BY <1>1, <1>2, <1>3, <1>4, <1>5, <1>6, <1>7, <1>8, <1>9, <1>10, <1>11, <1>12, <1>13
     DEF ReadStream, Observe

LEMMA EndKeptByCloser ==
  ASSUME IInv, NEW t \in Threads, 
         \/ (CallClose(t) \/ ForgetStream(t)) /\ t # Reader
         \/ CloseStream(t) \/ CloseCancelled(t) \/ IteratorCloses(t) \/ CheckFinalized(t)
  PROVE  EndOK'
<1>. USE DEF IInv, Goto, EnterFinalizer, Outside, streamVars, attemptVars, routerVars, EndOK
<1>0. /\ pc \in [Threads -> Steps] /\ Reader \in Threads
      /\ kind \in [Threads -> {"success", "error", "cancelled"}]
      /\ resume \in {"reading", "done"}
  BY DEF TypeOK, Threads
<1>1. CASE CallClose(t) /\ t # Reader
  BY <1>0, <1>1 DEF CallClose
<1>2. CASE ForgetStream(t) /\ t # Reader
  BY <1>0, <1>2 DEF ForgetStream
<1>3. CASE CheckClosed(t)
  BY <1>0, <1>3 DEF CheckClosed, Return
<1>4. CASE MarkClosed(t)
  BY <1>0, <1>4 DEF MarkClosed
<1>5. CASE CloseIterator(t)
  BY <1>0, <1>5 DEF CloseIterator
<1>6. CASE IteratorCloses(t)
  BY <1>0, <1>6 DEF IteratorCloses
<1>7. CASE CheckFinalized(t)
  BY <1>0, <1>7 DEF CheckFinalized, Return
<1>8. CASE CloseCancelled(t)
  BY <1>0, <1>8 DEF CloseCancelled
<1>. QED
  BY <1>1, <1>2, <1>3, <1>4, <1>5, <1>6, <1>7, <1>8 DEF CloseStream

LEMMA EndKeptByTerminal ==
  ASSUME IInv, NEW t \in Threads, Terminal(t), t = Reader => ~CallFinalize(t)
  PROVE  EndOK'
<1>. USE DEF IInv, Goto, EnterFinalizer, Outside, streamVars, attemptVars, routerVars, EndOK
<1>0. /\ pc \in [Threads -> Steps] /\ Reader \in Threads
      /\ kind \in [Threads -> {"success", "error", "cancelled"}]
      /\ resume \in {"reading", "done"}
  BY DEF TypeOK, Threads
<1>1. CASE CheckFinalized(t) /\ ~finalized
  BY <1>0, <1>1 DEF CheckFinalized, Return
<1>2. CASE ClaimFinalized(t)
  BY <1>0, <1>2 DEF ClaimFinalized
<1>3. CASE MarkError(t)
  BY <1>0, <1>3 DEF MarkError
<1>4. CASE RecordStreamEvent(t)
  BY <1>0, <1>4 DEF RecordStreamEvent
<1>5. CASE ApplyUsage(t)
  BY <1>0, <1>5 DEF ApplyUsage
<1>6. CASE PublishResult(t)
  BY <1>0, <1>6 DEF PublishResult, TryAggregate
<1>7. CASE CloseAttempt(t)
  BY <1>0, <1>7 DEF CloseAttempt, EndAttempt
<1>8. CASE CallFinalize(t)
  BY <1>0, <1>8 DEF CallFinalize
<1>9. CASE CloseRouter(t)
  BY <1>0, <1>9 DEF CloseRouter, Return
<1>10. CASE SnapshotOpen(t)
  BY <1>0, <1>10 DEF SnapshotOpen
<1>11. CASE ForceClose(t)
  BY <1>0, <1>11 DEF ForceClose, TryAggregate
<1>12. CASE CloseForced(t)
  BY <1>0, <1>12 DEF CloseForced, EndAttempt
<1>13. CASE ReportRouter(t)
  BY <1>0, <1>13 DEF ReportRouter, Return
<1>. QED
  BY <1>1, <1>2, <1>3, <1>4, <1>5, <1>6, <1>7, <1>8, <1>9, <1>10, <1>11, <1>12, <1>13 DEF Terminal, Finalize

LEMMA OneRunsKept ==
  ASSUME TypeOK, OneRuns, async, NEW t \in Threads, CanRun(t),
         NEW to, pc' = [pc EXCEPT ![t] = to]
  PROVE  OneRuns'
BY DEF TypeOK, OneRuns, CanRun

(* The one task that runs is past the first await: the others are at theirs. *)
LEMMA Alone ==
  ASSUME async, NEW t \in Threads, CanRun(t), NEW u \in Threads \ {t}
  PROVE  pc[u] \in Suspended
BY DEF CanRun

LEMMA TerminalRuns ==
  ASSUME NEW t \in Threads, Terminal(t)
  PROVE  CanRun(t) /\ async' = async /\ \E to : pc' = [pc EXCEPT ![t] = to]
<1>. USE DEF Goto
<1>1. CASE CheckFinalized(t) /\ ~finalized
  BY <1>1 DEF CheckFinalized
<1>2. CASE ClaimFinalized(t)
  BY <1>2 DEF ClaimFinalized
<1>3. CASE MarkError(t)
  BY <1>3 DEF MarkError
<1>4. CASE RecordStreamEvent(t)
  BY <1>4 DEF RecordStreamEvent
<1>5. CASE ApplyUsage(t)
  BY <1>5 DEF ApplyUsage
<1>6. CASE PublishResult(t)
  BY <1>6 DEF PublishResult
<1>7. CASE CloseAttempt(t)
  BY <1>7 DEF CloseAttempt
<1>8. CASE CallFinalize(t)
  BY <1>8 DEF CallFinalize
<1>9. CASE CloseRouter(t)
  BY <1>9 DEF CloseRouter
<1>10. CASE SnapshotOpen(t)
  BY <1>10 DEF SnapshotOpen
<1>11. CASE ForceClose(t)
  BY <1>11 DEF ForceClose
<1>12. CASE CloseForced(t)
  BY <1>12 DEF CloseForced
<1>13. CASE ReportRouter(t)
  BY <1>13 DEF ReportRouter
<1>. QED
  BY <1>1, <1>2, <1>3, <1>4, <1>5, <1>6, <1>7, <1>8, <1>9, <1>10, <1>11, <1>12, <1>13 DEF Terminal, Finalize

LEMMA ErrorsKept ==
  ASSUME IInv, TypeOK', async, NEW t \in Threads, Terminal(t)
  PROVE  ErrorsAgree'
<1>. USE DEF Goto, Suspended, streamVars, attemptVars, routerVars, ErrorsAgree, NoTerminalEvent
<1>0. /\ pc \in [Threads -> Steps]
      /\ ErrorsAgree
      /\ \A u \in Threads \ {t} : pc[u] \in Suspended
      /\ kind[t] \in {"success", "error", "cancelled"}
      /\ aggregated \in BOOLEAN /\ finalized \in BOOLEAN /\ attReport \in {"none", "OK", "ERROR"}
  BY TerminalRuns, Alone DEF IInv, AgreeOK, TypeOK
<1>1. CASE CheckFinalized(t) /\ ~finalized
  BY <1>0, <1>1 DEF CheckFinalized
<1>2. CASE ClaimFinalized(t)
  BY <1>0, <1>2 DEF ClaimFinalized, ErrorOf
<1>3. CASE MarkError(t)
  BY <1>0, <1>3 DEF MarkError
<1>4. CASE RecordStreamEvent(t)
  <2>1. PICK e : /\ routerEvents' = routerEvents \cup {e}
                 /\ e \in {"stream_completed", "response_failed", "stream_cancelled"}
    BY <1>0, <1>4 DEF RecordStreamEvent
  <2>2. /\ pc[t] = "event" /\ pc' = [pc EXCEPT ![t] = "usage"]
        /\ UNCHANGED <<kind, finalized, aggregated, attError, attReport, result>>
    BY <1>4 DEF RecordStreamEvent
  <2>3. finalized
    BY <2>2 DEF IInv, UsageOK, Publishing
  <2>. QED BY <1>0, <2>1, <2>2, <2>3
<1>5. CASE ApplyUsage(t)
  BY <1>0, <1>5 DEF ApplyUsage
<1>6. CASE PublishResult(t)
  <2>1. /\ pc[t] = "publish" /\ pc' = [pc EXCEPT ![t] = "close_attempt"]
        /\ UNCHANGED <<kind, finalized, attError, attReport, routerEvents>>
        /\ aggregated' = TRUE
        /\ ~aggregated => result'.error = ErrorOf(kind[t])
        /\ aggregated => result' = result
    BY <1>6 DEF PublishResult, TryAggregate
  <2>2. aggregated => attReport # "none"
    BY <1>0, <2>1
  <2>3. ~aggregated => attReport = "none"
    BY <1>0 DEF IInv, PublishedOK
  <2>. QED BY <1>0, <2>1, <2>2, <2>3
<1>7. CASE CloseAttempt(t)
  BY <1>0, <1>7 DEF CloseAttempt, EndAttempt
<1>8. CASE CallFinalize(t)
  BY <1>0, <1>8 DEF CallFinalize
<1>9. CASE CloseRouter(t)
  <2>1. /\ pc[t] = "router_close" /\ \E to \in {"reading", "done", "snapshot"} : pc' = [pc EXCEPT ![t] = to]
        /\ UNCHANGED <<kind, finalized, attError, attReport, aggregated, routerEvents, result>>
    BY <1>9, ReturnType DEF CloseRouter, IInv
  <2>. QED BY <1>0, <2>1
<1>10. CASE SnapshotOpen(t)
  BY <1>0, <1>10 DEF SnapshotOpen
<1>11. CASE ForceClose(t)
  BY <1>0, <1>11 DEF ForceClose, TryAggregate
<1>12. CASE CloseForced(t)
  BY <1>0, <1>12 DEF CloseForced, EndAttempt
<1>13. CASE ReportRouter(t)
  <2>1. /\ pc[t] = "router_report" /\ \E to \in {"reading", "done"} : pc' = [pc EXCEPT ![t] = to]
        /\ UNCHANGED <<kind, finalized, attError, attReport, aggregated, result>>
    BY <1>13, ReturnType DEF ReportRouter, IInv
  <2>2. \E e \in {"response_failed", "response_completed"} : routerEvents' = routerEvents \cup {e}
    BY <1>13 DEF ReportRouter
  <2>. QED BY <1>0, <2>1, <2>2
<1>. QED
  BY <1>1, <1>2, <1>3, <1>4, <1>5, <1>6, <1>7, <1>8, <1>9, <1>10, <1>11, <1>12, <1>13 DEF Terminal, Finalize

LEMMA InvKept == IInv /\ [Next]_vars => IInv'
<1>. SUFFICES ASSUME IInv, [Next]_vars PROVE IInv'
  OBVIOUS
<1>0. TypeOK' /\ streamUsage <= read
  BY TypeKept DEF IInv, UsageOK
<1>1. CASE UNCHANGED vars
  BY <1>0, <1>1 DEF vars, streamVars, attemptVars, routerVars, IInv, UsageOK, ClosesOnce, PublishedOK,
     EndOK, AgreeOK, OneRuns, ErrorsAgree, NoTerminalEvent, RouterReported, ErrorOf
<1>2. CASE ReadStream \/ Observe \/ CollectStream
  <2>1. EndOK'
    BY <1>2, EndKeptByReader
  <2>2. QuietMove(Reader) /\ Reader \in Threads
    BY <1>0, <1>2, ReaderIsQuiet DEF IInv, Threads
  <2>. QED BY <1>0, <2>1, <2>2, QuietKeeps DEF IInv
<1>3. ASSUME NEW t \in Threads,
             \/ (CallClose(t) \/ ForgetStream(t)) /\ t # Reader
             \/ CloseStream(t) \/ CloseCancelled(t) \/ IteratorCloses(t)
             \/ CheckFinalized(t) /\ finalized
      PROVE  IInv'
  <2>1. EndOK'
    BY <1>3, EndKeptByCloser
  <2>2. QuietMove(t)
    BY <1>0, <1>3, CloserIsQuiet DEF IInv
  <2>. QED BY <1>0, <2>1, <2>2, QuietKeeps DEF IInv
<1>4. ASSUME NEW t \in Threads, Terminal(t), t = Reader => ~CallFinalize(t)
      PROVE  IInv'
  <2>1. UsageOK' /\ ClosesOnce' /\ PublishedOK' /\ EndOK'
    BY <1>0, <1>4, UsageKept, ClosesKept, PublishedKept, EndKeptByTerminal
  <2>2. ASSUME async PROVE OneRuns' /\ ErrorsAgree'
    <3>1. OneRuns /\ TypeOK
      BY <2>2 DEF IInv, AgreeOK
    <3>2. PICK to : CanRun(t) /\ pc' = [pc EXCEPT ![t] = to]
      BY <1>4, TerminalRuns
    <3>3. OneRuns'
      BY <2>2, <3>1, <3>2, OneRunsKept
    <3>. QED BY <1>0, <1>4, <2>2, <3>3, ErrorsKept
  <2>3. async' = async
    BY <1>4, TerminalRuns
  <2>. QED BY <1>0, <2>1, <2>2, <2>3 DEF IInv, AgreeOK
<1>5. \A t \in Threads : Finalize(t) => Terminal(t) \/ (CheckFinalized(t) /\ finalized)
  BY DEF Terminal, Finalize
<1>6. ASSUME NEW t \in Threads, Finalize(t) PROVE IInv'
  <2>1. ~CallFinalize(t) \/ t # Reader
    <3>. SUFFICES ASSUME CallFinalize(t) PROVE FALSE
      BY DEF Terminal
    <3>1. pc[t] = "idle"
      BY DEF CallFinalize, Goto
    <3>. QED BY <1>6, <3>1 DEF Finalize, CheckFinalized, ClaimFinalized, MarkError, RecordStreamEvent,
                   ApplyUsage, PublishResult, CloseAttempt, CloseRouter, SnapshotOpen, ForceClose,
                   CloseForced, ReportRouter, Goto
  <2>. QED BY <1>3, <1>4, <1>5, <1>6, <2>1
<1>7. ASSUME NEW f \in Finalizers, CallFinalize(f) PROVE IInv'
  BY <1>4, <1>7, StreamAssumption DEF Terminal, Threads
<1>8. ASSUME NEW c \in Closers, CallClose(c) \/ ForgetStream(c) PROVE IInv'
  BY <1>3, <1>8, StreamAssumption DEF Threads
<1>. QED
  BY <1>1, <1>2, <1>3, <1>6, <1>7, <1>8 DEF Next, Terminated

LEMMA InvInit == Init => IInv
<1>. SUFFICES ASSUME Init PROVE IInv
  OBVIOUS
<1>. USE DEF Init
<1>1. TypeOK
  BY TypeInit
<1>2. UsageOK
  BY DEF UsageOK, Publishing, NoResult
<1>3. ClosesOnce /\ PublishedOK
  BY DEF ClosesOnce, PublishedOK, Closing, RouterReported
<1>4. EndOK
  BY DEF EndOK, NoResult
<1>5. AgreeOK
  BY DEF AgreeOK, OneRuns, ErrorsAgree, NoTerminalEvent, Suspended
<1>. QED BY <1>1, <1>2, <1>3, <1>4, <1>5 DEF IInv

LEMMA StreamInvariant == Spec => []IInv
BY InvInit, InvKept, PTL DEF Spec

-----------------------------------------------------------------------------
(* The record of the Router has the result of the stream, with the usage    *)
(* captured before its terminal path, whoever closes the Router and when.   *)
THEOREM RecordHasResult == Spec => []RecordReflectsStream
<1>1. IInv => RecordReflectsStream
  <2>. SUFFICES ASSUME IInv PROVE RecordReflectsStream
    OBVIOUS
  <2>1. RouterReported => aggregated /\ routerReport.result = result
    BY DEF IInv, PublishedOK
  <2>2. ~RouterReported => routerReport.result.source = "none"
    BY DEF RouterReported, NoReport, NoResult
  <2>3. result.source = "stream" => result.usage >= result.known
    BY DEF IInv, UsageOK, TypeOK, Results
  <2>. QED BY <2>1, <2>2, <2>3 DEF RecordReflectsStream
<1>. QED BY <1>1, StreamInvariant, PTL

(* No result is a success before the upstream's own end, unless the stream  *)
(* was closed; handle.finalize in the middle of a stream makes none.        *)
THEOREM SuccessNeedsEnd == Spec => []SuccessOnlyAtEnd
<1>1. IInv => SuccessOnlyAtEnd
  BY DEF IInv, EndOK, SuccessOnlyAtEnd
<1>. QED BY <1>1, StreamInvariant, PTL

(* On an event loop the stream has one outcome, and the Router and its      *)
(* Attempt agree on it, for any tasks that close and finalize.              *)
THEOREM OneOutcome == Spec => []TerminalStatesAgree
<1>1. IInv => TerminalStatesAgree
  BY DEF IInv, AgreeOK, ErrorsAgree, PublishedOK, TerminalStatesAgree
<1>. QED BY <1>1, StreamInvariant, PTL
=============================================================================
