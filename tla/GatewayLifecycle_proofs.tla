------------------------ MODULE GatewayLifecycle_proofs ------------------------
(* Machine-checked theorems of GatewayLifecycle, for any finite set of        *)
(* Attempts and any set of closing threads.                                   *)
EXTENDS GatewayLifecycle, TLAPS, FiniteSetTheorems

-----------------------------------------------------------------------------
LEMMA SubjectIsAttempt ==
  ASSUME TypeInv, NEW t \in Threads, pc[t] \in CloseLabels
  PROVE  Subject(t) \in Attempts
BY DEF TypeInv, TargetOK, Subject, Threads

LEMMA InitTypeInv == Init => TypeInv
<1>. SUFFICES ASSUME Init PROVE TypeOK /\ TargetOK
  BY DEF TypeInv
<1>. USE LifecycleAssumption DEF Init
<1>1. TypeOK
  BY DEF TypeOK, NoRecord, WorkerLabels, CloserLabels, Threads, Statuses, Errors
<1>2. TargetOK
  BY DEF TargetOK, CloseLabels, ForceLabels, Threads
<1>. QED BY <1>1, <1>2

LEMMA AttemptCountType == ASSUME TypeOK PROVE AttemptCount \in Nat
<1>1. Activated \subseteq Attempts
  BY DEF Activated
<1>. QED BY <1>1, LifecycleAssumption, FS_Subset, FS_CardinalityType DEF AttemptCount

LEMMA WorkerTypeInv ==
  ASSUME TypeInv, NEW a \in Attempts,
         StartAttempt(a) \/ UseAttempt(a) \/ FinishAttempt(a)
  PROVE  TypeInv'
<1>. USE LifecycleAssumption
     DEF TypeInv, TypeOK, TargetOK, WorkerLabels, CloserLabels, CloseLabels, ForceLabels,
         Threads, Statuses, Errors, AttemptEvents, Goto, Free, Acquire, Release,
         threadVars, openVars, aggregateVars, routerSpanVars, flagVars, attemptSpanVars
<1>1. CASE CreateAttempt(a)
  BY <1>1 DEF CreateAttempt
<1>2. CASE RegisterAttempt(a)
  BY <1>2 DEF RegisterAttempt
<1>3. CASE ActivateAttempt(a)
  BY <1>3, AttemptCountType DEF ActivateAttempt
<1>4. CASE DiscardRejected(a)
  BY <1>4 DEF DiscardRejected
<1>5. CASE InstallContext(a)
  BY <1>5 DEF InstallContext
<1>6. CASE RecheckInstall(a)
  BY <1>6 DEF RecheckInstall
<1>7. CASE RecordStarted(a)
  BY <1>7 DEF RecordStarted
<1>8. CASE BeginFinish(a)
  BY <1>8 DEF BeginFinish
<1>9. CASE FinishSetError(a)
  BY <1>9 DEF FinishSetError
<1>10. CASE FinishSetFlag(a)
  BY <1>10 DEF FinishSetFlag
<1>11. CASE FinishRecordEvent(a)
  BY <1>11 DEF FinishRecordEvent
<1>12. CASE FinishAggregate(a)
  BY <1>12 DEF FinishAggregate, TryAggregate, RegisterAttemptResult
<1>13. CASE CallClose(a)
  BY <1>13 DEF CallClose
<1>14. CASE ExitWithError(a)
  BY <1>14 DEF ExitWithError
<1>15. CASE Abandon(a)
  BY <1>15 DEF Abandon
<1>. QED
  BY <1>1, <1>2, <1>3, <1>4, <1>5, <1>6, <1>7, <1>8, <1>9, <1>10, <1>11, <1>12,
     <1>13, <1>14, <1>15 DEF StartAttempt, UseAttempt, FinishAttempt

LEMMA CloseTypeInv ==
  ASSUME TypeInv, NEW t \in Threads, CloseAttempt(t)
  PROVE  TypeInv'
<1>. DEFINE a == Subject(t)
<1>1. pc[t] \in CloseLabels
  BY DEF CloseAttempt, CloseEnter, CloseStatus, CloseEvent, CloseEnd, CloseUnregister,
         CloseCleanup, CloseLabels, Goto
<1>2. a \in Attempts
  BY <1>1, SubjectIsAttempt
<1>3. AfterClose(t) \in {"done", "force"} /\ (AfterClose(t) = "force" => t \in Closers)
                                         /\ (t \in Closers => AfterClose(t) = "force")
  BY LifecycleAssumption DEF AfterClose, Threads
<1>. HIDE DEF a
<1>. USE LifecycleAssumption, <1>1, <1>2, <1>3
     DEF TypeInv, TypeOK, TargetOK, WorkerLabels, CloserLabels, CloseLabels, ForceLabels,
         Threads, Statuses, Errors, AttemptEvents, Goto, Free, Acquire, Release,
         threadVars, openVars, aggregateVars, routerSpanVars, flagVars, attemptSpanVars
<1>4. CASE CloseEnter(t, a)
  BY <1>4, SMTT(30) DEF CloseEnter
<1>5. CASE CloseStatus(t, a)
  BY <1>5 DEF CloseStatus
<1>6. CASE CloseEvent(t, a)
  BY <1>6 DEF CloseEvent
<1>7. CASE CloseEnd(t, a)
  BY <1>7 DEF CloseEnd
<1>8. CASE CloseUnregister(t, a)
  BY <1>8 DEF CloseUnregister
<1>9. CASE CloseCleanup(t, a)
  BY <1>9 DEF CloseCleanup
<1>. QED BY <1>4, <1>5, <1>6, <1>7, <1>8, <1>9 DEF CloseAttempt, a

LEMMA CloserTypeInv ==
  ASSUME TypeInv, NEW c \in Closers,
         CallRouterClose(c) \/ RouterExitWithError(c) \/ ForceClose(c) \/ FinalizeRouter(c)
  PROVE  TypeInv'
<1>. USE LifecycleAssumption
     DEF TypeInv, TypeOK, TargetOK, WorkerLabels, CloserLabels, CloseLabels, ForceLabels,
         Threads, Statuses, Errors, RouterEvents, Goto, Free, Acquire, Release,
         threadVars, openVars, aggregateVars, routerSpanVars, flagVars, attemptSpanVars
<1>1. CASE CallRouterClose(c)
  BY <1>1 DEF CallRouterClose
<1>2. CASE RouterExitWithError(c)
  BY <1>2 DEF RouterExitWithError
<1>3. CASE ForceNext(c)
  <2>1. CASE pending[c] = {}
    BY <1>3, <2>1, SMTT(30) DEF ForceNext
  <2>2. ASSUME NEW a \in pending[c],
               target' = [target EXCEPT ![c] = a],
               pending' = [pending EXCEPT ![c] = @ \ {a}],
               closing' = closing \cup {a},
               pc' = [pc EXCEPT ![c] = "force_lock"]
        PROVE  TypeInv'
    BY <1>3, <2>2 DEF ForceNext
  <2>. QED BY <1>3, <2>1, <2>2 DEF ForceNext
<1>4. CASE ForceEnter(c, target[c])
  BY <1>4, SMTT(30) DEF ForceEnter
<1>5. CASE ForceMark(c, target[c])
  BY <1>5 DEF ForceMark
<1>6. CASE ForceAggregate(c, target[c])
  BY <1>6 DEF ForceAggregate, TryAggregate, RegisterAttemptResult
<1>7. CASE RouterClose(c)
  BY <1>7 DEF RouterClose
<1>8. CASE SnapshotOpen(c)
  BY <1>8 DEF SnapshotOpen
<1>9. CASE RouterTerminalEvent(c)
  BY <1>9 DEF RouterTerminalEvent
<1>10. CASE ApplyAggregates(c)
  BY <1>10, AttemptCountType DEF ApplyAggregates
<1>11. CASE ApplyFinalStatus(c)
  BY <1>11 DEF ApplyFinalStatus
<1>12. CASE ReportRouter(c)
  BY <1>12 DEF ReportRouter
<1>13. CASE CleanupRouter(c)
  BY <1>13 DEF CleanupRouter
<1>. QED
  BY <1>1, <1>2, <1>3, <1>4, <1>5, <1>6, <1>7, <1>8, <1>9, <1>10, <1>11, <1>12, <1>13
     DEF ForceClose, FinalizeRouter

LEMMA NextTypeInv == TypeInv /\ [Next]_vars => TypeInv'
<1>. SUFFICES ASSUME TypeInv, [Next]_vars PROVE TypeInv'
  OBVIOUS
<1>1. CASE UNCHANGED vars
  BY <1>1 DEF TypeInv, TypeOK, TargetOK, vars, threadVars, openVars, aggregateVars,
              routerSpanVars, flagVars, attemptSpanVars
<1>2. CASE Terminated
  BY <1>1, <1>2 DEF Terminated
<1>. QED BY <1>1, <1>2, WorkerTypeInv, CloseTypeInv, CloserTypeInv DEF Next

(* Type correctness: every thread stays among its own steps of the calls of   *)
(* attempt_span.py, runtime.py and router_span.py, and every field in its     *)
(* range, for any number of threads.                                          *)
THEOREM TypeCorrect == Spec => []TypeOK
<1>1. TypeInv => TypeOK
  BY DEF TypeInv
<1>. QED BY <1>1, InitTypeInv, NextTypeInv, PTL DEF Spec

-----------------------------------------------------------------------------
(* Exactly-once aggregation                                                  *)

LEMMA TryAggregateCounts ==
  ASSUME TypeOK, ExactlyOnceAggregation, NEW a \in Attempts, NEW ok, NEW e,
         TryAggregate(a, ok, e)
  PROVE  ExactlyOnceAggregation'
<1>1. CASE a \in aggregated
  BY <1>1 DEF TryAggregate, aggregateVars, ExactlyOnceAggregation
<1>2. CASE a \notin aggregated
  <2>0. aggregated \in SUBSET Attempts
    BY DEF TypeOK
  <2>1. IsFiniteSet(aggregated)
    BY <2>0, LifecycleAssumption, FS_Subset
  <2>2. Cardinality(aggregated \cup {a}) = Cardinality(aggregated) + 1
    BY <1>2, <2>1, FS_AddElement
  <2>3. Cardinality(aggregated) \in Nat
    BY <2>1, FS_CardinalityType
  <2>4. success \in Nat /\ fail \in Nat
    BY DEF TypeOK
  <2>5. aggregated' = aggregated \cup {a} /\ success' + fail' = success + fail + 1
    BY <1>2, <2>4 DEF TryAggregate, RegisterAttemptResult
  <2>. QED
    BY <2>2, <2>3, <2>4, <2>5 DEF ExactlyOnceAggregation
<1>. QED BY <1>1, <1>2

LEMMA AggregateUntouched ==
  ASSUME ExactlyOnceAggregation, UNCHANGED <<success, fail, aggregated>>
  PROVE  ExactlyOnceAggregation'
BY DEF ExactlyOnceAggregation

LEMMA NextExactlyOnce ==
  TypeInv /\ ExactlyOnceAggregation /\ [Next]_vars => ExactlyOnceAggregation'
<1>. SUFFICES ASSUME TypeInv, ExactlyOnceAggregation, [Next]_vars
              PROVE  ExactlyOnceAggregation'
  OBVIOUS
<1>. USE AggregateUntouched DEF aggregateVars, flagVars
<1>1. CASE UNCHANGED vars \/ Terminated
  BY <1>1 DEF vars, Terminated
<1>2. ASSUME NEW a \in Attempts, StartAttempt(a) \/ UseAttempt(a)
      PROVE  ExactlyOnceAggregation'
  BY <1>2 DEF StartAttempt, UseAttempt, CreateAttempt, RegisterAttempt, ActivateAttempt,
     DiscardRejected, InstallContext, RecheckInstall, RecordStarted, BeginFinish,
     CallClose, ExitWithError, Abandon
<1>3. ASSUME NEW a \in Attempts, FinishAttempt(a)
      PROVE  ExactlyOnceAggregation'
  <2>1. CASE FinishAggregate(a)
    BY <2>1, TryAggregateCounts DEF FinishAggregate, TypeInv
  <2>. QED BY <1>3, <2>1 DEF FinishAttempt, FinishSetError, FinishSetFlag, FinishRecordEvent
<1>4. ASSUME NEW t \in Threads, CloseAttempt(t)
      PROVE  ExactlyOnceAggregation'
  BY <1>4 DEF CloseAttempt, CloseEnter, CloseStatus, CloseEvent, CloseEnd,
     CloseUnregister, CloseCleanup
<1>5. ASSUME NEW c \in Closers, ForceClose(c)
      PROVE  ExactlyOnceAggregation'
  <2>1. CASE ForceAggregate(c, target[c])
    <3>1. target[c] \in Attempts
      BY <2>1 DEF ForceAggregate, Goto, TypeInv, TargetOK, ForceLabels
    <3>. QED BY <2>1, <3>1, TryAggregateCounts DEF ForceAggregate, TypeInv
  <2>. QED BY <1>5, <2>1 DEF ForceClose, ForceNext, ForceEnter, ForceMark
<1>6. ASSUME NEW c \in Closers,
             CallRouterClose(c) \/ RouterExitWithError(c) \/ FinalizeRouter(c)
      PROVE  ExactlyOnceAggregation'
  BY <1>6 DEF CallRouterClose, RouterExitWithError, FinalizeRouter, RouterClose,
     SnapshotOpen, RouterTerminalEvent, ApplyAggregates, ApplyFinalStatus, ReportRouter,
     CleanupRouter
<1>. QED BY <1>1, <1>2, <1>3, <1>4, <1>5, <1>6 DEF Next

(* However finish_attempt, the owner's close and force_close interleave, the *)
(* Router's success_count + fail_count is the number of Attempts whose       *)
(* result was aggregated: no result is lost or counted twice.                *)
THEOREM AggregatedExactlyOnce == Spec => []ExactlyOnceAggregation
<1>1. Init => ExactlyOnceAggregation
  BY FS_EmptySet DEF Init, ExactlyOnceAggregation
<1>. QED BY <1>1, InitTypeInv, NextTypeInv, NextExactlyOnce, PTL DEF Spec

-----------------------------------------------------------------------------
(* No orphan: the Router record never overtakes an Attempt record            *)

OrphanRest == LockOK /\ ActivationOK /\ ReportOK /\ ClosingOK /\ FindableOK /\ CloserOK

LEMMA WorkerOrphan ==
  ASSUME TypeInv, OrphanRest, NEW a \in Attempts,
         StartAttempt(a) \/ UseAttempt(a) \/ FinishAttempt(a)
  PROVE  OrphanRest'
<1>. USE LifecycleAssumption
     DEF OrphanRest, TypeInv, TypeOK, TargetOK, LockOK, ActivationOK, ReportOK, ClosingOK,
         FindableOK, CloserOK, Goto, Free, Acquire, Release, Threads, Subject, Finalizing, CloseLabels,
         ForceLabels, ReportTail, Unreported, Reported, Holding, Unactivated, WorkerLabels,
         CloserLabels, AfterClose,
         threadVars, openVars, aggregateVars, routerSpanVars, flagVars, attemptSpanVars
<1>1. CASE CreateAttempt(a)
  <2>1. LockOK'
    BY <1>1 DEF CreateAttempt
  <2>2. ActivationOK'
    BY <1>1 DEF CreateAttempt
  <2>3. ReportOK'
    BY <1>1 DEF CreateAttempt
  <2>4. ClosingOK'
    BY <1>1 DEF CreateAttempt
  <2>5. FindableOK'
    BY <1>1 DEF CreateAttempt
  <2>6. CloserOK'
    BY <1>1, SMTT(30) DEF CreateAttempt
  <2>. QED BY <2>1, <2>2, <2>3, <2>4, <2>5, <2>6
<1>2. CASE RegisterAttempt(a)
  BY <1>2 DEF RegisterAttempt
<1>3. CASE ActivateAttempt(a)
  <2>0. AttemptCount + 1 \in Nat /\ AttemptCount + 1 > 0
    BY AttemptCountType
  <2>1. LockOK'
    BY <1>3, <2>0 DEF ActivateAttempt
  <2>2. ActivationOK'
    BY <1>3, <2>0, SMTT(30) DEF ActivateAttempt
  <2>3. ReportOK'
    BY <1>3, <2>0 DEF ActivateAttempt
  <2>4. ClosingOK'
    BY <1>3, <2>0 DEF ActivateAttempt
  <2>5. FindableOK'
    BY <1>3, <2>0 DEF ActivateAttempt
  <2>6. CloserOK'
    BY <1>3, <2>0 DEF ActivateAttempt
  <2>. QED BY <2>1, <2>2, <2>3, <2>4, <2>5, <2>6
<1>4. CASE DiscardRejected(a)
  BY <1>4 DEF DiscardRejected
<1>5. CASE InstallContext(a)
  <2>1. LockOK'
    BY <1>5 DEF InstallContext
  <2>2. ActivationOK'
    BY <1>5 DEF InstallContext
  <2>3. ReportOK'
    BY <1>5 DEF InstallContext
  <2>4. ClosingOK'
    BY <1>5 DEF InstallContext
  <2>5. FindableOK'
    BY <1>5 DEF InstallContext
  <2>6. CloserOK'
    BY <1>5, SMTT(30) DEF InstallContext
  <2>. QED BY <2>1, <2>2, <2>3, <2>4, <2>5, <2>6
<1>6. CASE RecheckInstall(a)
  BY <1>6, SMTT(30) DEF RecheckInstall
<1>7. CASE RecordStarted(a)
  BY <1>7 DEF RecordStarted
<1>8. CASE BeginFinish(a)
  BY <1>8 DEF BeginFinish
<1>9. CASE FinishSetError(a)
  BY <1>9 DEF FinishSetError
<1>10. CASE FinishSetFlag(a)
  BY <1>10 DEF FinishSetFlag
<1>11. CASE FinishRecordEvent(a)
  BY <1>11, SMTT(30) DEF FinishRecordEvent
<1>12. CASE FinishAggregate(a)
  BY <1>12 DEF FinishAggregate
<1>13. CASE CallClose(a)
  BY <1>13 DEF CallClose
<1>14. CASE ExitWithError(a)
  BY <1>14 DEF ExitWithError
<1>15. CASE Abandon(a)
  BY <1>15 DEF Abandon
<1>. QED BY <1>1, <1>2, <1>3, <1>4, <1>5, <1>6, <1>7, <1>8, <1>9, <1>10, <1>11, <1>12, <1>13, <1>14, <1>15 DEF StartAttempt, UseAttempt, FinishAttempt

LEMMA CloseOrphan ==
  ASSUME TypeInv, OrphanRest, NEW t \in Threads, CloseAttempt(t)
  PROVE  OrphanRest'
<1>. USE LifecycleAssumption
     DEF OrphanRest, TypeInv, TypeOK, TargetOK, LockOK, ActivationOK, ReportOK, ClosingOK,
         FindableOK, CloserOK, Goto, Free, Acquire, Release, Threads, Subject, Finalizing, CloseLabels,
         ForceLabels, ReportTail, Unreported, Reported, Holding, Unactivated, WorkerLabels,
         CloserLabels, AfterClose,
         threadVars, openVars, aggregateVars, routerSpanVars, flagVars, attemptSpanVars
<1>1. CASE CloseEnter(t, Subject(t))
  <2>1. LockOK'
    BY <1>1, SMTT(30) DEF CloseEnter
  <2>2. ActivationOK'
    BY <1>1, SMTT(30) DEF CloseEnter
  <2>3. ReportOK'
    BY <1>1, SMTT(30) DEF CloseEnter
  <2>4. ClosingOK'
    BY <1>1, SMTT(30) DEF CloseEnter
  <2>5. FindableOK'
    BY <1>1, SMTT(30) DEF CloseEnter
  <2>6. CloserOK'
    BY <1>1, SMTT(30) DEF CloseEnter
  <2>. QED BY <2>1, <2>2, <2>3, <2>4, <2>5, <2>6
<1>2. CASE CloseStatus(t, Subject(t))
  BY <1>2 DEF CloseStatus
<1>3. CASE CloseEvent(t, Subject(t))
  BY <1>3 DEF CloseEvent
<1>4. CASE CloseEnd(t, Subject(t))
  BY <1>4 DEF CloseEnd
<1>5. CASE CloseUnregister(t, Subject(t))
  BY <1>5 DEF CloseUnregister
<1>6. CASE CloseCleanup(t, Subject(t))
  <2>1. LockOK'
    BY <1>6 DEF CloseCleanup
  <2>2. ActivationOK'
    BY <1>6 DEF CloseCleanup
  <2>3. ReportOK'
    BY <1>6 DEF CloseCleanup
  <2>4. ClosingOK'
    BY <1>6 DEF CloseCleanup
  <2>5. FindableOK'
    BY <1>6 DEF CloseCleanup
  <2>6. CloserOK'
    BY <1>6 DEF CloseCleanup
  <2>. QED BY <2>1, <2>2, <2>3, <2>4, <2>5, <2>6
<1>. QED BY <1>1, <1>2, <1>3, <1>4, <1>5, <1>6 DEF CloseAttempt

LEMMA CloserOrphan ==
  ASSUME TypeInv, OrphanRest, NEW c \in Closers,
         CallRouterClose(c) \/ RouterExitWithError(c) \/ ForceClose(c) \/ FinalizeRouter(c)
  PROVE  OrphanRest'
<1>. USE LifecycleAssumption
     DEF OrphanRest, TypeInv, TypeOK, TargetOK, LockOK, ActivationOK, ReportOK, ClosingOK,
         FindableOK, CloserOK, Goto, Free, Acquire, Release, Threads, Subject, Finalizing, CloseLabels,
         ForceLabels, ReportTail, Unreported, Reported, Holding, Unactivated, WorkerLabels,
         CloserLabels, AfterClose,
         threadVars, openVars, aggregateVars, routerSpanVars, flagVars, attemptSpanVars
<1>1. CASE CallRouterClose(c)
  BY <1>1 DEF CallRouterClose
<1>2. CASE RouterExitWithError(c)
  BY <1>2, SMTT(30) DEF RouterExitWithError
<1>3. CASE ForceNext(c)
  <2>1. CASE pending[c] = {}
    <3>1. LockOK'
      BY <1>3, <2>1 DEF ForceNext
    <3>2. ActivationOK'
      BY <1>3, <2>1 DEF ForceNext
    <3>3. ReportOK'
      BY <1>3, <2>1, SMTT(30) DEF ForceNext
    <3>4. ClosingOK'
      BY <1>3, <2>1 DEF ForceNext
    <3>5. FindableOK'
      BY <1>3, <2>1 DEF ForceNext
    <3>6. CloserOK'
      BY <1>3, <2>1 DEF ForceNext
    <3>. QED BY <3>1, <3>2, <3>3, <3>4, <3>5, <3>6
  <2>2. ASSUME NEW a \in pending[c],
               target' = [target EXCEPT ![c] = a],
               pending' = [pending EXCEPT ![c] = @ \ {a}],
               closing' = closing \cup {a},
               pc[c] = "force",
               pc' = [pc EXCEPT ![c] = "force_lock"]
        PROVE  OrphanRest'
    <3>0. UNCHANGED <<outcome, lock, openVars, aggregateVars, routerSpanVars, registry,
                      noOp, closed, aggregated, termFlag, ctx, attemptSpanVars>>
      BY <1>3 DEF ForceNext
    <3>1. LockOK'
      BY <2>2, <3>0, SMTT(30)
    <3>2. ActivationOK'
      BY <2>2, <3>0, SMTT(30)
    <3>3. ReportOK'
      BY <2>2, <3>0, SMTT(30)
    <3>4. ClosingOK'
      BY <2>2, <3>0, SMTT(30)
    <3>5. FindableOK'
      BY <2>2, <3>0, SMTT(30)
    <3>6. CloserOK'
      BY <2>2, <3>0, SMTT(30)
    <3>. QED BY <3>1, <3>2, <3>3, <3>4, <3>5, <3>6
  <2>. QED BY ONLY <1>3, <2>1, <2>2 DEF ForceNext
<1>4. CASE ForceEnter(c, target[c])
  BY <1>4, SMTT(30) DEF ForceEnter
<1>5. CASE ForceMark(c, target[c])
  BY <1>5, SMTT(30) DEF ForceMark
<1>6. CASE ForceAggregate(c, target[c])
  <2>1. LockOK'
    BY <1>6 DEF ForceAggregate
  <2>2. ActivationOK'
    BY <1>6 DEF ForceAggregate
  <2>3. ReportOK'
    BY <1>6 DEF ForceAggregate
  <2>4. ClosingOK'
    BY <1>6 DEF ForceAggregate
  <2>5. FindableOK'
    BY <1>6 DEF ForceAggregate
  <2>6. CloserOK'
    BY <1>6 DEF ForceAggregate
  <2>. QED BY <2>1, <2>2, <2>3, <2>4, <2>5, <2>6
<1>7. CASE RouterClose(c)
  BY <1>7 DEF RouterClose
<1>8. CASE SnapshotOpen(c)
  <2>1. LockOK'
    BY <1>8 DEF SnapshotOpen
  <2>2. ActivationOK'
    BY <1>8 DEF SnapshotOpen
  <2>3. ReportOK'
    BY <1>8 DEF SnapshotOpen
  <2>4. ClosingOK'
    BY <1>8 DEF SnapshotOpen
  <2>5. FindableOK'
    BY <1>8 DEF SnapshotOpen
  <2>6. CloserOK'
    BY <1>8 DEF SnapshotOpen
  <2>. QED BY <2>1, <2>2, <2>3, <2>4, <2>5, <2>6
<1>9. CASE RouterTerminalEvent(c)
  BY <1>9 DEF RouterTerminalEvent
<1>10. CASE ApplyAggregates(c)
  BY <1>10 DEF ApplyAggregates
<1>11. CASE ApplyFinalStatus(c)
  BY <1>11, SMTT(30) DEF ApplyFinalStatus
<1>12. CASE ReportRouter(c)
  BY <1>12 DEF ReportRouter
<1>13. CASE CleanupRouter(c)
  BY <1>13, SMTT(30) DEF CleanupRouter
<1>. QED BY <1>1, <1>2, <1>3, <1>4, <1>5, <1>6, <1>7, <1>8, <1>9, <1>10, <1>11, <1>12, <1>13 DEF ForceClose, FinalizeRouter

LEMMA InitOrphan == Init => OrphanRest
<1>. SUFFICES ASSUME Init PROVE OrphanRest
  OBVIOUS
<1>1. \A t \in Threads : pc[t] \in {"attempt", "idle"}
  BY DEF Init
<1>2. \A a \in Attempts : pc[a] = "attempt" /\ index[a] = 0 /\ reports[a] = 0
  BY LifecycleAssumption DEF Init, Threads
<1>3. \A c \in Closers : pc[c] = "idle" /\ pending[c] = {}
  BY LifecycleAssumption DEF Init, Threads
<1>. QED
  BY <1>1, <1>2, <1>3 DEF Init, OrphanRest, LockOK, ActivationOK, ReportOK, ClosingOK,
     FindableOK, CloserOK, Threads, Finalizing, CloseLabels, ForceLabels, ReportTail,
     Unreported, Reported, Holding, Unactivated

LEMMA NextOrphan == TypeInv /\ OrphanRest /\ [Next]_vars => OrphanRest'
<1>. SUFFICES ASSUME TypeInv, OrphanRest, [Next]_vars PROVE OrphanRest'
  OBVIOUS
<1>1. CASE UNCHANGED vars
  BY <1>1 DEF vars, threadVars, openVars, aggregateVars, routerSpanVars, flagVars,
     attemptSpanVars, OrphanRest, LockOK, ActivationOK, ReportOK, ClosingOK, FindableOK,
     CloserOK, Threads, Subject, Finalizing
<1>2. CASE Terminated
  BY <1>1, <1>2 DEF Terminated
<1>. QED BY <1>1, <1>2, WorkerOrphan, CloseOrphan, CloserOrphan DEF Next

LEMMA OrphanInvariant == Spec => []OrphanInv
<1>1. OrphanInv <=> TypeInv /\ OrphanRest
  BY DEF OrphanInv, OrphanRest
<1>. QED BY <1>1, InitTypeInv, NextTypeInv, InitOrphan, NextOrphan, PTL DEF Spec

(* When RouterSpan.close reports the Router, every Attempt that was ever     *)
(* activated has been reported before it, whichever thread closed it: an     *)
(* Attempt the closer cannot find in its snapshot any more is closed by a    *)
(* thread that holds its lock, and force_close waits for that lock.          *)
THEOREM NoOrphan == Spec => []NoOrphanAttempt
<1>1. OrphanInv => NoOrphanAttempt
  <2>. SUFFICES ASSUME OrphanInv, RouterReported, NEW a \in Activated
                PROVE  reports[a] = 1
    BY DEF NoOrphanAttempt
  <2>. USE DEF OrphanInv
  <2>1. a \in Attempts /\ index[a] > 0
    BY DEF Activated
  <2>2. routerReports = 1 /\ open = {}
    BY DEF CloserOK, RouterReported
  <2>3. \A c \in Closers : pending[c] = {} /\ pc[c] \notin ForceLabels \cup CloseLabels
    BY <2>2 DEF CloserOK, Finalizing, ForceLabels, CloseLabels, ReportTail
  <2>4. reports[a] # 0
    BY <2>1, <2>2, <2>3 DEF FindableOK
  <2>. QED BY <2>1, <2>4 DEF ReportOK
<1>. QED BY <1>1, OrphanInvariant, PTL

(* However close(), force_close() and several RouterSpan.close() calls race, *)
(* no span is reported twice and a rejected Attempt is never reported.       *)
THEOREM ReportedOnce == Spec => []ReportedAtMostOnce
<1>1. OrphanInv => ReportedAtMostOnce
  <2>. SUFFICES ASSUME OrphanInv PROVE ReportedAtMostOnce
    OBVIOUS
  <2>1. routerReports \in {0, 1}
    BY DEF OrphanInv, CloserOK
  <2>2. \A a \in Attempts : reports[a] \in {0, 1} /\ (reports[a] = 1 => a \in Activated)
    BY DEF OrphanInv, ReportOK, Activated
  <2>. QED BY <2>1, <2>2 DEF ReportedAtMostOnce
<1>. QED BY <1>1, OrphanInvariant, PTL

-----------------------------------------------------------------------------
(* The started event and close(), by the lock both hold                      *)

(* A worker that is about to record the started event has found its Attempt  *)
(* not closed, and still has.                                                *)
ConfirmedOK == \A a \in Attempts : pc[a] = "confirmed" => a \notin closed

(* Only close() closes an Attempt, and only when nobody holds its lock.      *)
LEMMA ClosedWhenFree ==
  ASSUME [Next]_vars, NEW a \in Attempts, lock[a] # None, a \in closed'
  PROVE  a \in closed
<1>. USE DEF flagVars
<1>1. CASE UNCHANGED vars \/ Terminated
  BY <1>1 DEF vars, Terminated
<1>2. ASSUME NEW b \in Attempts, StartAttempt(b) \/ UseAttempt(b) \/ FinishAttempt(b)
      PROVE  a \in closed
  BY <1>2 DEF StartAttempt, UseAttempt, FinishAttempt, CreateAttempt, RegisterAttempt,
     ActivateAttempt, DiscardRejected, InstallContext, RecheckInstall, RecordStarted,
     BeginFinish, CallClose, ExitWithError, Abandon, FinishSetError, FinishSetFlag,
     FinishRecordEvent, FinishAggregate
<1>3. ASSUME NEW t \in Threads, CloseAttempt(t)
      PROVE  a \in closed
  <2>1. CASE CloseEnter(t, Subject(t))
    BY <2>1 DEF CloseEnter, Acquire, Free
  <2>. QED BY <1>3, <2>1 DEF CloseAttempt, CloseStatus, CloseEvent, CloseEnd,
           CloseUnregister, CloseCleanup
<1>4. ASSUME NEW c \in Closers, ForceClose(c)
      PROVE  a \in closed
  BY <1>4 DEF ForceClose, ForceNext, ForceEnter, ForceMark, ForceAggregate
<1>5. ASSUME NEW c \in Closers,
             CallRouterClose(c) \/ RouterExitWithError(c) \/ FinalizeRouter(c)
      PROVE  a \in closed
  BY <1>5 DEF CallRouterClose, RouterExitWithError, FinalizeRouter, RouterClose,
     SnapshotOpen, RouterTerminalEvent, ApplyAggregates, ApplyFinalStatus, ReportRouter,
     CleanupRouter
<1>. QED BY <1>1, <1>2, <1>3, <1>4, <1>5 DEF Next

(* A worker comes to the started event by its own re-check alone.            *)
LEMMA ConfirmedByRecheck ==
  ASSUME TypeInv, [Next]_vars, NEW a \in Attempts, pc'[a] = "confirmed",
         pc[a] # "confirmed"
  PROVE  RecheckInstall(a)
<1>0. pc \in [Threads -> WorkerLabels \cup CloserLabels \cup CloseLabels]
      /\ Threads = Attempts \cup Closers
  BY DEF TypeInv, TypeOK, Threads
<1>. USE <1>0 DEF Goto
<1>1. CASE UNCHANGED vars \/ Terminated
  BY <1>1 DEF vars, Terminated
<1>2. ASSUME NEW b \in Attempts, StartAttempt(b)
      PROVE  RecheckInstall(a)
  <2>1. CASE RecheckInstall(b)
    BY <2>1 DEF RecheckInstall
  <2>. QED BY <1>2, <2>1 DEF StartAttempt, RegisterAttempt, ActivateAttempt,
           DiscardRejected, InstallContext, RecordStarted
<1>3. ASSUME NEW b \in Attempts, UseAttempt(b) \/ FinishAttempt(b)
      PROVE  FALSE
  BY <1>3 DEF UseAttempt, FinishAttempt, CreateAttempt, BeginFinish, CallClose,
     ExitWithError, Abandon, FinishSetError, FinishSetFlag, FinishRecordEvent,
     FinishAggregate
<1>4. ASSUME NEW t \in Threads, CloseAttempt(t)
      PROVE  FALSE
  <2>1. AfterClose(t) # "confirmed"
    BY DEF AfterClose
  <2>. QED BY <1>4, <2>1 DEF CloseAttempt, CloseEnter, CloseStatus, CloseEvent, CloseEnd,
           CloseUnregister, CloseCleanup
<1>5. ASSUME NEW c \in Closers, ForceClose(c)
      PROVE  FALSE
  BY <1>5 DEF ForceClose, ForceNext, ForceEnter, ForceMark, ForceAggregate
<1>6. ASSUME NEW c \in Closers,
             CallRouterClose(c) \/ RouterExitWithError(c) \/ FinalizeRouter(c)
      PROVE  FALSE
  BY <1>6 DEF CallRouterClose, RouterExitWithError, FinalizeRouter, RouterClose,
     SnapshotOpen, RouterTerminalEvent, ApplyAggregates, ApplyFinalStatus, ReportRouter,
     CleanupRouter
<1>. QED BY <1>1, <1>2, <1>3, <1>4, <1>5, <1>6 DEF Next

LEMMA NextConfirmed ==
  TypeInv /\ LockOK /\ ConfirmedOK /\ [Next]_vars => ConfirmedOK'
<1>. SUFFICES ASSUME TypeInv, LockOK, ConfirmedOK, [Next]_vars,
                     NEW a \in Attempts, pc'[a] = "confirmed"
              PROVE  a \notin closed'
  BY DEF ConfirmedOK
<1>1. a \in Threads /\ Subject(a) = a /\ a # None
  BY LifecycleAssumption DEF Threads, Subject
<1>2. CASE pc[a] = "confirmed"
  <2>1. lock[a] # None
    BY <1>1, <1>2 DEF LockOK, Holding
  <2>2. a \notin closed
    BY <1>2 DEF ConfirmedOK
  <2>. QED BY <2>1, <2>2, ClosedWhenFree
<1>3. CASE pc[a] # "confirmed"
  <2>1. RecheckInstall(a)
    BY <1>3, ConfirmedByRecheck
  <2>2. a \in Threads /\ pc \in [Threads -> WorkerLabels \cup CloserLabels \cup CloseLabels]
    BY <1>1 DEF TypeInv, TypeOK
  <2>. QED BY <2>1, <2>2 DEF RecheckInstall
<1>. QED BY <1>2, <1>3

(* Only the worker of an Attempt, in RecordStarted, records its start.       *)
LEMMA StartedByItsWorker ==
  ASSUME TypeInv, [Next]_vars, NEW a \in Attempts,
         "started" \in events'[a] \ events[a]
  PROVE  pc[a] = "confirmed"
<1>0. events \in [Attempts -> SUBSET AttemptEvents]
  BY DEF TypeInv, TypeOK
<1>. USE <1>0 DEF attemptSpanVars
<1>1. CASE UNCHANGED vars \/ Terminated
  BY <1>1 DEF vars, Terminated
<1>2. ASSUME NEW b \in Attempts, StartAttempt(b)
      PROVE  pc[a] = "confirmed"
  <2>1. CASE RecordStarted(b)
    BY <2>1 DEF RecordStarted, Goto
  <2>. QED BY <1>2, <2>1 DEF StartAttempt, RegisterAttempt, ActivateAttempt,
           DiscardRejected, InstallContext, RecheckInstall
<1>3. ASSUME NEW b \in Attempts, UseAttempt(b) \/ FinishAttempt(b)
      PROVE  FALSE
  <2>1. CASE FinishRecordEvent(b)
    BY <2>1 DEF FinishRecordEvent
  <2>. QED BY <1>3, <2>1 DEF UseAttempt, FinishAttempt, CreateAttempt, BeginFinish,
           CallClose, ExitWithError, Abandon, FinishSetError, FinishSetFlag,
           FinishAggregate
<1>4. ASSUME NEW t \in Threads, CloseAttempt(t)
      PROVE  FALSE
  <2>1. CASE CloseEvent(t, Subject(t))
    BY <2>1 DEF CloseEvent
  <2>. QED BY <1>4, <2>1 DEF CloseAttempt, CloseEnter, CloseStatus, CloseEnd,
           CloseUnregister, CloseCleanup
<1>5. ASSUME NEW c \in Closers, ForceClose(c)
      PROVE  FALSE
  BY <1>5 DEF ForceClose, ForceNext, ForceEnter, ForceMark, ForceAggregate
<1>6. ASSUME NEW c \in Closers,
             CallRouterClose(c) \/ RouterExitWithError(c) \/ FinalizeRouter(c)
      PROVE  FALSE
  BY <1>6 DEF CallRouterClose, RouterExitWithError, FinalizeRouter, RouterClose,
     SnapshotOpen, RouterTerminalEvent, ApplyAggregates, ApplyFinalStatus, ReportRouter,
     CleanupRouter
<1>. QED BY <1>1, <1>2, <1>3, <1>4, <1>5, <1>6 DEF Next

(* attempt_span.py records gateway.attempt.started under the lifecycle lock, *)
(* after a second look at _closed: whatever the closers do meanwhile, an     *)
(* Attempt that close() has begun to end never gets that event.              *)
THEOREM StartedPrecedesClose == Spec => StartedBeforeClose
<1>1. Init => ConfirmedOK
  BY LifecycleAssumption DEF Init, ConfirmedOK
<1>2. TypeInv /\ ConfirmedOK /\ [Next]_vars
        => [\A a \in Attempts :
              "started" \in events'[a] \ events[a] => a \notin closed]_events
  BY StartedByItsWorker DEF ConfirmedOK
<1>3. OrphanInv => TypeInv /\ LockOK
  BY DEF OrphanInv
<1>. QED
  BY <1>1, <1>2, <1>3, OrphanInvariant, NextConfirmed, PTL DEF Spec, StartedBeforeClose
-----------------------------------------------------------------------------
(* Two more invariants, on top of OrphanInv: what the Router record says   *)
(* stays true of the Router, and the Router leaves nothing behind when its *)
(* cleanup is done.                                                        *)

(* A closer has closed every open Attempt and ends the Router, or has.     *)
Ending == routerReports = 1 \/ \E c \in Closers : pc[c] \in ReportTail

(* The Router record can be trusted from the copy of the aggregates on.    *)
Recorded ==
  \/ routerReports = 1
  \/ \E c \in Closers : pc[c] \in {"router_status", "router_report"}

(* An Attempt's result is aggregated before another thread closes it; its  *)
(* owner, once it has closed it, aggregates nothing more.                  *)
PublishedOK ==
  /\ \A c \in Closers : pc[c] \in CloseLabels => target[c] \in aggregated
  /\ \A a \in closed : index[a] > 0 => a \in aggregated \/ pc[a] \in CloseLabels \cup {"done"}

RecordOK ==
  Recorded => /\ record.attempts = AttemptCount
              /\ aggregated \ record.results \subseteq noOp

(* An Attempt between its activation and its release can be found in the   *)
(* open registry or in the hands of the closer that took it from there.    *)
Findable(a) ==
  \/ a \in open
  \/ \E c \in Closers : a \in pending[c] \/ (target[c] = a /\ pc[c] \in ForceLabels \cup CloseLabels)

(* An Attempt in the registry that was never activated is on its way to be *)
(* activated or discarded.                                                 *)
UnstartedOK == \A a \in registry : index[a] = 0 => pc[a] \in {"activate", "discard"}

(* A reported Attempt in the registry is in the hands of the thread that   *)
(* reported it and will take it out.                                       *)
ReleasedOK ==
  \A a \in registry : reports[a] = 1 => \E t \in Threads : Subject(t) = a /\ pc[t] \in Reported

UnregisterOK == \A t \in Threads : pc[t] = "close_unregister" => Findable(Subject(t))

(* The Router leaves its registry last, after its report.                  *)
CleanupOK ==
  /\ \A c \in Closers : pc[c] = "router_cleanup" => routerReports = 1
  /\ ~routerLive => routerReports = 1

RegistryOK == UnstartedOK /\ ReleasedOK /\ UnregisterOK /\ CleanupOK

-----------------------------------------------------------------------------
(* Results are published before a span is closed by somebody else            *)

LEMMA PublishedKept ==
  ASSUME OrphanInv, PublishedOK, [Next]_vars
  PROVE  PublishedOK'
<1>0. /\ pc \in [Threads -> WorkerLabels \cup CloserLabels \cup CloseLabels]
      /\ target \in [Closers -> Attempts \cup {None}]
      /\ index \in [Attempts -> Nat]
      /\ closed \in SUBSET Attempts
      /\ Threads = Attempts \cup Closers /\ Attempts \cap Closers = {}
  BY LifecycleAssumption DEF OrphanInv, TypeInv, TypeOK, Threads
<1>. USE <1>0 DEF PublishedOK, CloseLabels, Goto, threadVars, openVars, aggregateVars, flagVars
<1>1. CASE UNCHANGED vars \/ Terminated
  BY <1>1 DEF vars, Terminated
<1>2. ASSUME NEW b \in Attempts, StartAttempt(b)
      PROVE  PublishedOK'
  <2>1. CASE ActivateAttempt(b)
    <3>1. b \notin closed
      BY <2>1 DEF ActivateAttempt, OrphanInv, ActivationOK, Unactivated
    <3>. QED BY <2>1, <3>1 DEF ActivateAttempt
  <2>2. CASE RegisterAttempt(b) \/ DiscardRejected(b) \/ RecordStarted(b)
    BY <2>2 DEF RegisterAttempt, DiscardRejected, RecordStarted
  <2>3. CASE InstallContext(b) \/ RecheckInstall(b)
    BY <2>3 DEF InstallContext, RecheckInstall
  <2>. QED BY <1>2, <2>1, <2>2, <2>3 DEF StartAttempt
<1>3. ASSUME NEW b \in Attempts, UseAttempt(b)
      PROVE  PublishedOK'
  <2>1. CASE CreateAttempt(b) \/ BeginFinish(b)
    BY <2>1 DEF CreateAttempt, BeginFinish
  <2>2. CASE CallClose(b) \/ ExitWithError(b) \/ Abandon(b)
    BY <2>2 DEF CallClose, ExitWithError, Abandon
  <2>. QED BY <1>3, <2>1, <2>2 DEF UseAttempt
<1>4. ASSUME NEW b \in Attempts, FinishAttempt(b)
      PROVE  PublishedOK'
  <2>1. CASE FinishAggregate(b)
    <3>1. aggregated' = aggregated \cup {b}
      BY <2>1 DEF FinishAggregate, TryAggregate
    <3>. QED BY <2>1, <3>1 DEF FinishAggregate
  <2>2. CASE FinishSetError(b) \/ FinishSetFlag(b) \/ FinishRecordEvent(b)
    BY <2>2 DEF FinishSetError, FinishSetFlag, FinishRecordEvent
  <2>. QED BY <1>4, <2>1, <2>2 DEF FinishAttempt
<1>5. ASSUME NEW t \in Threads, CloseAttempt(t)
      PROVE  PublishedOK'
  <2>. USE DEF Subject, AfterClose
  <2>1. CASE CloseEnter(t, Subject(t))
    BY <2>1 DEF CloseEnter
  <2>2. CASE CloseStatus(t, Subject(t)) \/ CloseEvent(t, Subject(t)) \/ CloseEnd(t, Subject(t))
    BY <2>2 DEF CloseStatus, CloseEvent, CloseEnd
  <2>3. CASE CloseUnregister(t, Subject(t)) \/ CloseCleanup(t, Subject(t))
    BY <2>3 DEF CloseUnregister, CloseCleanup
  <2>. QED BY <1>5, <2>1, <2>2, <2>3 DEF CloseAttempt
<1>6. ASSUME NEW c \in Closers, ForceClose(c)
      PROVE  PublishedOK'
  <2>1. CASE ForceNext(c)
    BY <2>1 DEF ForceNext
  <2>2. CASE ForceEnter(c, target[c])
    BY <2>2 DEF ForceEnter
  <2>3. CASE ForceMark(c, target[c])
    BY <2>3 DEF ForceMark
  <2>4. CASE ForceAggregate(c, target[c])
    <3>1. aggregated' = aggregated \cup {target[c]}
      BY <2>4 DEF ForceAggregate, TryAggregate
    <3>. QED BY <2>4, <3>1 DEF ForceAggregate
  <2>. QED BY <1>6, <2>1, <2>2, <2>3, <2>4 DEF ForceClose
<1>7. ASSUME NEW c \in Closers,
             CallRouterClose(c) \/ RouterExitWithError(c) \/ FinalizeRouter(c)
      PROVE  PublishedOK'
  BY <1>7 DEF CallRouterClose, RouterExitWithError, FinalizeRouter, RouterClose,
     SnapshotOpen, RouterTerminalEvent, ApplyAggregates, ApplyFinalStatus, ReportRouter,
     CleanupRouter
<1>. QED BY <1>1, <1>2, <1>3, <1>4, <1>5, <1>6, <1>7 DEF Next

-----------------------------------------------------------------------------
(* The Router record                                                         *)

(* When the record is made every Attempt is reported, and no closer works on *)
(* one any more.                                                             *)
LEMMA RecorderAlone ==
  ASSUME OrphanInv, Ending
  PROVE  /\ routerClosed
         /\ open = {}
         /\ \A c \in Closers : pending[c] = {} /\ pc[c] \notin ForceLabels \cup CloseLabels
         /\ \A a \in Attempts : index[a] > 0 => reports[a] = 1
<1>. USE DEF OrphanInv, CloserOK, Finalizing, Ending
<1>1. routerClosed /\ open = {}
  BY DEF ReportTail
<1>2. \A c \in Closers : pending[c] = {} /\ pc[c] \notin ForceLabels \cup CloseLabels
  BY DEF ReportTail, ForceLabels, CloseLabels
<1>3. \A a \in Attempts : index[a] > 0 => reports[a] = 1
  BY <1>1, <1>2 DEF FindableOK, ReportOK
<1>. QED BY <1>1, <1>2, <1>3

(* From then on a new result is that of a rejected Attempt.                  *)
LEMMA LateResultIsRejected ==
  ASSUME OrphanInv, PublishedOK, Ending, [Next]_vars
  PROVE  aggregated' \ aggregated \subseteq noOp
<1>2. /\ \A c \in Closers : pc[c] \notin ForceLabels \cup CloseLabels
      /\ \A a \in Attempts : index[a] > 0 => reports[a] = 1
  BY RecorderAlone
<1>. USE DEF flagVars, aggregateVars
<1>3. CASE UNCHANGED vars \/ Terminated
  BY <1>3 DEF vars, Terminated
<1>4. ASSUME NEW b \in Attempts, StartAttempt(b) \/ UseAttempt(b)
      PROVE  aggregated' = aggregated
  BY <1>4 DEF StartAttempt, UseAttempt, CreateAttempt, RegisterAttempt, ActivateAttempt,
     DiscardRejected, InstallContext, RecheckInstall, RecordStarted, BeginFinish,
     CallClose, ExitWithError, Abandon
<1>5. ASSUME NEW b \in Attempts, FinishAttempt(b)
      PROVE  aggregated' \ aggregated \subseteq noOp
  <2>1. CASE FinishAggregate(b)
    <3>1. pc[b] = "finish_aggregate"
      BY <2>1 DEF FinishAggregate, Goto
    <3>2. CASE b \in noOp \cup aggregated
      BY <2>1, <3>2 DEF FinishAggregate, TryAggregate
    <3>3. CASE b \notin noOp
      <4>1. index[b] # 0 /\ index[b] \in Nat
        BY <3>1, <3>3 DEF OrphanInv, ActivationOK, Unactivated, TypeInv, TypeOK
      <4>2. b \in closed
        BY <1>2, <4>1 DEF OrphanInv, ReportOK
      <4>3. b \in aggregated
        BY <3>1, <4>1, <4>2 DEF PublishedOK, CloseLabels
      <4>. QED BY <2>1, <4>3 DEF FinishAggregate, TryAggregate
    <3>. QED BY <3>2, <3>3
  <2>. QED BY <1>5, <2>1 DEF FinishAttempt, FinishSetError, FinishSetFlag, FinishRecordEvent
<1>6. ASSUME NEW t \in Threads, CloseAttempt(t)
      PROVE  aggregated' = aggregated
  BY <1>6 DEF CloseAttempt, CloseEnter, CloseStatus, CloseEvent, CloseEnd,
     CloseUnregister, CloseCleanup
<1>7. ASSUME NEW c \in Closers, ForceClose(c)
      PROVE  aggregated' = aggregated
  <2>1. ~ForceAggregate(c, target[c])
    BY <1>2 DEF ForceAggregate, Goto, ForceLabels
  <2>. QED BY <1>7, <2>1 DEF ForceClose, ForceNext, ForceEnter, ForceMark
<1>8. ASSUME NEW c \in Closers,
             CallRouterClose(c) \/ RouterExitWithError(c) \/ FinalizeRouter(c)
      PROVE  aggregated' = aggregated
  BY <1>8 DEF CallRouterClose, RouterExitWithError, FinalizeRouter, RouterClose,
     SnapshotOpen, RouterTerminalEvent, ApplyAggregates, ApplyFinalStatus, ReportRouter,
     CleanupRouter
<1>. QED BY <1>3, <1>4, <1>5, <1>6, <1>7, <1>8 DEF Next

(* A recorded Router admits no Attempt and copies its aggregates no more.    *)
LEMMA RecordFrozen ==
  ASSUME OrphanInv, Recorded, [Next]_vars
  PROVE  record' = record /\ index' = index /\ noOp \subseteq noOp'
<1>1. Ending
  BY DEF Recorded, ReportTail, Ending
<1>2. routerClosed
  BY <1>1, RecorderAlone
<1>. USE DEF flagVars, openVars, routerSpanVars
<1>3. CASE UNCHANGED vars \/ Terminated
  BY <1>3 DEF vars, Terminated
<1>4. ASSUME NEW b \in Attempts, StartAttempt(b) \/ UseAttempt(b) \/ FinishAttempt(b)
      PROVE  record' = record /\ index' = index /\ noOp \subseteq noOp'
  BY <1>2, <1>4 DEF StartAttempt, UseAttempt, FinishAttempt, CreateAttempt,
     RegisterAttempt, ActivateAttempt, DiscardRejected, InstallContext, RecheckInstall,
     RecordStarted, BeginFinish, CallClose, ExitWithError, Abandon, FinishSetError,
     FinishSetFlag, FinishRecordEvent, FinishAggregate
<1>5. ASSUME NEW t \in Threads, CloseAttempt(t)
      PROVE  record' = record /\ index' = index /\ noOp \subseteq noOp'
  BY <1>5 DEF CloseAttempt, CloseEnter, CloseStatus, CloseEvent, CloseEnd,
     CloseUnregister, CloseCleanup
<1>6. ASSUME NEW c \in Closers, ForceClose(c)
      PROVE  record' = record /\ index' = index /\ noOp \subseteq noOp'
  BY <1>6 DEF ForceClose, ForceNext, ForceEnter, ForceMark, ForceAggregate
<1>7. ASSUME NEW c \in Closers,
             CallRouterClose(c) \/ RouterExitWithError(c) \/ FinalizeRouter(c)
      PROVE  record' = record /\ index' = index /\ noOp \subseteq noOp'
  <2>1. ~ApplyAggregates(c)
    <3>1. SUFFICES ASSUME pc[c] = "router_aggregates" PROVE FALSE
      BY DEF ApplyAggregates, Goto
    <3>. QED BY <3>1 DEF Recorded, OrphanInv, CloserOK, Finalizing
  <2>. QED BY <1>7, <2>1 DEF CallRouterClose, RouterExitWithError, FinalizeRouter,
           RouterClose, SnapshotOpen, RouterTerminalEvent, ApplyFinalStatus,
           ReportRouter, CleanupRouter
<1>. QED BY <1>3, <1>4, <1>5, <1>6, <1>7 DEF Next

(* A Router becomes recorded by the copy of its aggregates alone.            *)
LEMMA RecordedByCopy ==
  ASSUME OrphanInv, ~Recorded, Recorded', [Next]_vars
  PROVE  \E c \in Closers : ApplyAggregates(c)
<1>0. /\ pc \in [Threads -> WorkerLabels \cup CloserLabels \cup CloseLabels]
      /\ Threads = Attempts \cup Closers /\ Attempts \cap Closers = {}
      /\ routerReports \in {0, 1}
  BY LifecycleAssumption DEF OrphanInv, TypeInv, TypeOK, Threads, CloserOK
<1>. USE <1>0 DEF Recorded, Goto, routerSpanVars
<1>1. CASE UNCHANGED vars \/ Terminated
  BY <1>1 DEF vars, Terminated
<1>2. ASSUME NEW b \in Attempts, StartAttempt(b)
      PROVE  FALSE
  BY <1>2 DEF StartAttempt, RegisterAttempt, ActivateAttempt, DiscardRejected,
     InstallContext, RecheckInstall, RecordStarted
<1>3. ASSUME NEW b \in Attempts, UseAttempt(b) \/ FinishAttempt(b)
      PROVE  FALSE
  BY <1>3 DEF UseAttempt, FinishAttempt, CreateAttempt, BeginFinish, CallClose,
     ExitWithError, Abandon, FinishSetError, FinishSetFlag, FinishRecordEvent,
     FinishAggregate
<1>4. ASSUME NEW t \in Threads, CloseAttempt(t)
      PROVE  FALSE
  BY <1>4 DEF CloseAttempt, CloseEnter, CloseStatus, CloseEvent, CloseEnd,
     CloseUnregister, CloseCleanup, AfterClose
<1>5. ASSUME NEW c \in Closers, ForceClose(c)
      PROVE  FALSE
  BY <1>5 DEF ForceClose, ForceNext, ForceEnter, ForceMark, ForceAggregate
<1>6. ASSUME NEW c \in Closers, CallRouterClose(c) \/ RouterExitWithError(c)
      PROVE  FALSE
  BY <1>6 DEF CallRouterClose, RouterExitWithError
<1>7. ASSUME NEW c \in Closers, FinalizeRouter(c)
      PROVE  ApplyAggregates(c)
  <2>1. ~ApplyFinalStatus(c) /\ ~ReportRouter(c)
    BY DEF ApplyFinalStatus, ReportRouter
  <2>. QED BY <1>7, <2>1 DEF FinalizeRouter, RouterClose, SnapshotOpen,
           RouterTerminalEvent, CleanupRouter
<1>. QED BY <1>1, <1>2, <1>3, <1>4, <1>5, <1>6, <1>7 DEF Next

LEMMA RecordKept ==
  OrphanInv /\ PublishedOK /\ RecordOK /\ [Next]_vars => RecordOK'
<1>. SUFFICES ASSUME OrphanInv, PublishedOK, RecordOK, [Next]_vars, Recorded'
              PROVE  /\ record'.attempts = AttemptCount'
                     /\ aggregated' \ record'.results \subseteq noOp'
  BY DEF RecordOK
<1>1. CASE Recorded
  <2>1. AttemptCount' = AttemptCount
    BY <1>1, RecordFrozen DEF AttemptCount, Activated
  <2>2. Ending
    BY <1>1 DEF Recorded, ReportTail, Ending
  <2>. QED BY <1>1, <2>1, <2>2, RecordFrozen, LateResultIsRejected DEF RecordOK
<1>2. CASE ~Recorded
  <2>1. PICK c \in Closers : ApplyAggregates(c)
    BY <1>2, RecordedByCopy
  <2>2. AttemptCount' = AttemptCount /\ aggregated' = aggregated
    BY <2>1 DEF ApplyAggregates, openVars, flagVars, AttemptCount, Activated
  <2>3. record'.attempts = AttemptCount /\ record'.results = aggregated
    BY <2>1 DEF ApplyAggregates
  <2>. QED BY <2>2, <2>3
<1>. QED BY <1>1, <1>2

LEMMA InitRecord == Init => PublishedOK /\ RecordOK
<1>. SUFFICES ASSUME Init PROVE PublishedOK /\ RecordOK
  OBVIOUS
<1>1. \A c \in Closers : pc[c] = "idle"
  BY LifecycleAssumption DEF Init, Threads
<1>. QED BY <1>1 DEF Init, PublishedOK, RecordOK, Recorded, CloseLabels

(* _apply_aggregates copies the Router's counts while workers still run: no  *)
(* Attempt is activated after the copy, and the only results published after *)
(* it come from Attempts whose start the closed Router rejected.             *)
THEOREM RecordStaysTrue == Spec => []RecordCoversRealAttempts
<1>1. OrphanInv /\ RecordOK => RecordCoversRealAttempts
  <2>. SUFFICES ASSUME OrphanInv, RecordOK, RouterReported
                PROVE  RecordCoversRealAttempts
    BY DEF RecordCoversRealAttempts
  <2>1. routerReports = 1
    BY DEF RouterReported, OrphanInv, CloserOK
  <2>. QED BY <2>1 DEF RecordOK, Recorded, RecordCoversRealAttempts
<1>2. OrphanInv /\ PublishedOK /\ [Next]_vars => PublishedOK'
  BY PublishedKept
<1>. QED BY <1>1, <1>2, InitRecord, RecordKept, OrphanInvariant, PTL DEF Spec

-----------------------------------------------------------------------------
(* What the Router leaves behind                                             *)

LEMMA UnstartedKept ==
  ASSUME OrphanInv, UnstartedOK, [Next]_vars
  PROVE  UnstartedOK'
<1>0. /\ pc \in [Threads -> WorkerLabels \cup CloserLabels \cup CloseLabels]
      /\ index \in [Attempts -> Nat] /\ registry \in SUBSET Attempts
      /\ Threads = Attempts \cup Closers /\ Attempts \cap Closers = {}
      /\ AttemptCount + 1 > 0
  BY LifecycleAssumption, AttemptCountType DEF OrphanInv, TypeInv, TypeOK, Threads
<1>. USE <1>0 DEF UnstartedOK, Goto, openVars
<1>1. CASE UNCHANGED vars \/ Terminated
  BY <1>1 DEF vars, Terminated
<1>2. ASSUME NEW b \in Attempts, StartAttempt(b)
      PROVE  UnstartedOK'
  <2>1. CASE RegisterAttempt(b)
    BY <2>1 DEF RegisterAttempt
  <2>2. CASE ActivateAttempt(b)
    BY <2>2 DEF ActivateAttempt
  <2>3. CASE DiscardRejected(b)
    BY <2>3 DEF DiscardRejected
  <2>. QED BY <1>2, <2>1, <2>2, <2>3 DEF StartAttempt, InstallContext, RecheckInstall,
           RecordStarted
<1>3. ASSUME NEW b \in Attempts, UseAttempt(b) \/ FinishAttempt(b)
      PROVE  UnstartedOK'
  BY <1>3 DEF UseAttempt, FinishAttempt, CreateAttempt, BeginFinish, CallClose,
     ExitWithError, Abandon, FinishSetError, FinishSetFlag, FinishRecordEvent,
     FinishAggregate
<1>4. ASSUME NEW t \in Threads, CloseAttempt(t)
      PROVE  UnstartedOK'
  BY <1>4 DEF CloseAttempt, CloseEnter, CloseStatus, CloseEvent, CloseEnd,
     CloseUnregister, CloseCleanup
<1>5. ASSUME NEW c \in Closers, ForceClose(c)
      PROVE  UnstartedOK'
  BY <1>5 DEF ForceClose, ForceNext, ForceEnter, ForceMark, ForceAggregate
<1>6. ASSUME NEW c \in Closers,
             CallRouterClose(c) \/ RouterExitWithError(c) \/ FinalizeRouter(c)
      PROVE  UnstartedOK'
  BY <1>6 DEF CallRouterClose, RouterExitWithError, FinalizeRouter, RouterClose,
     SnapshotOpen, RouterTerminalEvent, ApplyAggregates, ApplyFinalStatus, ReportRouter,
     CleanupRouter
<1>. QED BY <1>1, <1>2, <1>3, <1>4, <1>5, <1>6 DEF Next

LEMMA ReleasedKept ==
  ASSUME OrphanInv, ReleasedOK, [Next]_vars
  PROVE  ReleasedOK'
<1>0. /\ pc \in [Threads -> WorkerLabels \cup CloserLabels \cup CloseLabels]
      /\ index \in [Attempts -> Nat] /\ registry \in SUBSET Attempts
      /\ reports \in [Attempts -> Nat]
      /\ target \in [Closers -> Attempts \cup {None}]
      /\ Threads = Attempts \cup Closers /\ Attempts \cap Closers = {}
  BY LifecycleAssumption DEF OrphanInv, TypeInv, TypeOK, Threads
<1>. USE <1>0 DEF ReleasedOK, Goto, Subject, Reported, threadVars, attemptSpanVars
<1>1. CASE UNCHANGED vars \/ Terminated
  BY <1>1 DEF vars, Terminated
<1>2. ASSUME NEW b \in Attempts, StartAttempt(b)
      PROVE  ReleasedOK'
  <2>1. CASE RegisterAttempt(b)
    <3>1. reports[b] = 0
      BY <2>1 DEF RegisterAttempt, OrphanInv, ActivationOK, ReportOK, Unactivated
    <3>. QED BY <2>1, <3>1 DEF RegisterAttempt
  <2>2. CASE ActivateAttempt(b) \/ DiscardRejected(b)
    BY <2>2 DEF ActivateAttempt, DiscardRejected
  <2>3. CASE InstallContext(b) \/ RecheckInstall(b) \/ RecordStarted(b)
    BY <2>3 DEF InstallContext, RecheckInstall, RecordStarted
  <2>. QED BY <1>2, <2>1, <2>2, <2>3 DEF StartAttempt
<1>3. ASSUME NEW b \in Attempts, UseAttempt(b)
      PROVE  ReleasedOK'
  BY <1>3 DEF UseAttempt, CreateAttempt, BeginFinish, CallClose, ExitWithError, Abandon
<1>4. ASSUME NEW b \in Attempts, FinishAttempt(b)
      PROVE  ReleasedOK'
  BY <1>4 DEF FinishAttempt, FinishSetError, FinishSetFlag, FinishRecordEvent,
     FinishAggregate
<1>5. ASSUME NEW t \in Threads, CloseAttempt(t)
      PROVE  ReleasedOK'
  <2>1. CASE CloseEnd(t, Subject(t))
    BY <2>1 DEF CloseEnd
  <2>2. CASE CloseUnregister(t, Subject(t))
    BY <2>2 DEF CloseUnregister
  <2>3. CASE CloseCleanup(t, Subject(t))
    BY <2>3 DEF CloseCleanup
  <2>4. CASE CloseEnter(t, Subject(t)) \/ CloseStatus(t, Subject(t)) \/ CloseEvent(t, Subject(t))
    BY <2>4 DEF CloseEnter, CloseStatus, CloseEvent
  <2>. QED BY <1>5, <2>1, <2>2, <2>3, <2>4 DEF CloseAttempt
<1>6. ASSUME NEW c \in Closers, ForceClose(c)
      PROVE  ReleasedOK'
  <2>1. CASE ForceNext(c)
    BY <2>1 DEF ForceNext
  <2>2. CASE ForceEnter(c, target[c])
    BY <2>2 DEF ForceEnter
  <2>3. CASE ForceMark(c, target[c])
    BY <2>3 DEF ForceMark
  <2>4. CASE ForceAggregate(c, target[c])
    BY <2>4 DEF ForceAggregate
  <2>. QED BY <1>6, <2>1, <2>2, <2>3, <2>4 DEF ForceClose
<1>7. ASSUME NEW c \in Closers,
             CallRouterClose(c) \/ RouterExitWithError(c) \/ FinalizeRouter(c)
      PROVE  ReleasedOK'
  BY <1>7 DEF CallRouterClose, RouterExitWithError, FinalizeRouter, RouterClose,
     SnapshotOpen, RouterTerminalEvent, ApplyAggregates, ApplyFinalStatus, ReportRouter,
     CleanupRouter
<1>. QED BY <1>1, <1>2, <1>3, <1>4, <1>5, <1>6, <1>7 DEF Next

LEMMA CleanupKept ==
  ASSUME OrphanInv, CleanupOK, [Next]_vars
  PROVE  CleanupOK'
<1>0. /\ pc \in [Threads -> WorkerLabels \cup CloserLabels \cup CloseLabels]
      /\ routerReports \in {0, 1}
      /\ Threads = Attempts \cup Closers /\ Attempts \cap Closers = {}
  BY LifecycleAssumption DEF OrphanInv, TypeInv, TypeOK, Threads, CloserOK
<1>. USE <1>0 DEF CleanupOK, Goto, routerSpanVars
<1>1. CASE UNCHANGED vars \/ Terminated
  BY <1>1 DEF vars, Terminated
<1>2. ASSUME NEW b \in Attempts, StartAttempt(b)
      PROVE  CleanupOK'
  BY <1>2 DEF StartAttempt, RegisterAttempt, ActivateAttempt, DiscardRejected,
     InstallContext, RecheckInstall, RecordStarted
<1>3. ASSUME NEW b \in Attempts, UseAttempt(b) \/ FinishAttempt(b)
      PROVE  CleanupOK'
  BY <1>3 DEF UseAttempt, FinishAttempt, CreateAttempt, BeginFinish, CallClose,
     ExitWithError, Abandon, FinishSetError, FinishSetFlag, FinishRecordEvent,
     FinishAggregate
<1>4. ASSUME NEW t \in Threads, CloseAttempt(t)
      PROVE  CleanupOK'
  BY <1>4 DEF CloseAttempt, CloseEnter, CloseStatus, CloseEvent, CloseEnd,
     CloseUnregister, CloseCleanup, AfterClose
<1>5. ASSUME NEW c \in Closers, ForceClose(c)
      PROVE  CleanupOK'
  BY <1>5 DEF ForceClose, ForceNext, ForceEnter, ForceMark, ForceAggregate
<1>6. ASSUME NEW c \in Closers, CallRouterClose(c) \/ RouterExitWithError(c)
      PROVE  CleanupOK'
  BY <1>6 DEF CallRouterClose, RouterExitWithError
<1>7. ASSUME NEW c \in Closers, FinalizeRouter(c)
      PROVE  CleanupOK'
  <2>1. CASE ReportRouter(c)
    <3>1. routerReports = 0
      BY <2>1 DEF ReportRouter, OrphanInv, CloserOK, Finalizing
    <3>. QED BY <2>1, <3>1 DEF ReportRouter
  <2>2. CASE CleanupRouter(c)
    BY <2>2 DEF CleanupRouter
  <2>. QED BY <1>7, <2>1, <2>2 DEF FinalizeRouter, RouterClose, SnapshotOpen,
           RouterTerminalEvent, ApplyAggregates, ApplyFinalStatus
<1>. QED BY <1>1, <1>2, <1>3, <1>4, <1>5, <1>6, <1>7 DEF Next

(* The Attempts a step may lose sight of are those whose lock is free or     *)
(* held by the thread that takes the step.                                   *)
LEMMA UnregisterKept ==
  ASSUME OrphanInv, UnregisterOK, [Next]_vars
  PROVE  UnregisterOK'
<1>0. /\ pc \in [Threads -> WorkerLabels \cup CloserLabels \cup CloseLabels]
      /\ target \in [Closers -> Attempts \cup {None}]
      /\ pending \in [Closers -> SUBSET Attempts]
      /\ Threads = Attempts \cup Closers /\ Attempts \cap Closers = {}
      /\ None \notin Threads
  BY LifecycleAssumption DEF OrphanInv, TypeInv, TypeOK, Threads
<1>a. \A t \in Threads : pc[t] = "close_unregister" => lock[Subject(t)] = t
  BY DEF OrphanInv, LockOK, Holding, Reported
<1>. USE <1>0 DEF UnregisterOK, Findable, Goto, Subject, ForceLabels, CloseLabels,
         threadVars, openVars
<1>1. CASE UNCHANGED vars \/ Terminated
  BY <1>1 DEF vars, Terminated
<1>2. ASSUME NEW b \in Attempts, StartAttempt(b)
      PROVE  UnregisterOK'
  <2>1. CASE RegisterAttempt(b) \/ DiscardRejected(b)
    BY <2>1 DEF RegisterAttempt, DiscardRejected
  <2>2. CASE ActivateAttempt(b)
    BY <2>2 DEF ActivateAttempt
  <2>3. CASE InstallContext(b)
    BY <2>3 DEF InstallContext
  <2>4. CASE RecheckInstall(b) \/ RecordStarted(b)
    BY <2>4 DEF RecheckInstall, RecordStarted
  <2>. QED BY <1>2, <2>1, <2>2, <2>3, <2>4 DEF StartAttempt
<1>3. ASSUME NEW b \in Attempts, UseAttempt(b)
      PROVE  UnregisterOK'
  BY <1>3 DEF UseAttempt, CreateAttempt, BeginFinish, CallClose, ExitWithError, Abandon
<1>4. ASSUME NEW b \in Attempts, FinishAttempt(b)
      PROVE  UnregisterOK'
  BY <1>4 DEF FinishAttempt, FinishSetError, FinishSetFlag, FinishRecordEvent,
     FinishAggregate
<1>5. ASSUME NEW t \in Threads, CloseAttempt(t)
      PROVE  UnregisterOK'
  <2>. USE DEF AfterClose, Free
  <2>1. CASE CloseEnter(t, Subject(t))
    BY <1>a, <2>1 DEF CloseEnter, Acquire
  <2>2. CASE CloseStatus(t, Subject(t)) \/ CloseEvent(t, Subject(t))
    BY <2>2 DEF CloseStatus, CloseEvent
  <2>3. CASE CloseEnd(t, Subject(t))
    <3>1. /\ Subject(t) \in Attempts
          /\ index[Subject(t)] > 0 /\ reports[Subject(t)] = 0
      BY <2>3 DEF CloseEnd, OrphanInv, TypeInv, TargetOK, ReportOK, Unreported
    <3>2. Findable(Subject(t))
      BY <3>1 DEF OrphanInv, FindableOK
    <3>. QED BY <2>3, <3>2 DEF CloseEnd
  <2>4. CASE CloseUnregister(t, Subject(t))
    BY <1>a, <2>4 DEF CloseUnregister
  <2>5. CASE CloseCleanup(t, Subject(t))
    <3>1. lock[Subject(t)] = t
      BY <2>5 DEF CloseCleanup, OrphanInv, LockOK, Holding, Reported
    <3>. QED BY <1>a, <2>5, <3>1 DEF CloseCleanup
  <2>. QED BY <1>5, <2>1, <2>2, <2>3, <2>4, <2>5 DEF CloseAttempt
<1>6. ASSUME NEW c \in Closers, ForceClose(c)
      PROVE  UnregisterOK'
  <2>. USE DEF Free
  <2>1. CASE ForceNext(c)
    BY <2>1 DEF ForceNext
  <2>2. CASE ForceEnter(c, target[c])
    BY <1>a, <2>2 DEF ForceEnter, Acquire
  <2>3. CASE ForceMark(c, target[c])
    BY <2>3 DEF ForceMark
  <2>4. CASE ForceAggregate(c, target[c])
    BY <2>4 DEF ForceAggregate
  <2>. QED BY <1>6, <2>1, <2>2, <2>3, <2>4 DEF ForceClose
<1>7. ASSUME NEW c \in Closers, CallRouterClose(c) \/ RouterExitWithError(c)
      PROVE  UnregisterOK'
  BY <1>7 DEF CallRouterClose, RouterExitWithError
<1>8. ASSUME NEW c \in Closers, FinalizeRouter(c)
      PROVE  UnregisterOK'
  <2>1. CASE SnapshotOpen(c)
    <3>1. pending[c] = {}
      BY <2>1 DEF SnapshotOpen, OrphanInv, CloserOK
    <3>. QED BY <2>1, <3>1 DEF SnapshotOpen
  <2>2. CASE RouterClose(c)
    BY <2>2 DEF RouterClose
  <2>. QED BY <1>8, <2>1, <2>2 DEF FinalizeRouter, RouterTerminalEvent, ApplyAggregates,
           ApplyFinalStatus, ReportRouter, CleanupRouter
<1>. QED BY <1>1, <1>2, <1>3, <1>4, <1>5, <1>6, <1>7, <1>8 DEF Next

LEMMA InitRegistry == Init => RegistryOK
<1>. SUFFICES ASSUME Init PROVE RegistryOK
  OBVIOUS
<1>1. \A t \in Threads : pc[t] \in {"attempt", "idle"}
  BY DEF Init
<1>. QED BY <1>1, LifecycleAssumption DEF Init, Threads, RegistryOK, UnstartedOK, ReleasedOK,
         UnregisterOK, CleanupOK

(* RouterSpan.close takes the Router out of the RouterRegistry last: by then *)
(* _open_attempts is empty, and an Attempt still in the AttemptRegistry is   *)
(* one whose own thread removes it in its next step.                         *)
THEOREM RouterLeavesNothing == Spec => []RouterDoneLeavesNothing
<1>1. OrphanInv /\ RegistryOK => RouterDoneLeavesNothing
  <2>. SUFFICES ASSUME OrphanInv, RegistryOK, ~routerLive
                PROVE  RouterDoneLeavesNothing
    BY DEF RouterDoneLeavesNothing
  <2>. USE DEF RegistryOK
  <2>1. routerReports = 1
    BY DEF CleanupOK
  <2>2. /\ open = {}
        /\ \A c \in Closers : pending[c] = {} /\ pc[c] \notin ForceLabels \cup CloseLabels
        /\ \A a \in Attempts : index[a] > 0 => reports[a] = 1
    BY <2>1, RecorderAlone DEF Ending
  <2>3. ASSUME NEW a \in registry
        PROVE  pc[a] \in {"activate", "discard", "close_cleanup"}
    <3>1. a \in Attempts /\ index[a] \in Nat
      BY DEF OrphanInv, TypeInv, TypeOK
    <3>2. CASE index[a] = 0
      BY <3>2 DEF UnstartedOK
    <3>3. CASE index[a] > 0
      <4>1. PICK t \in Threads : Subject(t) = a /\ pc[t] \in Reported
        BY <2>2, <3>1, <3>3 DEF ReleasedOK
      <4>2. t = a
        BY <2>2, <4>1 DEF Threads, Subject, Reported, CloseLabels
      <4>3. pc[a] # "close_unregister"
        BY <2>2, <4>1, <4>2 DEF UnregisterOK, Findable
      <4>. QED BY <4>1, <4>2, <4>3 DEF Reported
    <3>. QED BY <3>1, <3>2, <3>3
  <2>. QED BY <2>2, <2>3 DEF RouterDoneLeavesNothing
<1>2. OrphanInv /\ RegistryOK /\ [Next]_vars => RegistryOK'
  BY UnstartedKept, ReleasedKept, UnregisterKept, CleanupKept DEF RegistryOK
<1>. QED BY <1>1, <1>2, InitRegistry, OrphanInvariant, PTL DEF Spec

-----------------------------------------------------------------------------
(* The outcome of the Router, where no raise leaves "with attempt:" or       *)
(* "with router:".                                                           *)

(* What finalize_attempt still has to publish after it has set the error.    *)
PublishLabels == {"finish_flag", "finish_event", "finish_aggregate"}

(* A closer that marks an Attempt holds its lock: nobody else publishes a    *)
(* result or ends it meanwhile.                                              *)
MarkOK ==
  \A c \in Closers :
    /\ pc[c] \in {"force_mark", "force_aggregate"} => target[c] \notin aggregated \cup closed
    /\ pc[c] = "force_aggregate" => error[target[c]] # "none"

(* An error is set before the failure it stands for is published, and a      *)
(* success is only published by a worker that sets no error any more.        *)
ErrorOK ==
  \A a \in Attempts :
    /\ pc[a] \in Unactivated => a \notin aggregated
    /\ a \in aggregated => error[a] # "none" \/ pc[a] \in CloseLabels \cup {"finished", "done"}
    /\ pc[a] \in PublishLabels /\ outcome[a] = "failure" => error[a] # "none"
    /\ error[a] # "none" => \/ a \in aggregated
                            \/ pc[a] \in PublishLabels /\ outcome[a] = "failure"
                            \/ \E c \in Closers : target[c] = a /\ pc[c] = "force_aggregate"

(* An Attempt that was ended keeps the error its status was made from.       *)
StatusOK ==
  /\ \A a \in Attempts : reports[a] = 1 => (status[a] = "ERROR" <=> error[a] # "none")
  /\ \A t \in Threads : pc[t] \in {"close_event", "close_end"} =>
       (status[Subject(t)] = "ERROR" <=> error[Subject(t)] # "none")

WithError == {a \in aggregated : error[a] # "none"}
FailOK == fail = Cardinality(WithError)

(* The last result decides finalError: without an error it was a success.    *)
LastOK == fail > 0 /\ finalError = "none" => success > 0

(* How far the closer that reports the Router has come.                      *)
EventMade ==
  routerReports = 1 \/ \E c \in Closers : pc[c] \in {"router_aggregates", "router_status", "router_report"}
StatusMade == routerReports = 1 \/ \E c \in Closers : pc[c] = "router_report"

(* The terminal event and the status agree with an aggregate that only the   *)
(* result of a rejected Attempt may still change.                            *)
OutcomeOK ==
  /\ ~EventMade => routerEvents = {}
  /\ EventMade /\ NoRejectedResult =>
       routerEvents = {IF finalError # "none" THEN "response_failed" ELSE "response_completed"}
  /\ StatusMade /\ NoRejectedResult =>
       routerStatus = IF finalError # "none" \/ (fail > 0 /\ success = 0) THEN "ERROR" ELSE "OK"

OutcomeInv == MarkOK /\ ErrorOK /\ StatusOK /\ FailOK /\ LastOK /\ OutcomeOK

LEMMA MarkKept ==
  ASSUME OrphanInv, MarkOK, ~WithBlock, [Next]_vars
  PROVE  MarkOK'
<1>0. /\ pc \in [Threads -> WorkerLabels \cup CloserLabels \cup CloseLabels]
      /\ target \in [Closers -> Attempts \cup {None}] /\ error \in [Attempts -> Errors]
      /\ Threads = Attempts \cup Closers /\ Attempts \cap Closers = {} /\ None \notin Threads
  BY LifecycleAssumption DEF OrphanInv, TypeInv, TypeOK, Threads
<1>a. \A c \in Closers : pc[c] \in {"force_mark", "force_aggregate"} =>
        lock[target[c]] = c /\ target[c] \in Attempts
  BY <1>0 DEF OrphanInv, TypeInv, TargetOK, LockOK, Holding, Subject, ForceLabels
<1>. USE <1>0 DEF MarkOK, Goto, threadVars, flagVars, attemptSpanVars
<1>1. CASE UNCHANGED vars \/ Terminated
  BY <1>1 DEF vars, Terminated
<1>2. ASSUME NEW b \in Attempts, StartAttempt(b)
      PROVE  MarkOK'
  <2>1. CASE RegisterAttempt(b) \/ ActivateAttempt(b) \/ DiscardRejected(b)
    BY <2>1 DEF RegisterAttempt, ActivateAttempt, DiscardRejected
  <2>2. CASE InstallContext(b) \/ RecheckInstall(b) \/ RecordStarted(b)
    BY <2>2 DEF InstallContext, RecheckInstall, RecordStarted
  <2>. QED BY <1>2, <2>1, <2>2 DEF StartAttempt
<1>3. ASSUME NEW b \in Attempts, UseAttempt(b)
      PROVE  MarkOK'
  <2>1. CASE CreateAttempt(b) \/ BeginFinish(b)
    BY <2>1 DEF CreateAttempt, BeginFinish
  <2>2. CASE CallClose(b) \/ Abandon(b)
    BY <2>2 DEF CallClose, Abandon
  <2>. QED BY <1>3, <2>1, <2>2 DEF UseAttempt, ExitWithError
<1>4. ASSUME NEW b \in Attempts, FinishAttempt(b)
      PROVE  MarkOK'
  <2>1. CASE FinishAggregate(b)
    <3>1. aggregated' = aggregated \cup {b} /\ closed' = closed /\ error' = error /\ target' = target
      BY <2>1 DEF FinishAggregate, TryAggregate
    <3>2. \A c \in Closers : pc'[c] = pc[c]
      BY <2>1 DEF FinishAggregate
    <3>3. \A c \in Closers : pc[c] \in {"force_mark", "force_aggregate"} => target[c] # b
      BY <1>a, <2>1 DEF FinishAggregate, Free
    <3>. QED BY <3>1, <3>2, <3>3
  <2>2. CASE FinishSetError(b)
    BY <1>a, <2>2 DEF FinishSetError
  <2>3. CASE FinishSetFlag(b) \/ FinishRecordEvent(b)
    BY <2>3 DEF FinishSetFlag, FinishRecordEvent
  <2>. QED BY <1>4, <2>1, <2>2, <2>3 DEF FinishAttempt
<1>5. ASSUME NEW t \in Threads, CloseAttempt(t)
      PROVE  MarkOK'
  <2>. USE DEF AfterClose
  <2>1. CASE CloseEnter(t, Subject(t))
    <3>1. closed' \subseteq closed \cup {Subject(t)} /\ aggregated' = aggregated /\ error' = error
          /\ target' = target /\ Free(Subject(t))
      BY <2>1 DEF CloseEnter, Acquire
    <3>2. \A c \in Closers : pc'[c] \in {"force_mark", "force_aggregate"} => pc'[c] = pc[c]
      BY <2>1 DEF CloseEnter
    <3>3. \A c \in Closers : pc[c] \in {"force_mark", "force_aggregate"} => target[c] # Subject(t)
      BY <1>a, <3>1 DEF Free
    <3>. QED BY <3>1, <3>2, <3>3
  <2>2. CASE CloseStatus(t, Subject(t)) \/ CloseEvent(t, Subject(t)) \/ CloseEnd(t, Subject(t))
    BY <2>2 DEF CloseStatus, CloseEvent, CloseEnd
  <2>3. CASE CloseUnregister(t, Subject(t)) \/ CloseCleanup(t, Subject(t))
    BY <2>3 DEF CloseUnregister, CloseCleanup
  <2>. QED BY <1>5, <2>1, <2>2, <2>3 DEF CloseAttempt
<1>6. ASSUME NEW c \in Closers, ForceClose(c)
      PROVE  MarkOK'
  <2>1. CASE ForceNext(c)
    BY <2>1 DEF ForceNext
  <2>2. CASE ForceEnter(c, target[c])
    BY <2>2 DEF ForceEnter
  <2>3. CASE ForceMark(c, target[c])
    BY <1>a, <2>3 DEF ForceMark
  <2>4. CASE ForceAggregate(c, target[c])
    <3>1. aggregated' \subseteq aggregated \cup {target[c]} /\ closed' = closed /\ error' = error
          /\ target' = target
      BY <2>4 DEF ForceAggregate, TryAggregate
    <3>2. \A d \in Closers : pc'[d] \in {"force_mark", "force_aggregate"} => d # c /\ pc'[d] = pc[d]
      BY <2>4 DEF ForceAggregate
    <3>3. \A d \in Closers : d # c /\ pc[d] \in {"force_mark", "force_aggregate"} => target[d] # target[c]
      BY <1>a, <2>4 DEF ForceAggregate
    <3>. QED BY <3>1, <3>2, <3>3
  <2>. QED BY <1>6, <2>1, <2>2, <2>3, <2>4 DEF ForceClose
<1>7. ASSUME NEW c \in Closers,
             CallRouterClose(c) \/ RouterExitWithError(c) \/ FinalizeRouter(c)
      PROVE  MarkOK'
  BY <1>7 DEF CallRouterClose, RouterExitWithError, FinalizeRouter, RouterClose,
     SnapshotOpen, RouterTerminalEvent, ApplyAggregates, ApplyFinalStatus, ReportRouter,
     CleanupRouter
<1>. QED BY <1>1, <1>2, <1>3, <1>4, <1>5, <1>6, <1>7 DEF Next

LEMMA ErrorKept ==
  ASSUME OrphanInv, MarkOK, ErrorOK, ~WithBlock, [Next]_vars
  PROVE  ErrorOK'
<1>0. /\ pc \in [Threads -> WorkerLabels \cup CloserLabels \cup CloseLabels]
      /\ target \in [Closers -> Attempts \cup {None}] /\ error \in [Attempts -> Errors]
      /\ outcome \in [Attempts -> {"success", "failure"}]
      /\ Threads = Attempts \cup Closers /\ Attempts \cap Closers = {} /\ None \notin Threads
  BY LifecycleAssumption DEF OrphanInv, TypeInv, TypeOK, Threads
<1>a. \A c \in Closers : pc[c] \in {"force_mark", "force_aggregate"} =>
        lock[target[c]] = c /\ target[c] \in Attempts
  BY <1>0 DEF OrphanInv, TypeInv, TargetOK, LockOK, Holding, Subject, ForceLabels
<1>. USE <1>0 DEF ErrorOK, PublishLabels, Unactivated, CloseLabels, Goto, threadVars, flagVars,
         attemptSpanVars
<1>1. CASE UNCHANGED vars \/ Terminated
  BY <1>1 DEF vars, Terminated
<1>2. ASSUME NEW b \in Attempts, StartAttempt(b)
      PROVE  ErrorOK'
  <2>1. CASE RegisterAttempt(b) \/ ActivateAttempt(b) \/ DiscardRejected(b)
    BY <2>1 DEF RegisterAttempt, ActivateAttempt, DiscardRejected
  <2>2. CASE InstallContext(b) \/ RecheckInstall(b) \/ RecordStarted(b)
    BY <2>2 DEF InstallContext, RecheckInstall, RecordStarted
  <2>. QED BY <1>2, <2>1, <2>2 DEF StartAttempt
<1>3. ASSUME NEW b \in Attempts, UseAttempt(b)
      PROVE  ErrorOK'
  <2>1. CASE CreateAttempt(b) \/ BeginFinish(b)
    BY <2>1 DEF CreateAttempt, BeginFinish
  <2>2. CASE CallClose(b) \/ Abandon(b)
    BY <2>2 DEF CallClose, Abandon
  <2>. QED BY <1>3, <2>1, <2>2 DEF UseAttempt, ExitWithError
<1>4. ASSUME NEW b \in Attempts, FinishAttempt(b)
      PROVE  ErrorOK'
  <2>1. CASE FinishAggregate(b)
    <3>1. aggregated' = aggregated \cup {b} /\ error' = error /\ target' = target /\ outcome' = outcome
      BY <2>1 DEF FinishAggregate, TryAggregate
    <3>2. pc' = [pc EXCEPT ![b] = "finished"] /\ pc[b] = "finish_aggregate"
      BY <2>1 DEF FinishAggregate
    <3>. QED BY <3>1, <3>2
  <2>2. CASE FinishSetError(b)
    BY <2>2 DEF FinishSetError
  <2>3. CASE FinishSetFlag(b) \/ FinishRecordEvent(b)
    BY <2>3 DEF FinishSetFlag, FinishRecordEvent
  <2>. QED BY <1>4, <2>1, <2>2, <2>3 DEF FinishAttempt
<1>5. ASSUME NEW t \in Threads, CloseAttempt(t)
      PROVE  ErrorOK'
  <2>. USE DEF AfterClose
  <2>1. CASE CloseEnter(t, Subject(t))
    BY <2>1 DEF CloseEnter
  <2>2. CASE CloseStatus(t, Subject(t)) \/ CloseEvent(t, Subject(t)) \/ CloseEnd(t, Subject(t))
    BY <2>2 DEF CloseStatus, CloseEvent, CloseEnd
  <2>3. CASE CloseUnregister(t, Subject(t)) \/ CloseCleanup(t, Subject(t))
    BY <2>3 DEF CloseUnregister, CloseCleanup
  <2>. QED BY <1>5, <2>1, <2>2, <2>3 DEF CloseAttempt
<1>6. ASSUME NEW c \in Closers, ForceClose(c)
      PROVE  ErrorOK'
  <2>1. CASE ForceNext(c)
    BY <2>1 DEF ForceNext
  <2>2. CASE ForceEnter(c, target[c])
    BY <2>2 DEF ForceEnter
  <2>3. CASE ForceMark(c, target[c])
    BY <1>a, <2>3 DEF ForceMark
  <2>4. CASE ForceAggregate(c, target[c])
    <3>1. /\ pc[c] = "force_aggregate" /\ error[target[c]] # "none" /\ target[c] \in Attempts
          /\ pc' = [pc EXCEPT ![c] = "close_lock"]
      BY <1>a, <2>4 DEF ForceAggregate, MarkOK
    <3>4. error' = error /\ target' = target /\ outcome' = outcome
      BY <2>4 DEF ForceAggregate
    <3>5. aggregated' = aggregated \cup {target[c]}
      BY <2>4, <3>1 DEF ForceAggregate, TryAggregate, MarkOK
    <3>2. aggregated' = aggregated \cup {target[c]} /\ error' = error /\ target' = target /\ outcome' = outcome
      BY <3>4, <3>5
    <3>3. pc[target[c]] \notin Unactivated
      BY <3>1 DEF OrphanInv, ActivationOK, ForceLabels
    <3>. QED BY <3>1, <3>2, <3>3
  <2>. QED BY <1>6, <2>1, <2>2, <2>3, <2>4 DEF ForceClose
<1>7. ASSUME NEW c \in Closers,
             CallRouterClose(c) \/ RouterExitWithError(c) \/ FinalizeRouter(c)
      PROVE  ErrorOK'
  BY <1>7 DEF CallRouterClose, RouterExitWithError, FinalizeRouter, RouterClose,
     SnapshotOpen, RouterTerminalEvent, ApplyAggregates, ApplyFinalStatus, ReportRouter,
     CleanupRouter
<1>. QED BY <1>1, <1>2, <1>3, <1>4, <1>5, <1>6, <1>7 DEF Next


(* An ended Attempt has published its result, and its error stays.           *)
LEMMA StatusKept ==
  ASSUME OrphanInv, PublishedOK, MarkOK, ErrorOK, StatusOK, ~WithBlock, [Next]_vars
  PROVE  StatusOK'
<1>0. /\ pc \in [Threads -> WorkerLabels \cup CloserLabels \cup CloseLabels]
      /\ target \in [Closers -> Attempts \cup {None}] /\ error \in [Attempts -> Errors]
      /\ status \in [Attempts -> Statuses] /\ reports \in [Attempts -> Nat]
      /\ Threads = Attempts \cup Closers /\ Attempts \cap Closers = {} /\ None \notin Threads
  BY LifecycleAssumption DEF OrphanInv, TypeInv, TypeOK, Threads
<1>a. /\ \A a \in Attempts : reports[a] = 1 => a \in closed /\ index[a] > 0
      /\ \A t \in Threads : pc[t] \in {"close_event", "close_end"} =>
           Subject(t) \in closed /\ index[Subject(t)] > 0
      /\ \A t \in Threads : pc[t] \in Unreported => reports[Subject(t)] = 0 /\ lock[Subject(t)] = t
      /\ \A t \in Threads : pc[t] \in CloseLabels => Subject(t) \in Attempts
  BY SubjectIsAttempt DEF OrphanInv, ReportOK, Unreported, LockOK, Holding
<1>b. \A a \in closed : index[a] > 0 =>
        /\ \A c \in Closers : pc[c] \in {"force_mark", "force_aggregate"} => target[c] # a
        /\ pc[a] = "finish_error" => error[a] # "none"
  BY DEF MarkOK, ErrorOK, PublishedOK, CloseLabels, OrphanInv, TypeInv, TypeOK
<1>. USE <1>0 DEF StatusOK, Goto, threadVars, flagVars, attemptSpanVars
<1>1. CASE UNCHANGED vars \/ Terminated
  BY <1>1 DEF vars, Terminated, Subject
<1>2. ASSUME NEW b \in Attempts, StartAttempt(b)
      PROVE  StatusOK'
  <2>. USE DEF Subject
  <2>1. CASE RegisterAttempt(b) \/ ActivateAttempt(b) \/ DiscardRejected(b)
    BY <2>1 DEF RegisterAttempt, ActivateAttempt, DiscardRejected
  <2>2. CASE InstallContext(b) \/ RecheckInstall(b) \/ RecordStarted(b)
    BY <2>2 DEF InstallContext, RecheckInstall, RecordStarted
  <2>. QED BY <1>2, <2>1, <2>2 DEF StartAttempt
<1>3. ASSUME NEW b \in Attempts, UseAttempt(b)
      PROVE  StatusOK'
  <2>. USE DEF Subject
  <2>1. CASE CreateAttempt(b) \/ BeginFinish(b)
    BY <2>1 DEF CreateAttempt, BeginFinish
  <2>2. CASE CallClose(b) \/ Abandon(b)
    BY <2>2 DEF CallClose, Abandon
  <2>. QED BY <1>3, <2>1, <2>2 DEF UseAttempt, ExitWithError
<1>4. ASSUME NEW b \in Attempts, FinishAttempt(b)
      PROVE  StatusOK'
  <2>1. CASE FinishSetError(b)
    <3>1. \A a \in closed : index[a] > 0 => (error'[a] # "none" <=> error[a] # "none")
      BY <1>b, <2>1 DEF FinishSetError, OrphanInv, TypeInv, TypeOK
    <3>2. status' = status /\ reports' = reports /\ target' = target
      BY <2>1 DEF FinishSetError
    <3>3. \A t \in Threads : pc'[t] \in {"close_event", "close_end"} =>
            pc'[t] = pc[t] /\ Subject(t)' = Subject(t)
      BY <2>1 DEF FinishSetError, Subject
    <3>. QED BY <1>a, <3>1, <3>2, <3>3
  <2>2. CASE FinishSetFlag(b) \/ FinishRecordEvent(b) \/ FinishAggregate(b)
    BY <2>2 DEF FinishSetFlag, FinishRecordEvent, FinishAggregate, Subject
  <2>. QED BY <1>4, <2>1, <2>2 DEF FinishAttempt
<1>5. ASSUME NEW t \in Threads, CloseAttempt(t)
      PROVE  StatusOK'
  <2>0. \A u \in Threads : Subject(u)' = Subject(u)
    BY <1>5 DEF CloseAttempt, CloseEnter, CloseStatus, CloseEvent, CloseEnd,
       CloseUnregister, CloseCleanup, Subject
  <2>1. CASE CloseEnter(t, Subject(t))
    BY <2>0, <2>1 DEF CloseEnter, AfterClose
  <2>2. CASE CloseStatus(t, Subject(t))
    <3>1. /\ pc[t] = "close_status" /\ Subject(t) \in Attempts /\ reports[Subject(t)] = 0
          /\ \A u \in Threads : u # t /\ pc[u] \in {"close_event", "close_end"} => Subject(u) # Subject(t)
      BY <1>a, <2>2 DEF CloseStatus, CloseLabels, Unreported
    <3>2. /\ pc' = [pc EXCEPT ![t] = "close_event"] /\ error' = error /\ reports' = reports
          /\ status' = [status EXCEPT ![Subject(t)] = IF error[Subject(t)] # "none" THEN "ERROR" ELSE "OK"]
      BY <2>2 DEF CloseStatus
    <3>3. \A a \in Attempts : a # Subject(t) => status'[a] = status[a]
      BY <3>1, <3>2
    <3>4. status'[Subject(t)] = "ERROR" <=> error[Subject(t)] # "none"
      BY <3>1, <3>2
    <3>5. \A a \in Attempts : reports'[a] = 1 => (status'[a] = "ERROR" <=> error'[a] # "none")
      BY <3>1, <3>2, <3>3
    <3>6. ASSUME NEW u \in Threads, pc'[u] \in {"close_event", "close_end"}
          PROVE  status'[Subject(u)] = "ERROR" <=> error'[Subject(u)] # "none"
      <4>1. CASE u = t
        BY <3>2, <3>4, <4>1
      <4>2. CASE u # t
        BY <1>a, <3>1, <3>2, <3>3, <3>6, <4>2 DEF CloseLabels
      <4>. QED BY <4>1, <4>2
    <3>. QED BY <2>0, <3>5, <3>6
  <2>3. CASE CloseEvent(t, Subject(t))
    BY <2>0, <2>3 DEF CloseEvent
  <2>4. CASE CloseEnd(t, Subject(t))
    <3>1. pc[t] = "close_end" /\ Subject(t) \in Attempts
      BY <1>a, <2>4 DEF CloseEnd, CloseLabels
    <3>. QED BY <2>0, <2>4, <3>1 DEF CloseEnd
  <2>5. CASE CloseUnregister(t, Subject(t)) \/ CloseCleanup(t, Subject(t))
    BY <2>0, <2>5 DEF CloseUnregister, CloseCleanup, AfterClose
  <2>. QED BY <1>5, <2>1, <2>2, <2>3, <2>4, <2>5 DEF CloseAttempt
<1>6. ASSUME NEW c \in Closers, ForceClose(c)
      PROVE  StatusOK'
  <2>1. CASE ForceMark(c, target[c])
    <3>1. \A a \in closed : index[a] > 0 => error'[a] = error[a]
      BY <1>b, <2>1 DEF ForceMark, OrphanInv, TypeInv, TypeOK
    <3>2. status' = status /\ reports' = reports /\ target' = target
      BY <2>1 DEF ForceMark
    <3>3. \A t \in Threads : pc'[t] \in {"close_event", "close_end"} =>
            pc'[t] = pc[t] /\ Subject(t)' = Subject(t)
      BY <2>1 DEF ForceMark, Subject
    <3>. QED BY <1>a, <3>1, <3>2, <3>3
  <2>2. CASE ForceNext(c)
    <3>1. \A t \in Threads : pc'[t] \in {"close_event", "close_end"} =>
            pc'[t] = pc[t] /\ Subject(t)' = Subject(t)
      BY <2>2 DEF ForceNext, Subject
    <3>. QED BY <2>2, <3>1 DEF ForceNext
  <2>3. CASE ForceEnter(c, target[c])
    BY <2>3 DEF ForceEnter, Subject
  <2>4. CASE ForceAggregate(c, target[c])
    BY <2>4 DEF ForceAggregate, Subject
  <2>. QED BY <1>6, <2>1, <2>2, <2>3, <2>4 DEF ForceClose
<1>7. ASSUME NEW c \in Closers,
             CallRouterClose(c) \/ RouterExitWithError(c) \/ FinalizeRouter(c)
      PROVE  StatusOK'
  BY <1>7 DEF CallRouterClose, RouterExitWithError, FinalizeRouter, RouterClose,
     SnapshotOpen, RouterTerminalEvent, ApplyAggregates, ApplyFinalStatus, ReportRouter,
     CleanupRouter, Subject
<1>. QED BY <1>1, <1>2, <1>3, <1>4, <1>5, <1>6, <1>7 DEF Next

(* A failure that is published adds one Attempt to those with an error.      *)
LEMMA FailurePublished ==
  ASSUME TypeOK, FailOK, NEW a \in Attempts, a \notin aggregated, error[a] # "none",
         aggregated' = aggregated \cup {a}, error' = error, fail' = fail + 1
  PROVE  FailOK'
<1>1. WithError \subseteq Attempts /\ a \notin WithError
  BY DEF WithError, TypeOK
<1>2. IsFiniteSet(WithError)
  BY <1>1, LifecycleAssumption, FS_Subset
<1>3. Cardinality(WithError \cup {a}) = Cardinality(WithError) + 1
  BY <1>1, <1>2, FS_AddElement
<1>4. WithError' = WithError \cup {a}
  BY DEF WithError
<1>. QED BY <1>3, <1>4 DEF FailOK

LEMMA FailKept ==
  ASSUME OrphanInv, MarkOK, ErrorOK, FailOK, LastOK, ~WithBlock, [Next]_vars
  PROVE  FailOK' /\ LastOK'
<1>0. /\ error \in [Attempts -> Errors] /\ outcome \in [Attempts -> {"success", "failure"}]
      /\ TypeOK /\ success \in Nat /\ fail \in Nat /\ aggregated \in SUBSET Attempts
  BY DEF OrphanInv, TypeInv, TypeOK
<1>a. ASSUME UNCHANGED <<success, fail, finalError, aggregated>>,
             \A a \in aggregated : error'[a] # "none" <=> error[a] # "none"
      PROVE  FailOK' /\ LastOK'
  <2>1. WithError' = WithError
    BY <1>a DEF WithError
  <2>. QED BY <1>a, <2>1 DEF FailOK, LastOK
<1>. USE <1>a DEF aggregateVars, flagVars, attemptSpanVars
<1>1. CASE UNCHANGED vars \/ Terminated
  BY <1>1 DEF vars, Terminated
<1>2. ASSUME NEW b \in Attempts, StartAttempt(b)
      PROVE  FailOK' /\ LastOK'
  BY <1>2 DEF StartAttempt, RegisterAttempt, ActivateAttempt, DiscardRejected,
     InstallContext, RecheckInstall, RecordStarted
<1>3. ASSUME NEW b \in Attempts, UseAttempt(b)
      PROVE  FailOK' /\ LastOK'
  BY <1>3 DEF UseAttempt, CreateAttempt, BeginFinish, CallClose, ExitWithError, Abandon
<1>4. ASSUME NEW b \in Attempts, FinishAttempt(b)
      PROVE  FailOK' /\ LastOK'
  <2>1. CASE FinishSetError(b)
    <3>1. pc[b] = "finish_error" /\ UNCHANGED <<success, fail, finalError, aggregated>>
          /\ error' = [error EXCEPT ![b] = IF outcome[b] = "failure" THEN "business" ELSE @]
      BY <2>1 DEF FinishSetError, Goto
    <3>2. b \in aggregated => error[b] # "none"
      BY <3>1 DEF ErrorOK, CloseLabels
    <3>3. \A a \in aggregated : error'[a] # "none" <=> error[a] # "none"
      BY <1>0, <3>1, <3>2
    <3>. QED BY <3>1, <3>3
  <2>2. CASE FinishAggregate(b)
    <3>1. /\ pc[b] = "finish_aggregate" /\ lock[b] = None /\ error' = error
          /\ TryAggregate(b, outcome[b] = "success", IF outcome[b] = "failure" THEN "business" ELSE "none")
      BY <2>2 DEF FinishAggregate, Goto, Free
    <3>2. CASE b \in aggregated
      BY <3>1, <3>2 DEF TryAggregate
    <3>3. CASE b \notin aggregated
      <4>1. \A c \in Closers : ~(target[c] = b /\ pc[c] = "force_aggregate")
        <5>1. ASSUME NEW c \in Closers, target[c] = b, pc[c] = "force_aggregate"
              PROVE  FALSE
          <6>1. Subject(c) = b /\ c \in Threads /\ c # None
            BY <5>1, LifecycleAssumption DEF Subject, Threads
          <6>2. lock[Subject(c)] = c
            BY <5>1, <6>1 DEF OrphanInv, LockOK, Holding
          <6>. QED BY <3>1, <6>1, <6>2
        <5>. QED BY <5>1
      <4>2. error[b] # "none" <=> outcome[b] = "failure"
        BY <3>1, <3>3, <4>1 DEF ErrorOK, PublishLabels
      <4>3. aggregated' = aggregated \cup {b}
        BY <3>1, <3>3 DEF TryAggregate
      <4>4. CASE outcome[b] = "failure"
        <5>1. success' = success /\ fail' = fail + 1 /\ finalError' = "business"
          BY <3>1, <3>3, <4>4 DEF TryAggregate, RegisterAttemptResult
        <5>2. FailOK'
          BY <1>0, <3>1, <3>3, <4>2, <4>3, <4>4, <5>1, FailurePublished
        <5>. QED BY <5>1, <5>2 DEF LastOK
      <4>5. CASE outcome[b] # "failure"
        <5>1. outcome[b] = "success"
          BY <1>0, <4>5
        <5>2. success' = success + 1 /\ fail' = fail
          BY <3>1, <3>3, <5>1 DEF TryAggregate, RegisterAttemptResult
        <5>3. WithError' = WithError
          BY <3>1, <4>2, <4>3, <4>5 DEF WithError
        <5>. QED BY <1>0, <5>2, <5>3 DEF FailOK, LastOK
      <4>. QED BY <4>4, <4>5
    <3>. QED BY <3>2, <3>3
  <2>3. CASE FinishSetFlag(b) \/ FinishRecordEvent(b)
    BY <2>3 DEF FinishSetFlag, FinishRecordEvent
  <2>. QED BY <1>4, <2>1, <2>2, <2>3 DEF FinishAttempt
<1>5. ASSUME NEW t \in Threads, CloseAttempt(t)
      PROVE  FailOK' /\ LastOK'
  BY <1>5 DEF CloseAttempt, CloseEnter, CloseStatus, CloseEvent, CloseEnd,
     CloseUnregister, CloseCleanup
<1>6. ASSUME NEW c \in Closers, ForceClose(c)
      PROVE  FailOK' /\ LastOK'
  <2>1. CASE ForceMark(c, target[c])
    <3>1. target[c] \notin aggregated /\ UNCHANGED <<success, fail, finalError, aggregated>>
          /\ error' = [error EXCEPT ![target[c]] = "internal"]
      BY <2>1 DEF ForceMark, Goto, MarkOK
    <3>2. \A a \in aggregated : error'[a] # "none" <=> error[a] # "none"
      BY <1>0, <3>1
    <3>. QED BY <3>1, <3>2
  <2>2. CASE ForceAggregate(c, target[c])
    <3>1. /\ target[c] \in Attempts /\ target[c] \notin aggregated /\ error[target[c]] # "none"
          /\ error' = error /\ TryAggregate(target[c], FALSE, error[target[c]])
      BY <2>2 DEF ForceAggregate, Goto, MarkOK, OrphanInv, TypeInv, TargetOK, ForceLabels
    <3>2. /\ success' = success /\ fail' = fail + 1 /\ finalError' # "none"
          /\ aggregated' = aggregated \cup {target[c]}
      BY <3>1 DEF TryAggregate, RegisterAttemptResult
    <3>3. FailOK'
      BY <1>0, <3>1, <3>2, FailurePublished
    <3>. QED BY <3>2, <3>3 DEF LastOK
  <2>3. CASE ForceNext(c) \/ ForceEnter(c, target[c])
    BY <2>3 DEF ForceNext, ForceEnter
  <2>. QED BY <1>6, <2>1, <2>2, <2>3 DEF ForceClose
<1>7. ASSUME NEW c \in Closers,
             CallRouterClose(c) \/ RouterExitWithError(c) \/ FinalizeRouter(c)
      PROVE  FailOK' /\ LastOK'
  BY <1>7 DEF CallRouterClose, RouterExitWithError, FinalizeRouter, RouterClose,
     SnapshotOpen, RouterTerminalEvent, ApplyAggregates, ApplyFinalStatus, ReportRouter,
     CleanupRouter
<1>. QED BY <1>1, <1>2, <1>3, <1>4, <1>5, <1>6, <1>7 DEF Next

(* While the Router ends, its counts change by results of rejected Attempts  *)
(* only.                                                                     *)
LEMMA AggregatesFrozen ==
  ASSUME OrphanInv, PublishedOK, Ending, ~WithBlock, [Next]_vars, NoRejectedResult'
  PROVE  NoRejectedResult /\ UNCHANGED <<success, fail, finalError>>
<1>. USE DEF aggregateVars, flagVars, NoRejectedResult
<1>0. /\ aggregated' \ aggregated \subseteq noOp
      /\ \A c \in Closers : pc[c] \notin ForceLabels \cup CloseLabels
  BY LateResultIsRejected, RecorderAlone
<1>. DEFINE Kept == /\ aggregated \subseteq aggregated' /\ noOp \subseteq noOp'
                    /\ aggregated' = aggregated => UNCHANGED <<success, fail, finalError>>
<1>1. ASSUME UNCHANGED vars \/ Terminated
      PROVE  Kept
  BY <1>1 DEF vars, Terminated
<1>2. ASSUME NEW b \in Attempts, StartAttempt(b) \/ UseAttempt(b)
      PROVE  Kept
  BY <1>2 DEF StartAttempt, UseAttempt, CreateAttempt, RegisterAttempt, ActivateAttempt,
     DiscardRejected, InstallContext, RecheckInstall, RecordStarted, BeginFinish,
     CallClose, ExitWithError, Abandon
<1>3. ASSUME NEW b \in Attempts, FinishAttempt(b)
      PROVE  Kept
  <2>1. CASE FinishAggregate(b)
    BY <2>1 DEF FinishAggregate, TryAggregate
  <2>. QED BY <1>3, <2>1 DEF FinishAttempt, FinishSetError, FinishSetFlag, FinishRecordEvent
<1>4. ASSUME NEW t \in Threads, CloseAttempt(t)
      PROVE  Kept
  BY <1>4 DEF CloseAttempt, CloseEnter, CloseStatus, CloseEvent, CloseEnd,
     CloseUnregister, CloseCleanup
<1>5. ASSUME NEW c \in Closers, ForceClose(c)
      PROVE  Kept
  <2>1. ~ForceAggregate(c, target[c])
    BY <1>0 DEF ForceAggregate, Goto, ForceLabels
  <2>. QED BY <1>5, <2>1 DEF ForceClose, ForceNext, ForceEnter, ForceMark
<1>6. ASSUME NEW c \in Closers,
             CallRouterClose(c) \/ RouterExitWithError(c) \/ FinalizeRouter(c)
      PROVE  Kept
  BY <1>6 DEF CallRouterClose, RouterExitWithError, FinalizeRouter, RouterClose,
     SnapshotOpen, RouterTerminalEvent, ApplyAggregates, ApplyFinalStatus, ReportRouter,
     CleanupRouter
<1>. HIDE DEF Kept
<1>7. Kept
  BY <1>1, <1>2, <1>3, <1>4, <1>5, <1>6 DEF Next
<1>8. aggregated' = aggregated
  BY <1>0, <1>7 DEF Kept
<1>. QED BY <1>7, <1>8 DEF Kept

(* The event and the status are made in one step each.                       *)
LEMMA OutcomeSteps ==
  ASSUME OrphanInv, [Next]_vars
  PROVE  \/ \E c \in Closers : RouterTerminalEvent(c) \/ ApplyFinalStatus(c)
         \/ /\ UNCHANGED <<routerEvents, routerStatus>>
            /\ (EventMade' <=> EventMade) /\ (StatusMade' <=> StatusMade)
<1>. SUFFICES ASSUME \A c \in Closers : ~RouterTerminalEvent(c) /\ ~ApplyFinalStatus(c)
              PROVE  /\ UNCHANGED <<routerEvents, routerStatus>>
                     /\ (EventMade' <=> EventMade) /\ (StatusMade' <=> StatusMade)
  OBVIOUS
<1>. DEFINE Quiet == /\ UNCHANGED <<routerEvents, routerStatus>>
                     /\ (EventMade' <=> EventMade) /\ (StatusMade' <=> StatusMade)
<1>0. /\ pc \in [Threads -> WorkerLabels \cup CloserLabels \cup CloseLabels]
      /\ Threads = Attempts \cup Closers /\ Attempts \cap Closers = {}
      /\ routerReports \in {0, 1}
  BY LifecycleAssumption DEF OrphanInv, TypeInv, TypeOK, Threads, CloserOK
<1>. USE <1>0 DEF EventMade, StatusMade, Goto, routerSpanVars
<1>1. ASSUME UNCHANGED vars \/ Terminated
      PROVE  Quiet
  BY <1>1 DEF vars, Terminated
<1>2. ASSUME NEW b \in Attempts, StartAttempt(b) \/ UseAttempt(b)
      PROVE  Quiet
  BY <1>2 DEF StartAttempt, UseAttempt, RegisterAttempt, ActivateAttempt, DiscardRejected,
     InstallContext, RecheckInstall, RecordStarted, CreateAttempt, BeginFinish, CallClose,
     ExitWithError, Abandon
<1>3. ASSUME NEW b \in Attempts, FinishAttempt(b)
      PROVE  Quiet
  BY <1>3 DEF FinishAttempt, FinishSetError, FinishSetFlag, FinishRecordEvent,
     FinishAggregate
<1>4. ASSUME NEW t \in Threads, CloseAttempt(t)
      PROVE  Quiet
  BY <1>4 DEF CloseAttempt, CloseEnter, CloseStatus, CloseEvent, CloseEnd,
     CloseUnregister, CloseCleanup, AfterClose
<1>5. ASSUME NEW c \in Closers, ForceClose(c)
      PROVE  Quiet
  BY <1>5 DEF ForceClose, ForceNext, ForceEnter, ForceMark, ForceAggregate
<1>6. ASSUME NEW c \in Closers, CallRouterClose(c) \/ RouterExitWithError(c)
      PROVE  Quiet
  BY <1>6 DEF CallRouterClose, RouterExitWithError
<1>7. ASSUME NEW c \in Closers, FinalizeRouter(c)
      PROVE  Quiet
  <2>1. CASE ReportRouter(c)
    <3>1. routerReports = 0
      BY <2>1 DEF ReportRouter, OrphanInv, CloserOK, Finalizing
    <3>. QED BY <2>1, <3>1 DEF ReportRouter
  <2>2. CASE ApplyAggregates(c)
    BY <2>2 DEF ApplyAggregates
  <2>3. CASE RouterClose(c) \/ SnapshotOpen(c) \/ CleanupRouter(c)
    BY <2>3 DEF RouterClose, SnapshotOpen, CleanupRouter
  <2>. QED BY <1>7, <2>1, <2>2, <2>3 DEF FinalizeRouter
<1>. QED BY <1>1, <1>2, <1>3, <1>4, <1>5, <1>6, <1>7 DEF Next

LEMMA OutcomeKept ==
  ASSUME OrphanInv, PublishedOK, OutcomeOK, ~WithBlock, [Next]_vars
  PROVE  OutcomeOK'
<1>0. /\ pc \in [Threads -> WorkerLabels \cup CloserLabels \cup CloseLabels]
      /\ Threads = Attempts \cup Closers
  BY DEF OrphanInv, TypeInv, TypeOK, Threads
<1>1. ASSUME NEW c \in Closers, RouterTerminalEvent(c)
      PROVE  OutcomeOK'
  <2>1. /\ pc[c] = "router_event" /\ pc' = [pc EXCEPT ![c] = "router_aggregates"]
        /\ UNCHANGED <<routerReports, success, fail, finalError, routerStatus>>
        /\ routerEvents' = routerEvents \cup
             {IF finalError # "none" THEN "response_failed" ELSE "response_completed"}
    BY <1>1 DEF RouterTerminalEvent, Goto, aggregateVars
  <2>2. routerReports = 0 /\ \A d \in Closers : d # c => ~Finalizing(d)
    BY <2>1 DEF OrphanInv, CloserOK, Finalizing
  <2>3. ~EventMade /\ ~StatusMade'
    <3>1. \A d \in Closers : d # c => pc[d] \in {"idle", "router_close", "done"} /\ pc'[d] = pc[d]
      BY <1>0, <2>1, <2>2 DEF Finalizing
    <3>2. pc'[c] = "router_aggregates"
      BY <1>0, <2>1
    <3>. QED BY <2>1, <2>2, <3>1, <3>2 DEF EventMade, StatusMade
  <2>4. EventMade'
    BY <1>0, <2>1 DEF EventMade
  <2>. QED BY <2>1, <2>3, <2>4 DEF OutcomeOK
<1>2. ASSUME NEW c \in Closers, ApplyFinalStatus(c)
      PROVE  OutcomeOK'
  <2>1. /\ pc[c] = "router_status" /\ pc' = [pc EXCEPT ![c] = "router_report"]
        /\ UNCHANGED <<success, fail, finalError, routerEvents, aggregated, noOp>>
        /\ routerStatus' = IF finalError # "none" \/ (fail > 0 /\ success = 0) THEN "ERROR" ELSE "OK"
    BY <1>2 DEF ApplyFinalStatus, Goto, aggregateVars, flagVars, routerSpanVars
  <2>2. EventMade /\ EventMade'
    BY <1>0, <2>1 DEF EventMade
  <2>. QED BY <2>1, <2>2 DEF OutcomeOK, NoRejectedResult
<1>3. ASSUME UNCHANGED <<routerEvents, routerStatus>>, EventMade' <=> EventMade,
             StatusMade' <=> StatusMade
      PROVE  OutcomeOK'
  <2>1. EventMade \/ StatusMade => Ending
    BY DEF EventMade, StatusMade, Ending, ReportTail
  <2>2. CASE Ending /\ NoRejectedResult'
    <3>1. NoRejectedResult /\ UNCHANGED <<success, fail, finalError>>
      BY <2>2, AggregatesFrozen
    <3>. QED BY <1>3, <2>2, <3>1 DEF OutcomeOK
  <2>3. CASE ~(Ending /\ NoRejectedResult')
    BY <1>3, <2>1, <2>3 DEF OutcomeOK
  <2>. QED BY <2>2, <2>3
<1>. QED BY <1>1, <1>2, <1>3, OutcomeSteps

LEMMA InitOutcome == Init => OutcomeInv
<1>. SUFFICES ASSUME Init PROVE OutcomeInv
  OBVIOUS
<1>1. (\A c \in Closers : pc[c] = "idle") /\ (\A a \in Attempts : pc[a] = "attempt")
  BY LifecycleAssumption DEF Init, Threads
<1>2. WithError = {} /\ Cardinality({}) = 0
  BY FS_EmptySet DEF Init, WithError
<1>3. MarkOK /\ ErrorOK
  BY <1>1 DEF Init, MarkOK, ErrorOK, PublishLabels
<1>4. StatusOK
  BY <1>1 DEF Init, StatusOK, Threads
<1>5. FailOK /\ LastOK
  BY <1>2 DEF Init, FailOK, LastOK
<1>6. OutcomeOK
  BY <1>1 DEF Init, OutcomeOK, EventMade, StatusMade
<1>. QED BY <1>3, <1>4, <1>5, <1>6 DEF OutcomeInv

LEMMA OutcomeInvariant ==
  ASSUME ~WithBlock
  PROVE  Spec => [](OrphanInv /\ PublishedOK /\ OutcomeInv)
<1>1. OrphanInv /\ PublishedOK /\ OutcomeInv /\ [Next]_vars => OutcomeInv'
  BY MarkKept, ErrorKept, StatusKept, FailKept, OutcomeKept DEF OutcomeInv
<1>2. OrphanInv /\ PublishedOK /\ [Next]_vars => PublishedOK'
  BY PublishedKept
<1>. QED BY <1>1, <1>2, InitOutcome, InitRecord, OrphanInvariant, PTL DEF Spec

(* RouterSpan.close reads _final_error for the terminal event and again for  *)
(* the status, while workers still publish results: where no raise leaves    *)
(* the with-blocks, it records one event, of the kind of the status, unless  *)
(* the result of a rejected Attempt came in between.                         *)
THEOREM EventMatchesStatus ==
  ASSUME ~WithBlock
  PROVE  Spec => []RouterEventMatchesStatus
<1>1. OrphanInv /\ OutcomeInv => RouterEventMatchesStatus
  <2>. SUFFICES ASSUME OrphanInv, OutcomeInv, RouterReported, NoRejectedResult
                PROVE  routerEvents = {IF routerStatus = "ERROR" THEN "response_failed"
                                                                 ELSE "response_completed"}
    BY DEF RouterEventMatchesStatus
  <2>1. EventMade /\ StatusMade
    BY DEF RouterReported, OrphanInv, CloserOK, EventMade, StatusMade
  <2>2. fail \in Nat /\ success \in Nat
    BY DEF OrphanInv, TypeInv, TypeOK
  <2>. QED BY <2>1, <2>2 DEF OutcomeInv, OutcomeOK, LastOK
<1>. QED BY <1>1, OutcomeInvariant, PTL

(* The Router counts a failure when it is published, and the span of the     *)
(* Attempt takes its status from its own error when it is ended, by whoever  *)
(* ends it: when the Router is reported the two agree, for any number of     *)
(* Attempts and closers, where no raise leaves the with-blocks.              *)
THEOREM EveryFailureCounted ==
  ASSUME ~WithBlock
  PROVE  Spec => []RouterCountsEveryFailure
<1>1. OrphanInv /\ PublishedOK /\ OutcomeInv => RouterCountsEveryFailure
  <2>. SUFFICES ASSUME OrphanInv, PublishedOK, OutcomeInv, RouterReported, NoRejectedResult
                PROVE  WithError = FailedAttempts
    BY DEF RouterCountsEveryFailure, OutcomeInv, FailOK
  <2>1. Ending
    BY DEF RouterReported, OrphanInv, CloserOK, Ending
  <2>2. /\ \A a \in Attempts : index[a] > 0 => reports[a] = 1
        /\ \A c \in Closers : pc[c] # "force_aggregate"
    BY <2>1, RecorderAlone DEF ForceLabels
  <2>3. \A a \in Attempts : reports[a] = 1 => a \in closed /\ (status[a] = "ERROR" <=> error[a] # "none")
    BY DEF OrphanInv, ReportOK, OutcomeInv, StatusOK
  <2>4. \A a \in aggregated : a \in Attempts /\ index[a] > 0
    BY DEF OrphanInv, TypeInv, TypeOK, ActivationOK, OutcomeInv, ErrorOK, NoRejectedResult
  <2>5. \A a \in Activated : error[a] # "none" => a \in aggregated
    <3>. SUFFICES ASSUME NEW a \in Attempts, index[a] > 0, error[a] # "none", a \notin aggregated
                  PROVE  FALSE
      BY DEF Activated
    <3>1. pc[a] \in CloseLabels \cup {"done"}
      BY <2>2, <2>3 DEF PublishedOK
    <3>2. pc[a] \in PublishLabels
      BY <2>2 DEF OutcomeInv, ErrorOK
    <3>. QED BY <3>1, <3>2 DEF CloseLabels, PublishLabels
  <2>. QED BY <2>2, <2>3, <2>4, <2>5 DEF WithError, FailedAttempts, Activated
<1>. QED BY <1>1, OutcomeInvariant, PTL
=============================================================================
