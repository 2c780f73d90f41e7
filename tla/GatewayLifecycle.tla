---------------------------- MODULE GatewayLifecycle ----------------------------
(***************************************************************************)
(* One gateway request: a started RouterSpan, its AttemptSpans, the worker *)
(* threads that drive the Attempts (hedged or retried upstream calls) and  *)
(* the threads that close the Router.                                      *)
(*                                                                         *)
(* A thread takes one step per critical section and one step per shared    *)
(* field it touches without a lock, in the order of the source.  Attempt   *)
(* _lifecycle_lock is explicit (lock[a]), because close() and              *)
(* force_close() read fields under it that finalize_attempt() writes       *)
(* without it.  _open_attempts_lock and _aggregate_lock only guard         *)
(* sections that touch nothing else, so each such section is one step.     *)
(*                                                                         *)
(* The worker of Attempt a is the thread a itself.                         *)
(***************************************************************************)
EXTENDS Naturals, FiniteSets

CONSTANTS
  Attempts,   (* AttemptSpans; each is driven by a worker of the same name     *)
  Closers,    (* threads that call RouterSpan.close() or leave its with-block  *)
  Outcomes,   (* results a finished upstream call may have                     *)
  WithBlock,  (* TRUE when gateway code may raise out of "with attempt:" and   *)
              (* "with router:"                                                *)
  None        (* no thread, no attempt                                         *)

ASSUME LifecycleAssumption ==
  /\ IsFiniteSet(Attempts)
  /\ Attempts \cap Closers = {}
  /\ None \notin Attempts \cup Closers
  /\ Outcomes \subseteq {"success", "failure"}
  /\ WithBlock \in BOOLEAN

Threads == Attempts \cup Closers
Errors == {"none", "business", "internal"}
Statuses == {"unset", "OK", "ERROR"}
AttemptEvents == {"started", "completed", "failed"}
RouterEvents == {"response_completed", "response_failed"}

CloseLabels == {"close_lock", "close_status", "close_event", "close_end",
                "close_unregister", "close_cleanup"}
WorkerLabels == {"attempt", "register", "activate", "discard", "install",
                 "installed", "confirmed", "running", "finish_error", "finish_flag",
                 "finish_event", "finish_aggregate", "finished", "done"}
CloserLabels == {"idle", "router_close", "snapshot", "force", "force_lock",
                 "force_mark", "force_aggregate", "router_event",
                 "router_aggregates", "router_status", "router_report",
                 "router_cleanup", "done"}

VARIABLES
  pc,            (* next step of each thread                                   *)
  target,        (* the Attempt a closer is force-closing                      *)
  pending,       (* a closer's snapshot of the open Attempts, still to close   *)
  outcome,       (* result a worker's finalize_attempt() call carries          *)
  lock,          (* holder of AttemptSpan._lifecycle_lock                      *)
  (* RouterSpan *)
  routerClosed,  (* _closed                                                    *)
  open,          (* _open_attempts                                             *)
  index,         (* attempt_index given at activation, 0 before                *)
  success, fail, (* _success_count, _fail_count                                *)
  finalError,    (* _final_error                                               *)
  routerStatus, routerEvents,
  record,        (* what _apply_aggregates() copied onto the Router span       *)
  routerReports, (* Router records handed to the Reporter                      *)
  routerLive,    (* the Router is in the RouterRegistry                        *)
  (* AttemptSpans *)
  registry,      (* Attempts in the AttemptRegistry                            *)
  noOp, closing, closed, aggregated, termFlag, ctx,
                 (* _no_op, _closing, _closed, _aggregated_to_router,
                    _terminal_event_recorded, own ContextVar token installed on
                    the worker                   *)
  error, status, events,
  reports        (* Attempt records handed to the Reporter                     *)

threadVars == <<target, pending, outcome>>
openVars == <<routerClosed, open, index>>
aggregateVars == <<success, fail, finalError>>
routerSpanVars == <<routerStatus, routerEvents, record, routerReports, routerLive>>
flagVars == <<noOp, closing, closed, aggregated, termFlag, ctx>>
attemptSpanVars == <<error, status, events, reports>>
vars == <<pc, threadVars, lock, openVars, aggregateVars, routerSpanVars,
          registry, flagVars, attemptSpanVars>>

NoRecord == [attempts |-> 0, finalError |-> "none", results |-> {}]

Activated == {a \in Attempts : index[a] > 0}
AttemptCount == Cardinality(Activated)

(* Types, and that workers and closers keep to their own steps.            *)
TypeOK ==
  /\ pc \in [Threads -> WorkerLabels \cup CloserLabels \cup CloseLabels]
  /\ \A a \in Attempts : pc[a] \in WorkerLabels \cup CloseLabels
  /\ \A c \in Closers : pc[c] \in CloserLabels \cup CloseLabels
  /\ target \in [Closers -> Attempts \cup {None}]
  /\ pending \in [Closers -> SUBSET Attempts]
  /\ outcome \in [Attempts -> {"success", "failure"}]
  /\ lock \in [Attempts -> Threads \cup {None}]
  /\ routerClosed \in BOOLEAN
  /\ open \in SUBSET Attempts
  /\ index \in [Attempts -> Nat]
  /\ success \in Nat
  /\ fail \in Nat
  /\ finalError \in Errors
  /\ routerStatus \in Statuses
  /\ routerEvents \in SUBSET RouterEvents
  /\ record \in [attempts : Nat, finalError : Errors, results : SUBSET Attempts]
  /\ routerReports \in Nat
  /\ routerLive \in BOOLEAN
  /\ registry \in SUBSET Attempts
  /\ noOp \in SUBSET Attempts
  /\ closing \in SUBSET Attempts
  /\ closed \in SUBSET Attempts
  /\ aggregated \in SUBSET Attempts
  /\ termFlag \in SUBSET Attempts
  /\ ctx \in SUBSET Attempts
  /\ error \in [Attempts -> Errors]
  /\ status \in [Attempts -> Statuses]
  /\ events \in [Attempts -> SUBSET AttemptEvents]
  /\ reports \in [Attempts -> Nat]

(* A Router that was just started: no Attempt exists yet.                  *)
Init ==
  /\ pc = [t \in Threads |-> IF t \in Attempts THEN "attempt" ELSE "idle"]
  /\ target = [c \in Closers |-> None]
  /\ pending = [c \in Closers |-> {}]
  /\ outcome = [a \in Attempts |-> "success"]
  /\ lock = [a \in Attempts |-> None]
  /\ routerClosed = FALSE
  /\ open = {}
  /\ index = [a \in Attempts |-> 0]
  /\ success = 0
  /\ fail = 0
  /\ finalError = "none"
  /\ routerStatus = "unset"
  /\ routerEvents = {}
  /\ record = NoRecord
  /\ routerReports = 0
  /\ routerLive = TRUE
  /\ registry = {}
  /\ noOp = {}
  /\ closing = {}
  /\ closed = {}
  /\ aggregated = {}
  /\ termFlag = {}
  /\ ctx = {}
  /\ error = [a \in Attempts |-> "none"]
  /\ status = [a \in Attempts |-> "unset"]
  /\ events = [a \in Attempts |-> {}]
  /\ reports = [a \in Attempts |-> 0]

Goto(t, from, to) ==
  /\ pc[t] = from
  /\ pc' = [pc EXCEPT ![t] = to]

Free(a) == lock[a] = None
Acquire(t, a) == Free(a) /\ lock' = [lock EXCEPT ![a] = t]
Release(a) == lock' = [lock EXCEPT ![a] = None]

(* The Attempt whose close() thread t is running.                          *)
Subject(t) == IF t \in Attempts THEN t ELSE target[t]
(* Mutant of AfterClose: the caller is taken for a force_close.            *)
AfterCloseAsForced(t) == "force"

(* Where thread t goes when close() returns.                               *)
AfterClose(t) == IF t \in Attempts THEN "done" ELSE "force"

(***************************************************************************)
(* RouterSpan.register_attempt_result: counts and last-writer-wins error,  *)
(* one critical section of _aggregate_lock.                                *)
(***************************************************************************)
RegisterAttemptResult(ok, e) ==
  /\ success' = IF ok THEN success + 1 ELSE success
  /\ fail' = IF ok THEN fail ELSE fail + 1
  /\ finalError' = e

(* Mutant of TryAggregate: publishes without looking at the claim.         *)
TryAggregateUnclaimed(a, ok, e) ==
  /\ RegisterAttemptResult(ok, e)
  /\ aggregated' = aggregated \cup {a}

(***************************************************************************)
(* AttemptSpan.try_aggregate_result: check, publish and claim under the    *)
(* lifecycle lock.                                                         *)
(***************************************************************************)
TryAggregate(a, ok, e) ==
  IF a \in aggregated
  THEN UNCHANGED <<aggregateVars, aggregated>>
  ELSE /\ RegisterAttemptResult(ok, e)
       /\ aggregated' = aggregated \cup {a}

-----------------------------------------------------------------------------
(* AttemptSpan.start, run by the worker                                    *)

(* router.attempt() and the quick closed-check at the top of start().      *)
CreateAttempt(a) ==
  /\ pc[a] = "attempt"
  /\ \/ /\ routerClosed
        /\ noOp' = noOp \cup {a}
        /\ pc' = [pc EXCEPT ![a] = "running"]
     \/ /\ ~routerClosed
        /\ pc' = [pc EXCEPT ![a] = "register"]
        /\ UNCHANGED noOp
  /\ UNCHANGED <<threadVars, lock, openVars, aggregateVars, routerSpanVars, registry,
                 closing, closed, aggregated, termFlag, ctx, attemptSpanVars>>

RegisterAttempt(a) ==
  /\ Goto(a, "register", "activate")
  /\ registry' = registry \cup {a}
  /\ UNCHANGED <<threadVars, lock, openVars, aggregateVars, routerSpanVars, flagVars,
                 attemptSpanVars>>

(* Mutant of ActivateAttempt: no closed-check under the lock.              *)
ActivateUnchecked(a) ==
  /\ Goto(a, "activate", "install")
  /\ index' = [index EXCEPT ![a] = AttemptCount + 1]
  /\ open' = open \cup {a}
  /\ UNCHANGED <<threadVars, lock, routerClosed, aggregateVars, routerSpanVars, registry,
                 flagVars, attemptSpanVars>>

(* RouterSpan.activate_attempt under _open_attempts_lock: closed-check,    *)
(* index allocation and open registration are one step; a rejected Attempt *)
(* becomes a no-op.                                                        *)
ActivateAttempt(a) ==
  /\ pc[a] = "activate"
  /\ \/ /\ ~routerClosed
        /\ index' = [index EXCEPT ![a] = AttemptCount + 1]
        /\ open' = open \cup {a}
        /\ pc' = [pc EXCEPT ![a] = "install"]
        /\ UNCHANGED noOp
     \/ /\ routerClosed
        /\ noOp' = noOp \cup {a}
        /\ pc' = [pc EXCEPT ![a] = "discard"]
        /\ UNCHANGED <<index, open>>
  /\ UNCHANGED <<threadVars, lock, routerClosed, aggregateVars, routerSpanVars, registry,
                 closing, closed, aggregated, termFlag, ctx, attemptSpanVars>>

(* Mutant of DiscardRejected: the registry entry stays.                    *)
DiscardKeepsEntry(a) ==
  /\ Goto(a, "discard", "running")
  /\ UNCHANGED <<threadVars, lock, openVars, aggregateVars, routerSpanVars, registry,
                 flagVars, attemptSpanVars>>

DiscardRejected(a) ==
  /\ Goto(a, "discard", "running")
  /\ registry' = registry \ {a}
  /\ UNCHANGED <<threadVars, lock, openVars, aggregateVars, routerSpanVars, flagVars,
                 attemptSpanVars>>

(* Mutant of InstallContext: the critical section is not locked.           *)
InstallUnlocked(a) ==
  /\ pc[a] = "install"
  /\ IF a \in closed \cup noOp \cup closing
     THEN pc' = [pc EXCEPT ![a] = "running"] /\ UNCHANGED ctx
     ELSE pc' = [pc EXCEPT ![a] = "installed"] /\ ctx' = ctx \cup {a}
  /\ UNCHANGED <<threadVars, lock, openVars, aggregateVars, routerSpanVars, registry,
                 noOp, closing, closed, aggregated, termFlag, attemptSpanVars>>

(* _activate_context_and_started_event, first part: entry check, then      *)
(* set_attempt.                                                            *)
InstallContext(a) ==
  /\ pc[a] = "install"
  /\ Free(a)
  /\ IF a \in closed \cup noOp \cup closing
     THEN /\ pc' = [pc EXCEPT ![a] = "running"]
          /\ UNCHANGED <<lock, ctx>>
     ELSE /\ pc' = [pc EXCEPT ![a] = "installed"]
          /\ lock' = [lock EXCEPT ![a] = a]
          /\ ctx' = ctx \cup {a}
  /\ UNCHANGED <<threadVars, openVars, aggregateVars, routerSpanVars, registry,
                 noOp, closing, closed, aggregated, termFlag, attemptSpanVars>>

(* Mutant of RecheckInstall: returns with the lock held.                   *)
RecheckLeaksLock(a) ==
  /\ pc[a] = "installed"
  /\ IF a \in closed \cup closing
     THEN /\ pc' = [pc EXCEPT ![a] = "running"]
          /\ ctx' = ctx \ {a}
     ELSE /\ pc' = [pc EXCEPT ![a] = "confirmed"]
          /\ UNCHANGED ctx
  /\ UNCHANGED <<threadVars, lock, openVars, aggregateVars, routerSpanVars, registry,
                 noOp, closing, closed, aggregated, termFlag, attemptSpanVars>>

(* Second part: the post-install re-check; _closing is set without the     *)
(* lock, so it may have changed since the entry check.                     *)
RecheckInstall(a) ==
  /\ pc[a] = "installed"
  /\ IF a \in closed \cup closing
     THEN /\ pc' = [pc EXCEPT ![a] = "running"]
          /\ Release(a)
          /\ ctx' = ctx \ {a}
     ELSE /\ pc' = [pc EXCEPT ![a] = "confirmed"]
          /\ UNCHANGED <<lock, ctx>>
  /\ UNCHANGED <<threadVars, openVars, aggregateVars, routerSpanVars, registry,
                 noOp, closing, closed, aggregated, termFlag, attemptSpanVars>>

(* Last part: gateway.attempt.started, still under the lock.               *)
RecordStarted(a) ==
  /\ Goto(a, "confirmed", "running")
  /\ Release(a)
  /\ events' = [events EXCEPT ![a] = @ \cup {"started"}]
  /\ UNCHANGED <<threadVars, openVars, aggregateVars, routerSpanVars, registry, flagVars,
                 error, status, reports>>

-----------------------------------------------------------------------------
(* GatewayRuntime.finalize_attempt, run by the worker                      *)

BeginFinish(a) ==
  /\ Goto(a, "running", "finish_error")
  /\ \E o \in Outcomes : outcome' = [outcome EXCEPT ![a] = o]
  /\ UNCHANGED <<target, pending, lock, openVars, aggregateVars, routerSpanVars,
                 registry, flagVars, attemptSpanVars>>

(* attempt.set_error when the call failed, without a lock.                 *)
FinishSetError(a) ==
  /\ Goto(a, "finish_error", "finish_flag")
  /\ error' = [error EXCEPT ![a] = IF outcome[a] = "failure" THEN "business" ELSE @]
  /\ UNCHANGED <<threadVars, lock, openVars, aggregateVars, routerSpanVars, registry,
                 flagVars, status, events, reports>>

FinishSetFlag(a) ==
  /\ Goto(a, "finish_flag", "finish_event")
  /\ termFlag' = termFlag \cup {a}
  /\ UNCHANGED <<threadVars, lock, openVars, aggregateVars, routerSpanVars, registry,
                 noOp, closing, closed, aggregated, ctx, attemptSpanVars>>

(* The event lands on the recorder's span; a no-op Attempt has no span to  *)
(* report, so its events are not tracked.                                  *)
FinishRecordEvent(a) ==
  /\ Goto(a, "finish_event", "finish_aggregate")
  /\ events' = [events EXCEPT ![a] =
                  IF a \in noOp THEN @
                  ELSE @ \cup {IF outcome[a] = "success" THEN "completed" ELSE "failed"}]
  /\ UNCHANGED <<threadVars, lock, openVars, aggregateVars, routerSpanVars, registry,
                 flagVars, error, status, reports>>

(* try_aggregate_result has no closed-check: a result of a no-op Attempt   *)
(* is published too.                                                       *)
FinishAggregate(a) ==
  /\ Goto(a, "finish_aggregate", "finished")
  /\ Free(a)
  /\ TryAggregate(a, outcome[a] = "success",
                  IF outcome[a] = "failure" THEN "business" ELSE "none")
  /\ UNCHANGED <<threadVars, lock, openVars, routerSpanVars, registry,
                 noOp, closing, closed, termFlag, ctx, attemptSpanVars>>

(* The worker calls close(), with or without a finalize_attempt before.    *)
CallClose(a) ==
  /\ pc[a] \in {"running", "finished"}
  /\ pc' = [pc EXCEPT ![a] = "close_lock"]
  /\ UNCHANGED <<threadVars, lock, openVars, aggregateVars, routerSpanVars, registry,
                 flagVars, attemptSpanVars>>

(* AttemptSpan.__exit__ on a raise: classify, then close(); no result is   *)
(* aggregated.                                                             *)
ExitWithError(a) ==
  /\ WithBlock
  /\ pc[a] \in {"running", "finished"}
  /\ pc' = [pc EXCEPT ![a] = "close_lock"]
  /\ error' = [error EXCEPT ![a] = IF @ = "none" THEN "business" ELSE @]
  /\ UNCHANGED <<threadVars, lock, openVars, aggregateVars, routerSpanVars, registry,
                 flagVars, status, events, reports>>

(* The owner never closes the Attempt; close() of the Router has to.       *)
Abandon(a) ==
  /\ pc[a] \in {"running", "finished"}
  /\ pc' = [pc EXCEPT ![a] = "done"]
  /\ UNCHANGED <<threadVars, lock, openVars, aggregateVars, routerSpanVars, registry,
                 flagVars, attemptSpanVars>>

-----------------------------------------------------------------------------
(* AttemptSpan.close, run by the worker or, from force_close, by a closer  *)

(* Entry: a second close finds the token already dropped by the first and  *)
(* does nothing; a no-op Attempt is discarded.                             *)
CloseEnter(t, a) ==
  /\ pc[t] = "close_lock"
  /\ \/ /\ a \in closed
        /\ Free(a)
        /\ pc' = [pc EXCEPT ![t] = AfterClose(t)]
        /\ UNCHANGED <<lock, closed>>
     \/ /\ a \notin closed
        /\ a \in noOp
        /\ Free(a)
        /\ closed' = closed \cup {a}
        /\ pc' = [pc EXCEPT ![t] = AfterClose(t)]
        /\ UNCHANGED lock
     \/ /\ a \notin closed \cup noOp
        /\ Acquire(t, a)
        /\ closed' = closed \cup {a}
        /\ pc' = [pc EXCEPT ![t] = "close_status"]
  /\ UNCHANGED <<threadVars, openVars, aggregateVars, routerSpanVars, registry,
                 noOp, closing, aggregated, termFlag, ctx, attemptSpanVars>>

CloseStatus(t, a) ==
  /\ Goto(t, "close_status", "close_event")
  /\ status' = [status EXCEPT ![a] = IF error[a] # "none" THEN "ERROR" ELSE "OK"]
  /\ UNCHANGED <<threadVars, lock, openVars, aggregateVars, routerSpanVars, registry,
                 flagVars, error, events, reports>>

(* _record_terminal_event: the fallback when finalize_attempt set no flag. *)
CloseEvent(t, a) ==
  /\ Goto(t, "close_event", "close_end")
  /\ IF a \in termFlag
     THEN UNCHANGED <<termFlag, events>>
     ELSE /\ termFlag' = termFlag \cup {a}
          /\ events' = [events EXCEPT ![a] =
                          @ \cup {IF error[a] # "none" THEN "failed" ELSE "completed"}]
  /\ UNCHANGED <<threadVars, lock, openVars, aggregateVars, routerSpanVars, registry,
                 noOp, closing, closed, aggregated, ctx,
                 error, status, reports>>

(* span.end and the report of a sampled Attempt.                           *)
CloseEnd(t, a) ==
  /\ Goto(t, "close_end", "close_unregister")
  /\ reports' = [reports EXCEPT ![a] = @ + 1]
  /\ UNCHANGED <<threadVars, lock, openVars, aggregateVars, routerSpanVars, registry,
                 flagVars, error, status, events>>

CloseUnregister(t, a) ==
  /\ Goto(t, "close_unregister", "close_cleanup")
  /\ open' = open \ {a}
  /\ UNCHANGED <<threadVars, lock, routerClosed, index, aggregateVars, routerSpanVars,
                 registry, flagVars, attemptSpanVars>>

(* Rest of _cleanup: the registry entry, then the ContextVar of the        *)
(* calling thread only; a token of another thread cannot be reset.         *)
CloseCleanup(t, a) ==
  /\ Goto(t, "close_cleanup", AfterClose(t))
  /\ Release(a)
  /\ registry' = registry \ {a}
  /\ ctx' = ctx \ {t}
  /\ UNCHANGED <<threadVars, openVars, aggregateVars, routerSpanVars,
                 noOp, closing, closed, aggregated, termFlag, attemptSpanVars>>

CloseAttempt(t) ==
  \/ CloseEnter(t, Subject(t))
  \/ CloseStatus(t, Subject(t))
  \/ CloseEvent(t, Subject(t))
  \/ CloseEnd(t, Subject(t))
  \/ CloseUnregister(t, Subject(t))
  \/ CloseCleanup(t, Subject(t))

-----------------------------------------------------------------------------
(* AttemptSpan.force_close, run by a closer                                *)

(* Next Attempt of the snapshot, in dict order: activation order.  _closing *)
(* is set before the lock is asked for.                                     *)
ForceNext(c) ==
  /\ pc[c] = "force"
  /\ \/ /\ pending[c] = {}
        /\ pc' = [pc EXCEPT ![c] = "router_event"]
        /\ target' = [target EXCEPT ![c] = None]
        /\ UNCHANGED <<pending, closing>>
     \/ \E a \in pending[c] :
          /\ \A b \in pending[c] : index[a] <= index[b]
          /\ target' = [target EXCEPT ![c] = a]
          /\ pending' = [pending EXCEPT ![c] = @ \ {a}]
          /\ closing' = closing \cup {a}
          /\ pc' = [pc EXCEPT ![c] = "force_lock"]
  /\ UNCHANGED <<outcome, lock, openVars, aggregateVars, routerSpanVars, registry,
                 noOp, closed, aggregated, termFlag, ctx, attemptSpanVars>>

(* Mutants of ForceEnter: the closed-check before the lock, as a quick     *)
(* return; no regard for a result that is already aggregated.              *)
ForceEnterQuick(c, a) ==
  /\ pc[c] = "force_lock"
  /\ IF a \in closed
     THEN pc' = [pc EXCEPT ![c] = "force"] /\ UNCHANGED lock
     ELSE /\ Acquire(c, a)
          /\ pc' = [pc EXCEPT ![c] = IF error[a] = "none" THEN "force_mark"
                                                          ELSE "force_aggregate"]
  /\ UNCHANGED <<threadVars, openVars, aggregateVars, routerSpanVars, registry,
                 flagVars, attemptSpanVars>>

ForceEnterOverAggregated(c, a) ==
  /\ pc[c] = "force_lock"
  /\ Free(a)
  /\ IF a \in closed
     THEN pc' = [pc EXCEPT ![c] = "force"] /\ UNCHANGED lock
     ELSE /\ Acquire(c, a)
          /\ pc' = [pc EXCEPT ![c] = IF error[a] = "none" THEN "force_mark"
                                                          ELSE "force_aggregate"]
  /\ UNCHANGED <<threadVars, openVars, aggregateVars, routerSpanVars, registry,
                 flagVars, attemptSpanVars>>

(* Under the lock: closed -> done; aggregated -> keep the outcome and only *)
(* close; otherwise mark (when no business error is there) and aggregate.  *)
ForceEnter(c, a) ==
  /\ pc[c] = "force_lock"
  /\ \/ /\ a \in closed
        /\ Free(a)
        /\ pc' = [pc EXCEPT ![c] = "force"]
        /\ UNCHANGED lock
     \/ /\ a \in aggregated \ closed
        /\ Free(a)
        /\ pc' = [pc EXCEPT ![c] = "close_lock"]
        /\ UNCHANGED lock
     \/ /\ a \notin aggregated \cup closed
        /\ Acquire(c, a)
        /\ pc' = [pc EXCEPT ![c] = IF error[a] = "none" THEN "force_mark"
                                                        ELSE "force_aggregate"]
  /\ UNCHANGED <<threadVars, openVars, aggregateVars, routerSpanVars, registry,
                 flagVars, attemptSpanVars>>

ForceMark(c, a) ==
  /\ Goto(c, "force_mark", "force_aggregate")
  /\ error' = [error EXCEPT ![a] = "internal"]
  /\ UNCHANGED <<threadVars, lock, openVars, aggregateVars, routerSpanVars, registry,
                 flagVars, status, events, reports>>

(* _aggregate_force_close_result; the lock is then released before close() *)
(* takes it again.                                                         *)
ForceAggregate(c, a) ==
  /\ Goto(c, "force_aggregate", "close_lock")
  /\ Release(a)
  /\ TryAggregate(a, FALSE, error[a])
  /\ UNCHANGED <<threadVars, openVars, routerSpanVars, registry,
                 noOp, closing, closed, termFlag, ctx, attemptSpanVars>>

ForceClose(c) ==
  \/ ForceNext(c)
  \/ ForceEnter(c, target[c])
  \/ ForceMark(c, target[c])
  \/ ForceAggregate(c, target[c])

-----------------------------------------------------------------------------
(* RouterSpan.close and RouterSpan.__exit__, run by a closer               *)

(* The gateway finalizes the request.                                      *)
CallRouterClose(c) ==
  /\ Goto(c, "idle", "router_close")
  /\ UNCHANGED <<threadVars, lock, openVars, aggregateVars, routerSpanVars, registry,
                 flagVars, attemptSpanVars>>

(* __exit__ on a raise: only a Router without Attempts takes the error.    *)
RouterExitWithError(c) ==
  /\ WithBlock
  /\ Goto(c, "idle", "router_close")
  /\ finalError' = IF finalError = "none" /\ AttemptCount = 0
                   THEN "business" ELSE finalError
  /\ UNCHANGED <<threadVars, lock, openVars, success, fail, routerSpanVars, registry,
                 flagVars, attemptSpanVars>>

(* Mutant of RouterClose: the flag is set but not tested.                  *)
RouterCloseUnchecked(c) ==
  /\ Goto(c, "router_close", "snapshot")
  /\ routerClosed' = TRUE
  /\ UNCHANGED <<threadVars, lock, open, index, aggregateVars, routerSpanVars, registry,
                 flagVars, attemptSpanVars>>

(* _closed is set under _open_attempts_lock; a second caller returns while *)
(* the first still runs.                                                   *)
RouterClose(c) ==
  /\ pc[c] = "router_close"
  /\ routerClosed' = TRUE
  /\ pc' = [pc EXCEPT ![c] = IF routerClosed THEN "done" ELSE "snapshot"]
  /\ UNCHANGED <<threadVars, lock, open, index, aggregateVars, routerSpanVars, registry,
                 flagVars, attemptSpanVars>>

(* Mutant of SnapshotOpen: cleared before it is copied.                    *)
SnapshotAfterClear(c) ==
  /\ Goto(c, "snapshot", "force")
  /\ pending' = [pending EXCEPT ![c] = {}]
  /\ open' = {}
  /\ UNCHANGED <<target, outcome, lock, routerClosed, index, aggregateVars,
                 routerSpanVars, registry, flagVars, attemptSpanVars>>

(* _force_close_open_attempts, a second critical section of the same lock. *)
SnapshotOpen(c) ==
  /\ Goto(c, "snapshot", "force")
  /\ pending' = [pending EXCEPT ![c] = open]
  /\ open' = {}
  /\ UNCHANGED <<target, outcome, lock, routerClosed, index, aggregateVars,
                 routerSpanVars, registry, flagVars, attemptSpanVars>>

(* Mutant of RouterTerminalEvent: any failed attempt counts, also when a   *)
(* retry succeeded.                                                        *)
RouterEventByFailCount(c) ==
  /\ Goto(c, "router_event", "router_aggregates")
  /\ routerEvents' = routerEvents \cup
       {IF fail > 0 THEN "response_failed" ELSE "response_completed"}
  /\ UNCHANGED <<threadVars, lock, openVars, aggregateVars, routerStatus, record,
                 routerReports, routerLive, registry, flagVars, attemptSpanVars>>

RouterTerminalEvent(c) ==
  /\ Goto(c, "router_event", "router_aggregates")
  /\ routerEvents' = routerEvents \cup
       {IF finalError # "none" THEN "response_failed" ELSE "response_completed"}
  /\ UNCHANGED <<threadVars, lock, openVars, aggregateVars, routerStatus, record,
                 routerReports, routerLive, registry, flagVars, attemptSpanVars>>

(* _apply_aggregates: one snapshot under _aggregate_lock.  Usage and cost  *)
(* sums are represented by the set of Attempts whose result they include.  *)
ApplyAggregates(c) ==
  /\ Goto(c, "router_aggregates", "router_status")
  /\ record' = [attempts |-> AttemptCount, finalError |-> finalError,
                results |-> aggregated]
  /\ UNCHANGED <<threadVars, lock, openVars, aggregateVars, routerStatus, routerEvents,
                 routerReports, routerLive, registry, flagVars, attemptSpanVars>>

(* _apply_final_status reads the aggregate again, without the lock.        *)
ApplyFinalStatus(c) ==
  /\ Goto(c, "router_status", "router_report")
  /\ routerStatus' = IF finalError # "none" \/ (fail > 0 /\ success = 0)
                     THEN "ERROR" ELSE "OK"
  /\ UNCHANGED <<threadVars, lock, openVars, aggregateVars, routerEvents, record,
                 routerReports, routerLive, registry, flagVars, attemptSpanVars>>

ReportRouter(c) ==
  /\ Goto(c, "router_report", "router_cleanup")
  /\ routerReports' = routerReports + 1
  /\ UNCHANGED <<threadVars, lock, openVars, aggregateVars, routerStatus, routerEvents,
                 record, routerLive, registry, flagVars, attemptSpanVars>>

CleanupRouter(c) ==
  /\ Goto(c, "router_cleanup", "done")
  /\ routerLive' = FALSE
  /\ UNCHANGED <<threadVars, lock, openVars, aggregateVars, routerStatus, routerEvents,
                 record, routerReports, registry, flagVars, attemptSpanVars>>

FinalizeRouter(c) ==
  \/ RouterClose(c)
  \/ SnapshotOpen(c)
  \/ RouterTerminalEvent(c)
  \/ ApplyAggregates(c)
  \/ ApplyFinalStatus(c)
  \/ ReportRouter(c)
  \/ CleanupRouter(c)

-----------------------------------------------------------------------------
StartAttempt(a) ==
  \/ RegisterAttempt(a)
  \/ ActivateAttempt(a)
  \/ DiscardRejected(a)
  \/ InstallContext(a)
  \/ RecheckInstall(a)
  \/ RecordStarted(a)

FinishAttempt(a) ==
  \/ FinishSetError(a)
  \/ FinishSetFlag(a)
  \/ FinishRecordEvent(a)
  \/ FinishAggregate(a)

(* What the gateway's own code decides to call next.                       *)
UseAttempt(a) ==
  \/ CreateAttempt(a)
  \/ BeginFinish(a)
  \/ CallClose(a)
  \/ ExitWithError(a)
  \/ Abandon(a)

Terminated ==
  /\ \A t \in Threads : pc[t] = "done"
  /\ UNCHANGED vars

Next ==
  \/ \E a \in Attempts : StartAttempt(a) \/ UseAttempt(a) \/ FinishAttempt(a)
  \/ \E t \in Threads : CloseAttempt(t)
  \/ \E c \in Closers : \/ CallRouterClose(c) \/ RouterExitWithError(c)
                        \/ ForceClose(c) \/ FinalizeRouter(c)
  \/ Terminated

Spec == Init /\ [][Next]_vars

(***************************************************************************)
(* A thread inside an SDK call keeps running: Python schedules every       *)
(* thread and no SDK section blocks except on _lifecycle_lock.  What the   *)
(* gateway's own code decides to call (UseAttempt, CallRouterClose,        *)
(* RouterExitWithError) is not assumed to happen.                          *)
(***************************************************************************)
Fairness ==
  /\ \A a \in Attempts : WF_vars(StartAttempt(a) \/ FinishAttempt(a) \/ CloseAttempt(a))
  /\ \A c \in Closers : WF_vars(ForceClose(c) \/ FinalizeRouter(c) \/ CloseAttempt(c))

FairSpec == Spec /\ Fairness

-----------------------------------------------------------------------------
(* Properties                                                              *)

RouterReported == routerReports > 0
FailedAttempts == {a \in Activated : status[a] = "ERROR"}
NoRejectedResult == aggregated \cap noOp = {}

(* finish_attempt, the owner's close and force_close race to publish one   *)
(* Attempt's result (attempt_span.py try_aggregate_result): the Router     *)
(* counts it exactly once.                                                 *)
ExactlyOnceAggregation == success + fail = Cardinality(aggregated)

(* close() and force_close() of one Attempt, and two RouterSpan.close()    *)
(* calls, race: each span is reported at most once, and a rejected Attempt *)
(* never.                                                                  *)
ReportedAtMostOnce ==
  /\ routerReports <= 1
  /\ \A a \in Attempts : reports[a] <= IF a \in Activated THEN 1 ELSE 0

(* When the Router record is handed to the Reporter every Attempt that was *)
(* ever activated has been ended and reported before it: an Attempt being  *)
(* closed by its own worker is waited for.                                 *)
NoOrphanAttempt == RouterReported => \A a \in Activated : reports[a] = 1

(* The reported Router record stays true of the Router: no later           *)
(* activation changes its attempt_count, and the only results published    *)
(* after it are those of Attempts whose start the closed Router rejected.  *)
RecordCoversRealAttempts ==
  RouterReported => /\ record.attempts = AttemptCount
                    /\ aggregated \ record.results \subseteq noOp

(* After the Router's cleanup no open Attempt is left, and the Attempt     *)
(* registry only holds Attempts whose thread is about to remove them.      *)
RouterDoneLeavesNothing ==
  ~routerLive => /\ open = {}
                 /\ \A a \in registry : pc[a] \in {"activate", "discard", "close_cleanup"}

(* RouterSpan.close reads _final_error for the terminal event and again,   *)
(* three steps later, for the status: one terminal event, of the kind of   *)
(* the status, unless a rejected Attempt's result came in between.         *)
RouterEventMatchesStatus ==
  RouterReported /\ NoRejectedResult =>
    routerEvents = {IF routerStatus = "ERROR" THEN "response_failed"
                                              ELSE "response_completed"}

(* Without raises through "with attempt:", the Router's fail_count at its  *)
(* report is the number of its Attempts whose span ended ERROR.            *)
RouterCountsEveryFailure ==
  RouterReported /\ NoRejectedResult => fail = Cardinality(FailedAttempts)

(* gateway.attempt.started is recorded by the worker while force_close may  *)
(* end the Attempt on another thread: never after close() has begun.       *)
StartedBeforeClose ==
  [][\A a \in Attempts :
       "started" \in events'[a] \ events[a] => a \notin closed]_events

(* Neither lock nor snapshot holds up a close: a call of RouterSpan.close  *)
(* returns.                                                                *)
RouterCloseReturns ==
  \A c \in Closers : pc[c] = "router_close" ~> pc[c] = "done"

(* Once the Router is closed every activated Attempt is ended and          *)
(* reported, though its owner may never close it.                          *)
ActivatedAttemptIsReported ==
  \A a \in Attempts : (index[a] > 0 /\ routerClosed) ~> (reports[a] = 1)

(* What a comment says, and the code does not do                           *)

(* router_span.py: when every attempt failed the Router is ERROR, never OK. *)
AllFailedMeansRouterError ==
  RouterReported /\ Activated # {} /\ FailedAttempts = Activated
    => routerStatus = "ERROR"

-----------------------------------------------------------------------------
(* The strengthening that makes NoOrphanAttempt and ReportedAtMostOnce     *)
(* inductive; GatewayLifecycle_proofs proves it.                           *)

ForceLabels == {"force_lock", "force_mark", "force_aggregate"}
ReportTail == {"router_event", "router_aggregates", "router_status", "router_report",
               "router_cleanup"}
Unreported == {"close_status", "close_event", "close_end"}
Reported == {"close_unregister", "close_cleanup"}
Holding == {"installed", "confirmed", "force_mark", "force_aggregate"}
             \cup Unreported \cup Reported
Unactivated == {"attempt", "register", "activate"}

Finalizing(c) == pc[c] \notin {"idle", "router_close", "done"}

(* A closer inside force_close() or close() works on an Attempt.           *)
TargetOK ==
  \A c \in Closers : pc[c] \in ForceLabels \cup CloseLabels => target[c] \in Attempts

TypeInv == TypeOK /\ TargetOK

(* A thread inside a locked section holds its Attempt's lock.              *)
LockOK == \A t \in Threads : pc[t] \in Holding => lock[Subject(t)] = t

(* An Attempt is activated or rejected before its owner uses it, never     *)
(* both; only activated Attempts are open, snapshot or force-closed.       *)
ActivationOK ==
  /\ \A a \in Attempts :
       /\ pc[a] \in Unactivated => a \notin noOp \cup closed /\ index[a] = 0
       /\ pc[a] \notin Unactivated => (a \in noOp <=> index[a] = 0)
       /\ a \in open => index[a] > 0
  /\ \A c \in Closers :
       /\ \A a \in pending[c] : index[a] > 0
       /\ pc[c] \in ForceLabels \cup CloseLabels => index[target[c]] > 0

(* One report per Attempt, made between its close and its release.         *)
ReportOK ==
  /\ \A a \in Attempts : /\ reports[a] \in {0, 1}
                         /\ reports[a] = 1 => a \in closed /\ index[a] > 0
  /\ \A t \in Threads :
       /\ pc[t] \in Unreported => Subject(t) \in closed /\ reports[Subject(t)] = 0
       /\ pc[t] \in Reported => reports[Subject(t)] = 1
       /\ pc[t] \in Unreported \cup Reported => index[Subject(t)] > 0

(* A closed Attempt without a report is in the hands of the thread that is *)
(* about to report it.                                                     *)
ClosingOK ==
  \A a \in closed : index[a] > 0 /\ reports[a] = 0 =>
     \E t \in Threads : Subject(t) = a /\ pc[t] \in Unreported

(* Every activated, unreported Attempt can still be found by the closer.   *)
FindableOK ==
  \A a \in Attempts : index[a] > 0 /\ reports[a] = 0 =>
     \/ a \in open
     \/ \E c \in Closers : \/ a \in pending[c]
                           \/ target[c] = a /\ pc[c] \in ForceLabels \cup CloseLabels

(* At most one closer finalizes; it empties the open registry for good.    *)
CloserOK ==
  /\ \A c \in Closers :
       /\ Finalizing(c) => routerClosed
       /\ ~Finalizing(c) \/ pc[c] \in ReportTail \cup {"snapshot"} => pending[c] = {}
       /\ Finalizing(c) /\ pc[c] # "router_cleanup" => routerReports = 0
       /\ Finalizing(c) /\ pc[c] # "snapshot" => open = {}
       /\ \A d \in Closers : Finalizing(c) /\ Finalizing(d) => c = d
  /\ routerReports \in {0, 1}
  /\ routerReports = 1 => routerClosed /\ open = {}

OrphanInv ==
  /\ TypeInv /\ LockOK /\ ActivationOK /\ ReportOK /\ ClosingOK /\ FindableOK /\ CloserOK
=============================================================================
