# LLM observability: TLA+ models, checks and proofs

The repository is an observability stack for LLM applications: an SDK (`sdk/python/llm_observability`)
that wraps business code, LLM calls and gateway requests in spans, a telemetry Proxy (`proxy/`), a
Core that stores and queries spans (`core/`) and a UI. This directory models the parts whose
correctness depends on interleavings, ordering, failure and cleanup, checks them with TLC and
proves the main results with TLAPS.

All paths below are relative to `src/`; SDK paths to `src/sdk/python/llm_observability/`.

## 1. Inventory

| component | state | operations | interacts with |
| --- | --- | --- | --- |
| Gateway span lifecycle (`gateway_observability/router_span.py`, `attempt_span.py`, `runtime.py`) | Router: `_closed`, `_open_attempts`, counters, `_final_error`; Attempt: `_lifecycle_lock`, `_closing`, `_closed`, `_no_op`, `_aggregated_to_router` | start, `finish_attempt`, `set_error`, `close`, `force_close`, `RouterSpan.close` | calls of many threads on one Router; registries; context; Reporter |
| Gateway streaming (`gateway_observability/streaming.py`) | `_finalized`, `_closed`, `_stream_usage`, first-token time | iterate, close/aclose, `__exit__`, `__del__`, three finalizers | closes the Attempt and the Router |
| Gateway context and registries (`gateway_observability/context.py`, `registry.py`) | ContextVar slots with reset tokens, two dictionaries | enter/exit router, set/clear attempt, lazy invalidation | copied into asyncio tasks |
| Usage, cost, errors, privacy, recorder, adapters (`gateway_observability/*`) | none, or a set of recorded event names | add, normalise, classify, sanitise | called by spans |
| SDK tracer and facade (`__init__.py`, `tracer.py`, `context.py`, `span_registry.py`, `instruments.py`) | one global instance, the current span context | `init`, `shutdown`, `trace` | owns the Reporter |
| Decorators, tool, task, annotation (`decorators.py`, `tool.py`, `task.py`) | the context token of a running span | wrap sync, async, generator functions | current context, Reporter |
| Distributed tracing and association (`distributed.py`, `association*.py`, `propagation.py`) | association ContextVar | inject, extract, limit | carriers between processes |
| OpenAI instrumentation (`instrumentation/openai.py`) | patched methods, `_finalized` of each stream | instrument, uninstrument, `create`, iterate, close | current context, Reporter |
| LangChain instrumentation (`integrations/langchain/*`, `instrumentation/langchain.py`) | `_AUTO_STATE` with its depth, run registry of a handler | invoke and stream wrappers, start, end and error callbacks, `close_open_runs`, middleware | current context, OpenAI patch |
| SDK Reporter (`reporter.py`) | `_queue`, `_stop`, counters, loop thread | `report`, flush loop, `stop`, `stop_sync`, `start_sync` | POSTs to the Core |
| Proxy (`proxy/handler.py`, `trace_context.py`, `payload.py`) | per-request accumulator | forward, stream, report | upstream, Proxy reporter |
| Proxy reporter (`proxy/reporter.py`) | `_queue`, `_stop`, counters | `report`, flush, `stop` | POSTs to the Core |
| Core ingest and storage (`core/api/main.py`, `core/storage/db.py`) | SQLite table `spans`, schema version | ingest, insert or replace, migration, trace list, detail, dashboard, time series, model list | Reporters, UI |
| Adapters (`integrations/oneapi`, `litellm`), masking, UI, scripts | none | pure mappings, views, one-shot tools | |

What is hard here: Attempts are started, finished, closed and force-closed by different threads
under two locks and several unlocked flags; a stream is ended by its reader, by a closing client,
by garbage collection or by its Router, whichever comes first; ContextVar tokens are reset in
another order, task or thread than they were taken; telemetry is retried, requeued, cut off by a
shutdown and stored idempotently; one model call is seen by middleware, callbacks and the patched client;
the Core derives traces from spans in five queries, over a table that an older version may have left. `PROJECT.json` lists each hazard at its line.

What makes the components correct:

- lifecycle: each span reported once, results counted once, no Attempt outlives its Router's record,
  the Router's status and counters agree with its Attempts;
- streaming: one outcome, consistent on Router and Attempt, published before the Router record;
- context: leaving a scope restores what it found, and never a closed Router; a Router and the Attempt
  beside it belong to one request;
- instrumentation: one LLM span for one model call, reported once, and no run left behind;
- Reporter: accepted records leave once, in order, and are lost only where the design says so;
- Core: an interrupted migration is completed and harms no new span; the views of one set of spans agree.

## 2. Modules

### GatewayLifecycle (MCGatewayLifecycle, GatewayLifecycle_proofs)

One started Router, its Attempts, one worker thread per Attempt and the threads that close the
Router. A thread takes one step per critical section, and one step per shared field touched
without a lock, in source order. `lock[a]` is `AttemptSpan._lifecycle_lock`;
sections under `_open_attempts_lock` and `_aggregate_lock` touch nothing else and are one step
each.

| actions | code |
| --- | --- |
| `CreateAttempt`, `RegisterAttempt`, `ActivateAttempt`, `DiscardRejected`, `InstallContext`, `RecheckInstall`, `RecordStarted` | `RouterSpan.attempt`, `AttemptSpan.start`, `activate_attempt`: a closed Router turns the Attempt into a no-op at each of three points |
| `BeginFinish` ... `FinishAggregate` | `GatewayRuntime.finalize_attempt` (`handle.finish_attempt`) |
| `CallClose`, `ExitWithError`, `CloseEnter` ... `CloseCleanup` | `AttemptSpan.close`, `__exit__` |
| `CallRouterClose`, `RouterExitWithError`, `RouterClose`, `SnapshotOpen`, `ForceNext` ... `ForceAggregate` | `RouterSpan.close`, `__exit__`, `_force_close_open_attempts`, `AttemptSpan.force_close` |
| `RouterTerminalEvent`, `ApplyAggregates`, `ApplyFinalStatus`, `ReportRouter`, `CleanupRouter` | the rest of `RouterSpan.close` |
| `Abandon` | a worker that never closes its Attempt |

### GatewayRequest (MCGatewayRequest, GatewayRequest_proofs)

The requests of a gateway: what is followed is the ContextVar `llm_obs_gateway_context` (`slot[c]`, a Router and an
Attempt, in each context) and what makes the outcome of a Router. The end of a Router is as many steps as it has
critical sections, with results, decisions and other closes in between; a call on an Attempt, which
`GatewayLifecycle` takes apart, is one step here. A token is what it restores: `old` and
the context (`home`) it can be reset in. References are weak, so `Live` is what `GatewayContext.get`
sees in a slot: nothing that is closed.

| actions | code |
| --- | --- |
| `HandleRequest`, `RateLimited`, `HandleCache`, `Read` | `handle_request` with the route decision, `set_rate_limited`, `handle_cache`, `active_router` and `active_attempt` |
| `StartAttempt` with `AllocateIndex` | `create_attempt`, `allocate_attempt_index`, `set_attempt` |
| `FinishAttempt` with `Registered` | `finalize_attempt`, `register_attempt_result`: the last result decides |
| `CloseAttempt` with `Cleared` | `AttemptSpan.close`, `clear_attempt`, in the Attempt's own context or another |
| `RaiseOut`, `CloseRouter` | `RouterSpan.__exit__` with an exception; `RouterSpan.close` up to its snapshot of open Attempts (`todo`) |
| `ForceClose` with `ForceClosed`, `SkipClosed` | `AttemptSpan.force_close` of one Attempt of the snapshot, or of one that was closed since |
| `RecordTerminalEvent`, `ReportRouter` with `FinalStatus` | `_record_terminal_event`, which reads the final error; `_apply_final_status`, which reads it again, the report and `_cleanup` |

`late` is history: the error was written between the two reads. The context of the thread that closes a Router does nothing else meanwhile (`Idle`).

### GatewayStream (GatewayStream_proofs)

One stream of `GatewayStream` (threads) or `AsyncGatewayStream` (`async`: tasks that switch only at
an `await`), its reader, threads that close it, and threads that finalize the Router. The calls on the Attempt that `GatewayLifecycle` models inside their locks
are one step here. Chunks are reduced to what `is_meaningful_content`, `extract_chunk_usage` and
the `[DONE]` test distinguish; captured usage is named by the chunk it came with. `IteratorCloses`
is the wrapped iterator being closed by `aclose`, after which the pending read may end or fail.
`CloseCancelled` is the task cancelled in that `await`: `CancelledError` passes the `except Exception`, `_closed` stays set
and no finalizer runs.

### Delivery, Ingest, Reporter, ProxyReporter (Reporter_proofs, ProxyHandler_proofs)

`Delivery` is the abstract promise of a reporter: records are accepted or refused, then held until
they are sent, dropped (counted) or lost. Loss is allowed in two cases only: while
stopping, and when a failed batch comes back to a full queue. The Core stores records (`Store`), and `Send` asks that
those counted as sent were stored, except records the Core cannot store: a batch stored in part is answered 200
(`core/api/main.py:84`), and the reporters count all of it. `Ingest` is the Core's answer to one
batch: the request model refuses a batch with one invalid record, otherwise each record is
inserted for itself and the answer is a failure only if none could be. It is a module of operators
that both reporters instantiate as `Core`.

`Reporter` has business threads, the event-loop thread and the thread in `stop_sync`. `report()`
is two steps (check, append), the requeue of a failed batch two steps per record; a POST is sent,
handled by the Core, and answered, with a failure possible before and after the Core has stored the
batch. `loop` says where the loop thread is; `draining` whether `stop()` or the flush task called
`_flush`. `BeginStop` is the cancellation of the flush task, which forgets a batch in flight;
`StopReturns` with a POST still in flight is `future.result` giving up. Counters are the sets of
records they count. `ProxyReporter` is the same on a single event loop, where `report()` is one
step and `stop()` flushes one batch.

### ProxyHandler (ProxyHandler_proofs)

One observed request followed from await to await: `at` is the await the handler stands at, `ctx`
the trace context (inherited or its own root, and the sampled bit), `sampling` the payload decision
drawn at the start, `acc` the stream accumulator, `record` what `_report_telemetry` handed to the
reporter. `Draws` is the set of answers `_should_sample_for_ctx` can give, drawn once for the
payload and again for the report. `ReportTelemetry` awaits nothing and is part of the action that
ends the request. `Fails` is every exception no `except` clause covers, and cancellation. The
module EXTENDS `ProxyReporter`: `ReporterStep` is that module's next-state relation, where the
records other than `Request` stand for the requests that are not followed (requests share nothing
but the reporter), and `BeginStop` waits for the handler as aiohttp does before `on_cleanup`.
A payload is reduced to its form (none, metadata, masked, full) and to whether it carries content
and token usage.

### Spans (Spans_proofs)

The spans of the SDK and the ContextVar `llm_obs_context`, `current[c]` in each context (a thread's
or an asyncio task's; `StartContext` copies it for a task). `Enter` and `Leave` are one step each:
nothing between them awaits or takes a lock but the registry's.
The window between testing `_initialized` and reading the tracer is left out (Deviations). A kind is what it does to the
ContextVar: how it chooses trace, parent and sampling (`EnterAgent`, `EnterChild`, `EnterServer`),
and what it does when its token belongs to another context (`Restored`). A span `held` by a
generator can be left by whoever has the generator; all others nest (`MayLeave`), where a server call always nests.
A carrier can have been written under any span, so it is no variable. `shutdown` takes two steps,
since stopping the reporter takes time and only the calling context waits. A decorator that
finds no trace or no SDK runs the function alone and changes nothing, as does `nested_mode='reuse'`.
`disturbed` and `deaf` record what the properties except: contexts in which a generator or
`shutdown` broke the order, and spans whose reporter was stopped under them.

### OpenAIInstrumentation, LangChainTracing (LangChainTracing_proofs)

A frame is a call that is observed: a patched `create`, a scope of the middleware, an invocation of a
Runnable, a run that a callback started. It keeps what its reset needs (`old`, `parent`, `home`), whether it has a
span of its own (`own`), and the call around it (`caller`). Frames of a context nest unless somebody
else holds them: a generator, or a run whose end callback comes from elsewhere (`held`).

`OpenAIInstrumentation` has the frames, the middleware (`EnterScope`, `LeaveScope`) and the client: `Create` sets the
ContextVar unless a logical LLM span is current, `CreateReturns` and `CreateRaises` restore it and
report or hand the span to a stream, `CreateCancelled` does neither, since `CancelledError` is no
`Exception`. `StreamEnds` is any of `__next__`, `close`, `__exit__` and `__del__`.

`LangChainTracing` EXTENDS it with `_AUTO_STATE` (`auto`, `depth`), the wrappers (`Invoke`,
`ExitInvocation`) and the callbacks (`StartChain`, `StartLLM`, `StartTool`, `StartRetriever`, `EndRun`).
LangChain itself is external: `EndRun` lets the end callback come inline, in a copy of the context
or never. A registry is a set: runs are registered in the order of their numbers, which is the order
`close_open_runs` takes (`Restored` of the last one is what stays).
`ExitInvocation` closes the open runs of the handler, then the root. In the code this is a snapshot of the registry
(`callback_handler.py:791`), an end and a report per run that does not set `state.ended`, and `registry.clear()`
(line 829), all without a lock that callbacks take. The model keeps one step for what the closing thread does and adds what others do to it:
the snapshot ends at a `cut`, and runs other contexts started after it are cleared with the rest and lost
(`Snapshots`); and any other context that could end a run of the snapshot, by its callback or by an exit that closes as well, may have
its state in `hands` (`MayTakeUp`) and ends it once more in a later step of its own (`EndAgain`), in its context or a copy.
`raced` names these runs. `lost` and
`disturbed` record what the properties except: spans the code forgets, and contexts in which
the order of resets was broken; both are listed under Deviations. `OneLLMSpanPerCall` speaks of the
innermost span open in the context (`SpanAround`), which is all that the test of `logical_llm_span_active` can see.

### Storage, StorageQueries (MCStorage, Storage_proofs)

`Storage` is `_init_db` statement by statement, with `Crash` between any two, and `insert_span`. ALTER
TABLE and CREATE commit at once; the UPDATE that clears the old timings opens a transaction
that the next script commits, so `seen` (the rows of the open connection) and `rows` (the committed ones)
differ in between. The handlers of `core/api/main.py` are coroutines that call the storage
without awaiting: a query is atomic and is no action but an operator over `rows`.

`StorageQueries` has these operators, each translated from its own SQL or Python: `Listed` and `Summary`
(`get_trace_summaries`), `Detail`, `Metrics` with `Percentile`, `TimeSeries`, `ModelsList`.
A row keeps the columns in which the queries differ; `session` stands for the five association
columns; where the code tests for truth (`db.py:563`, `:585`) an empty string counts as none, too, and the model has NULL alone. What SQL sorts is stated by rank instead of as a sorted list: `Latencies` maps `k` to the duration that has fewer than `k`
calls below it and at least `k` up to it, and `First` is a span that starts before all others or with them, because
`ORDER BY start_time` leaves open which of several that start together comes first. Sums are sums of a function
(`SumFunction`). `RowsAssumption` names the columns this needs: start and duration are `NOT NULL` numbers, tokens and
session may be NULL. The invariants compare the operators with each other over every table reached: the dashboard with the trace
list and the model list, its percentiles with the calls it counted, the chart with the dashboard and each of its points
with itself, the detail with the list.

## 3. Runs

Bounds are small because the interesting collisions need few actors: two Attempts give an Attempt
closing while another is force-closed and results in either order; two closers give a lost
race for `_closed`; a queue and a batch of two give a partial requeue, and two callers the
overshoot of the queue. Three frames are an invocation, a run and the call in it, or one call nested
in two others. Three rows give a trace that meets a window and a model with different spans beside a trace
that does not; a crash is a matter of the migration, where one row of each version is enough.

| run | shows | bounds |
| --- | --- | --- |
| `lifecycle_race` | one report per span, one count per result, no orphan, terminal event = status, `fail_count` = failed Attempts, started before closed | 2 Attempts, 2 closers, successes and failures |
| `lifecycle_withblock` | record covers all activated Attempts, nothing stays registered, `RouterSpan.close` returns, each activated Attempt is reported | 2 Attempts, 1 closer, raises through the with-blocks, successful results |
| `request` | a context shows no Attempt of another request, indices are distinct, closing an Attempt keeps the Router; the status of a Router and its terminal event say what results and decisions say, whatever races its close | 2 contexts (symmetric), 2 Routers, 2 Attempts, explicit index 1 or none; results and decisions, which touch no slot, while there is one Router (`OneDecided`, the run's state constraint) |
| `stream` | the Router record has the published result with the captured usage, no success before the upstream's end, one outcome and equal statuses for tasks, a closed or forgotten stream is reported unless a task is cancelled in `aclose()` | tasks and threads, 2 chunks, 1 closer, 1 finalizer |
| `reporter` | order across requeues, bounded overshoot, the drain leaves nothing it should not, refinement of `Delivery`: no double counting, and what is counted as sent was stored or is one the Core cannot store; `stop_sync` returns with the Core down and no deadline passing; with a Core up again and again a record is sent, counted as unserializable, or forgotten where a failed batch meets a full queue, once no refused or unstorable record waits | 2 callers, 4 records (1 unserializable, 1 refused, 1 unstorable), queue 2, batch 2, 2 starts |
| `proxy` | one report per request, sampling agrees with the trace, content and token counts only and always where allowed, requests end with the Core down, bounded queue, order, refinement of `Delivery` | 1 request in full, 2 other records (1 refused, 1 unstorable), 4 strategies, rate zero or not, 2 chunks, queue 2, batch 2 |
| `langchain` | each span reported once (but for runs two threads had in their hands), the ContextVar is the innermost open span, no LLM span directly inside another, the last exit leaves no run | 2 contexts (symmetric), 3 frames of all kinds, a program inside a trace or not, 1 shutdown |
| `storage` | the migration is complete and harms no new span, whatever crashed; the views agree | a new or an old database, 2 new columns, 2 traces of 2 spans (LLM of 2 models, TOOL, AGENT; OK and ERROR), 3 rows, crashes with at most 1 row, 2 times in 2 buckets, windows, models, sessions and durations as filters |
| `spans` | the ContextVar is the innermost open span, a trace is reported whole or not at all across tasks, threads, generators and carriers, sinks are those of open spans | 2 contexts (symmetric), 3 spans, 1 shutdown and a second init |

Two invariants of the lifecycle carry the antecedent `NoRejectedResult`: the code publishes the
result of an Attempt it has rejected, and the invariants say what holds otherwise.
`TerminalStatesAgree` speaks of tasks only: threads break it (below).
`CHECK_DEADLOCK FALSE` is used where the system really ends (all records reported and the reporter
stopped) or where a bound on requests, frames or rows ends the program.

### Deviations

Three runs check one sentence of a comment or of the repository's documents each and find it violated;
the findings in `PROJECT.json` quote it:

| run | the code |
| --- | --- |
| `lifecycle_v_allfailed` | a raise out of `with attempt:` aggregates no result, so a Router whose only Attempt is ERROR ends OK |
| `stream_v_cancelled` | `streaming.py:646`: a task cancelled while `aclose()` awaits the upstream iterator leaves a stream that is closed and never reported |
| `reporter_v_poison` | one record the Core's request model refuses keeps its batch at the head of the queue for ever |

Further disagreements between the code and its documents follow from the same models; no run is
spent on them:

| source | the code | the text |
| --- | --- | --- |
| `runtime.py:229` | `finalize_attempt` records its event without the lifecycle lock, so a racing `force_close` can record the other one | gateway-observability-runtime: "An Attempt SHALL never carry both a completed and a failed event" |
| `router_span.py:414` | `_closed` is set in one critical section, the snapshot taken in a second one | `router_span.py:409`: "atomically with the open-attempt snapshot" |
| `attempt_span.py:513` | the result of a rejected Attempt is published after the Router was reported | `attempt_span.py:507`: "no result published after the Router report" |
| `router_span.py:759` | the success of another Attempt, published after `force_close` aggregated its failure and before the final status, clears the forced error, and the Router ends OK (`OutcomeDecidesStatus` says nothing of mixed results) | `attempt_span.py:451`: "so the Router ends ERROR" |
| `streaming.py:185` | `_finalized` is tested and set without a lock, so two threads can both finalize, with a Router OK and an Attempt ERROR | gateway-observability-contract: "Router and Attempt SHALL NOT disagree" |
| `streaming.py:641` | a stream is closed before its cancellation is recorded, so the pending read ends or fails first and decides the Router's outcome | gateway-observability-contract: "the Router span ends with `gateway.final_error_category = client_cancelled`" |
| `streaming.py:215` | a stream that fails after its Router force-closed the Attempt rewrites the category of the queued record | gateway-observability-contract: the Router's category equals the Attempt's |
| `streaming.py:136` | usage captured so far is not on a force-closed Attempt | gateway-observability-contract: the aggregate includes force-closed Attempts |
| `attempt_span.py:288` | `set_upstream_status` with a TTFT only sets the recorded status to None | `streaming.py:166`: "never clobber already-recorded status/duration facts" |
| `reporter.py:99`, `:295` | cancelled in its POST, or requeueing to a full queue, the flush task forgets records uncounted | `reporter.py:292`: "so records aren't silently lost" |
| `reporter.py:212` | `report` tests `_stop` and appends later | `reporter.py:204`: "Does not enqueue if _stop is True." |
| `proxy/handler.py:254` | a POST that times out, a body that breaks off and a chunk or body that is no JSON object end a request without a report | `proxy/config.py:41`: "errors always captured" |
| `proxy/handler.py:376` | a broken stream's payload is the accumulated answer as it stands, whatever the strategy | `proxy/payload.py:5`: "off: No payload captured" |
| `proxy/trace_context.py:91` | a root trace is forwarded as sampled although `sample_rate` is applied later, per decision | `proxy/handler.py:555`: "sample_rate=0 produces 0 GATEWAY spans, matching the 0 AGENT and 0 LLM spans" |
| `proxy/reporter.py:62` | `stop` flushes one batch | `proxy/reporter.py:53`: "flush remaining items" |
| `decorators.py:970`, `tracer.py:152`, `distributed.py:381` | `reset_context` is unguarded for @llm, `trace()` and server calls, so a generator closed in another context raises ValueError to its caller | `decorators.py:18`: "Telemetry errors never change business return value or exception" |
| `decorators.py:261` | @agent uses the tracer it reads after `_check_initialized`; a `shutdown` in between makes it None and the AttributeError leaves the wrapper | the same sentence |
| `task.py:269` | a task left in another context sets the context it had found there, over whatever was active | `task.py:261`: "reset_context itself must be fail-open (Blocker 3.2: restore parent)" |
| `__init__.py:400` | `shutdown` empties the ContextVar of its own context only, and a span left later restores what it found: new spans then get a parent that was never reported | `__init__.py:396`: "Reset context var to prevent cross-test/cross-invocation leakage" |
| `decorators.py:445` | a generator that reuses a trace adds no event | `decorators.py:152`: "'reuse' — reuses the current trace, adds sdk.agent.reused event" |
| `context.py:264` | the token of an Attempt restores the Router found when it started, over one begun since | `context.py:252`: "The router slot is always preserved" |
| `instrumentation/langchain.py:220` | a nested call in a task that leaves after the root closes the same AGENT root again | `instrumentation/langchain.py:8`: "nested calls reuse the root's state (no duplicate AGENT)" |
| `callback_handler.py:829` | `close_open_runs` ends the runs of its snapshot (line 791) and clears the registry afterwards: a run that another thread registers in between is neither ended nor reported (`lost` in the model, excepted by `SpanReportedOnce`) | `docs/llm-observability-phase2.4-generic-runnable-callback-development-spec.md:787`: "Registry 不丢 Run" (the registry loses no run) |
| `callback_handler.py:792` | `close_open_runs` does not mark the runs it ends: an end callback or a closing exit on another thread reports them again (`raced`, excepted by `SpanReportedOnce`) | `docs/llm-observability-phase2.4-generic-runnable-callback-development-spec.md:709`: "重复 End" (a repeated end) must be a no-op |
| `core/storage/db.py:220` | a table of the older version that came without a primary key keeps every copy of a retried record (`tests/test_p0_fixes.py:397` has such a table) | `db.py:205`: "Insert or replace a span record." |
| `core/storage/db.py:672` | with a window or a model, `error_count` looks at the matching spans only | `db.py:668`: "Trace status: any span ERROR → trace ERROR" |

Behaviour that no text contradicts and that the properties except, because the code allows it:

- reporters: a batch that the Core stored in part is counted as sent as a whole (`reporter.py:278`);
- requests: closing an Attempt in another context clears whatever Attempt is shown there; closing an outer
  request before the inner one hides the inner; the terminal event says failed and the status OK
  after a cache hit, and the reverse on a rate-limited route; a result or rate limit between event and status makes
  them differ as well; an exception out of `with router`
  after its Attempts ran leaves the status to the last result; a result after the Router's end is
  not read;
- OpenAI: cancelling an async `create`, or `uninstrument` while it waits, loses its span, and cancelling
  leaves it current; an async stream that is forgotten is never reported; two threads can both pass
  the test of `_finalized`;
- LangChain: an invocation inside a trace that leaves before the nested ones of its tasks does not reset
  `_AUTO_STATE` of its context; `close_open_runs` resets the outer run first; an end callback in a copied
  context cannot reset the caller's ContextVar; two streams read in turn suppress each other's
  spans, and a generator suspended in an LLM span and resumed inside a tool's opens a second LLM span (four frames show it); the parent of an LLM run is that of its run, past a task or tool span around it;
- Core: a trace whose spans meet a window and a model separately is in the list and not on the
  dashboard; a point of the time series can have more failed traces than traces when a model is chosen;
  a bucket of tools alone counts all spans of its traces; windows include both ends, so adjacent
  ones count a span twice; list and detail choose differently between several sessions of one trace;
  a percentile of 0 looks like none.

### Fairness

`GatewayLifecycle`: weak fairness of each thread's SDK steps, since code inside `close()` or `start()` keeps
running; none for what gateway code chooses to do next (finish, close, abandon).
`GatewayStream`: the same for the finalizer and the observation of a chunk, and for `__del__`
after the last reference went, as CPython's reference counting guarantees. `Reporter`: threads run, timers fire and each
POST ends, by aiohttp's total timeout at the latest; the deadline of the drain and the
wait of `stop_sync` are not assumed to pass. Only `AcceptedIsSettled` and
`GoodRecordSettles` assume, as `CoreIsUp`, strong fairness of a Core that answers: without it nothing can be
promised about delivery.
`ProxyHandler`: the upstream answers, continues or ends its stream, or `upstream_timeout` passes;
nothing is assumed of the flush task or the Core.

## 4. Proofs

`GatewayLifecycle_proofs` proves for every finite set of Attempts and every set of closing
threads, from `LifecycleAssumption` alone:

- `TypeCorrect`: `Spec => []TypeOK`. `TypeOK` is not inductive: the step of a closer uses
  `target[c]` as an Attempt. `TypeInv` adds `TargetOK`.
- `AggregatedExactlyOnce`: `success + fail` is the number of aggregated Attempts. Each publishing
  action goes through `TryAggregate`; lemma `TryAggregateCounts` does the counting once.
- `NoOrphan` and `ReportedOnce`: both follow from `OrphanInv`. "Every activated Attempt is reported
  when the Router is" is far from inductive: between activation and report an Attempt is in
  `_open_attempts`, in some closer's snapshot, being force-closed, or in the hands of its own
  worker. `FindableOK` says the closer can still find it; `ClosingOK` that whoever set `_closed` is
  still about to report it; `LockOK` that this thread holds the lock, so force_close waits;
  `ReportOK` that a report is made once, between close and release; `ActivationOK` that rejected
  Attempts never enter; `CloserOK` that one closer finalizes, and that `open` is empty for good
  after its snapshot. Preservation is proved per action in `WorkerOrphan`, `CloseOrphan`,
  `CloserOrphan`.
- `StartedPrecedesClose`: the action property `StartedBeforeClose`. `ConfirmedOK` says that the worker about to record
  the event has found its Attempt open; it holds the lock (`LockOK`), and `close()` sets `_closed` only
  when the lock is free (`ClosedWhenFree`).

It goes on from `OrphanInv`:

- `RecordStaysTrue`: `RecordCoversRealAttempts`. By `RecorderAlone` every Attempt is reported when the
  aggregates are copied, so a result published later is that of an Attempt that is closed and not
  aggregated: `PublishedOK` says that its worker is past finishing, or that it was rejected.
- `RouterLeavesNothing`: `RouterDoneLeavesNothing`, by `RegistryOK`: an Attempt in the registry
  is being started (`UnstartedOK`), still to be reported, or with the thread that takes it out
  (`ReleasedOK`), which has it out of `open` before (`UnregisterOK`).
- `EventMatchesStatus` and `EveryFailureCounted`: `RouterEventMatchesStatus` and `RouterCountsEveryFailure`, for
  `~WithBlock` (a raise out of `with attempt:` breaks the second in the code, see `lifecycle_v_allfailed`). The counter
  and the spans are changed by different threads at different times, so `OutcomeInv` follows the error
  of each Attempt between them: `MarkOK` (a closer that marks one holds its lock, and nobody publishes or
  ends it), `ErrorOK` (an error is there before the failure it stands for is published, and nowhere else),
  `StatusOK` (an ended Attempt keeps the error its status was made from), and with these `FailOK`, that `fail`
  counts the aggregated Attempts with an error. `LastOK` says that a count of failures without a final error goes
  with a success. `AggregatesFrozen` says that what the event and the status read is the same, unless a rejected Attempt publishes.

`GatewayRequest_proofs` proves the three properties of `GatewayRequest` for any contexts and any bounds,
from `RequestAssumption`:

- `RequestInvariant`: `Spec => []IInv`, where `IInv` is `TypeOK`, `SlotsFit`, `OutcomeKept` and
  `IndicesAreDistinct`. That a shown Attempt fits the shown Router is not inductive: a token can
  bring back a slot from long ago. `SlotsFit` says the same of every slot that is saved in a token, of a Router
  and of an Attempt, and of what `found` recorded. `OutcomeKept` says of a Router, by the results
  registered so far, that its error is set when some failed or were forced and none succeeded, and is not set when some
  succeeded, none failed and no rate limit was refused; that its event says failed exactly when the error is set, but
  for `late`; and that its status, once made, is `FinalStatus` of what is there. No step of another thread, between whichever
  critical sections of the close, breaks this.
- `AttemptOfRouter`, `StatusOfOutcome`: `AttemptBelongsToRouter` and `OutcomeDecidesStatus` follow from it.
  That `AllocateIndex` finds a free index is a pigeonhole argument (`FreshIndex`: no injection
  from `1..n+1` into `n` Attempts), and that it is the smallest a minimum over a well-founded order.
- `RouterKept`: the action property `RouterSlotSurvives`.

`Storage_proofs` proves, for any records, any columns and any number of rows and crashes:

- `MigrationComplete`: `ReadyMeansMigrated`. The inductive invariant says of each step what is already
  done and committed: `Versioned` (version 2 is recorded only when every column is there
  and no old timing is committed), `Reached` (what the open connection has done by `pc`), `NewTable` (a table this version
  made has no old rows), with `Shape` for the types.
- `MigrationIsOneTime`: `NewSpansSurvive`. It needs `Untouched`: rows of this version are there only once the version is
  recorded, so the clearing step, which is gated on the version, never sees one.
- `ViewsCountAlike`: `CountsAgree`, under every filter. What makes counts comparable is that the table stays finite
  (`TableOK`, the invariant of this part: an old database is a file, each step adds one row at most, and a row keeps its
  numeric columns). `CountedIsListed` has the
  traces of the dashboard in the list; `ListedIsCounted` the converse, which needs that a window and a model do not meet,
  the deviation named above; `FailedListed` says that the list judges a trace by all its spans, wherever they lie.
  For the chart (`PointsHaveRates`): a bucket is there because of a span of the main query or of a TOOL span
  of a candidate trace, and the latter is among the spans that are counted when there is none of the former. The
  assumption `QueriesAssumption` says that a limit is no NULL.
- `DashboardAddsUp`: `DashboardIsConsistent`, from `RowsAssumption` (what the columns that are summed and compared hold).
  `SeriesFits` has each sum over the buckets equal a number of the dashboard. `SumIsUnits` reads a sum as
  the number of its units, pairs of a row and a number below its value; then `PartitionSum`, that a sum over parts is the whole, is
  a bijection between two sets of units, and needs that every row counted has exactly one bucket, and that this bucket exists
  because of it or of a TOOL span (`BucketsAddUp`, `TokensAddUp`). `LatenciesFit` has the percentiles: every rank up to the number of
  calls has a duration (`RankExists`), so the latencies ascend, an interpolated value lies between two neighbours (`PercentileAt`),
  a higher percentage does not give less (`PercentilesGrow`), and the median's position parts the calls (`MedianHalves`).
- `DetailAgrees`: `DetailAgreesWithList`. `SessionsAgree` is the part where the code differs: the list takes a maximum, the detail
  the first span that speaks, and with one value both come to it whichever span is first. `FoundAsShown` is the HAVING clause.

What is needed of finite sets of numbers (`HasMax`, `HasMin`, `SumIsUnits`) is proved from the least cardinality at which it could
fail: the library's induction theorems take an operator as parameter and cannot be used, but its `WFMin` takes a set.

`ProxyHandler_proofs` proves of the reporter alone, for any records, any `MAX_QUEUE_SIZE` and any batch size, from `ProxyAssumption`:

- `ProxyKeepsOrder`: `QueueKeepsOrder`. `OnceOK` says that a record is in one place at a time and was
  accepted once, `PlaceOK` where it may be, `OrderOK` that the positions in `accepted` increase along
  `batch` followed by `queue`; the order is carried from step to step as positions, since indices shift.
- `ProxyDelivers`: `ImplementsDelivery`, the refinement. `TakeBatch` is a stutter, `CoreReceives` is `Store`,
  `ReceiveOk` is `Send` by `AnswerOK` (a batch answered with success was stored as far as the Core can store it), a failure puts back as much of the batch as the queue holds and loses the rest
  (`Lose`, or a stutter when all of it fits), `BeginStop` is `Stop`.
  `HeldCount` relates the size of what `Delivery` holds to the two sequences, for the guards about
  a full queue.

It adds the handler, from `HandlerAssumption`:

- `HandlerUsesReporter`: `HandlerSpec => Spec`. Every step of the composition is a step of the
  reporter or leaves it alone. The one way to fail is a second report of the same request:
  `ReportedLast` says that a request is reported only as its handler ends. So `ProxyKeepsPromise`
  follows from the two theorems on the reporter.
- `SamplingIsKept` and `RecordIsFaithful`: `SamplingDecides` and `RecordCarriesWhatItMay`.
  `AccumulatedOK` says that a stream gathers content only if it may be captured, which is what
  makes the report of a broken stream safe although it passes `process_payload` by;
  `DrawnDecision` and `ReportKeepsRecord` treat the report once for all the ways a request ends.

`GatewayStream_proofs` proves, for any number of chunks and any sets of closing and finalizing threads, from
`StreamAssumption`:

- `RecordHasResult`: `RecordReflectsStream`. `ClosesOnce` says that one thread closes the Router, `PublishedOK` that
  an Attempt that has left the Router, closed by its stream or taken out by that thread, has its result
  published before the Router is reported, and `UsageOK` that the usage in a result is at least what was known
  when the terminal path was claimed.
- `SuccessNeedsEnd`: `SuccessOnlyAtEnd`. `EndOK` says that a reader to whom upstream raised never reads
  again, so that a success can only come from an end it has seen, or after a close.
- `OneOutcome`: `TerminalStatesAgree`, for an event loop, where the terminal path holds no `await`. `OneRuns` says that
  one task at most is between two awaits, `ErrorsAgree` that the error on the Attempt is the one in the result from
  the claim of `_finalized` to the report. With threads the property fails (Deviations).

`Reporter_proofs` proves, for any records, any finite set of callers, any `MaxQueue` and batch size, from
`ReporterAssumption`:

- `SdkKeepsOrder`: `QueueKeepsOrder`. As in the Proxy's reporter, but records are put back one by one while callers
  append. `OrderOK` speaks of `batch` followed by `queue`, and most steps thin this sequence (`WaitingThinned`).
  `BoundOK` counts the record each caller holds between its check of the queue and its append, and the one
  the requeueing loop is about to put back; the bound on the queue is no invariant without them, and the count is why the set of
  callers is finite.
- `DrainIsComplete`: `DrainLeavesNothing`. `DrainOK` says what is queued behind a finished drain was accepted after
  `stop_sync` set `_stop` (`mark`).
- `SdkDelivers`: `ImplementsDelivery`, step by step: a failing check is `Refuse`, an append `Accept`, a POST that arrives is `Store`, one answered is
  `Send` (again by `AnswerOK`), the preflight, a failed drain and the count of what is left behind are `Drop`, a record put back to a full queue is `Lose`, and
  `BeginStop`, `StopReturns` and `ClearQueue` are `Stop`, which loses what is in flight or left.

The preflight of a batch is a recursive function (`GoodRecords`). What it keeps is proved for every batch (`GoodRecordsKept`) by
the least position at which it could fail: the library's induction theorems take an operator as parameter and
cannot be used here, but its `WFMin` takes a set, and that every non-empty set of naturals has a least element
is enough (`Least`).

`Spans_proofs` proves, for any contexts and any number of spans and shutdowns, from `SpansAssumption`:

- `SinksStayOpen`: `SinksAreOpenSpans`. `SinksOK` adds that while the reporter is being stopped every open span is
  deaf, since only then may the end of `shutdown` clear all sinks.
- `TraceIsWhole`: `TraceWholeOrAbsent`, by `TraceOK`: spans of one trace were sampled alike, and a span that was left
  with its reporter running is reported exactly if it was sampled.
- `InnermostIsCurrent`: `CurrentIsInnermost`. What leaving a span restores was saved when it was entered, so `NestOK` follows
  the chain of `old` in each context: every open span remembers the one just outside of it, which is what
  makes the next restore right. `Innermost` is the maximum of a bounded set of spans.

`LangChainTracing_proofs` proves, for any contexts and any number of frames, from `FramesAssumption`. The invariant is
`FrameInv` (the frames and the ContextVars), `RunInv` (states and registries), `HandsOK` and `ReportOK`, with one lemma per part for
entering a frame (`PushFrame`, `EnterRuns`, `EnterReport`), one for leaving (`NestLeave`, `CallLeft`), and one per action:

- `EverySpanIsReported`: `SpanReportedOnce`. `Pending` names who has still to report a span: its wrapper, its stream or
  the registry. `RegisteredOK` says that a registered run with a span has it open and unreported, so that whichever of its
  end callback and `close_open_runs` comes first finds a span that nobody reported. `HandsOK` says that only runs that were
  closed while another thread had their state (`raced`) are ended again, and `lost` has those that no snapshot saw; the
  property excepts both by name, and the two violation runs show that the code needs the exceptions.
- `ContextShowsInnermost`: `CurrentIsInnermost`. `NestIn` follows the chain of `old` as in `Spans_proofs`; beyond it, a
  context that waits for a patched `create` has that call as its innermost span, which makes the reset of `create`
  right although it asks nobody. `Leaves` lists the three ways a context stays in order when something is
  left. A root that is reset finds what its context started with, because a run of a handler begins
  after the invocation that made the handler.
- `NoNestedLLMSpan`: `OneLLMSpanPerCall`. `EntryOK` keeps what the test of `logical_llm_span_active` saw when a frame was
  entered, and `NestIn` that this is still the span around it.
- `InvocationClosesItsRuns`: `ClosedInvocationLeavesNoRun`. `DepthOK` says that the depth of a state is the number of
  invocations inside (`Inside`), so that the exit that sees a depth of 1 is the last one.

Only model-checked: the liveness properties, which rest on fairness and `ENABLED`, and those TLAPS does not prove:
`RouterCloseReturns`, `ActivatedAttemptIsReported`, `AbandonedStreamIsReported`, `StopEnds`, `AcceptedIsSettled`, `RequestEnds`.
Every other property of a passing run is a theorem. The three runs that expect a violation are counterexamples, with nothing to prove.

## 5. Further work

1. `Usage`, `Cost`, `Errors`, `Association`: operators against reference definitions, with the retry and
   fallback counters of the Router.
2. The explicit LangChain wrappers (`runnable_wrapper.py`, `agent_wrapper.py`) and the event
   limits of the callback handler.

## 6. Not modelled

Masking and privacy rewriting (text transformation by regular expressions, no state), the UI,
demo and CI scripts, the field-by-field adapters, and the wording, size and
formatting of attributes and events. Usage, cost, error classification and the attribute and event tables of the
gateway are pure functions with unit tests: the models keep whether there is an error and whether there is usage.
The weak Router and Attempt registries are read by nothing but tests. `ObservedLangChainRunnable` and the agent wrapper open the root themselves
and are left out, as are retry, custom-event and text callbacks, which only add events.
Of the trace list the order, the pages and the input and output summaries are left out; page and total are two queries of
one synchronous call. `fail_count` of the reporters is only written and logged.
The fail-open `except` blocks around telemetry calls are left out where
nothing inside them can fail in the model.
