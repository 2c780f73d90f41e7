------------------------------ MODULE StorageQueries ------------------------------
(***************************************************************************)
(* The queries of core/storage/db.py and core/api/main.py over the span    *)
(* table of Storage: the trace list, the trace detail, the dashboard       *)
(* metrics, the time series and the model list.  Each derives traces from  *)
(* spans in its own way; the properties say where they must agree.         *)
(*                                                                         *)
(* A row has trace, span, root (no parent), kind, status, model, session,  *)
(* start, duration, ttft and tokens.  session stands for the association   *)
(* columns, which every query treats alike, tokens for the token columns.  *)
(***************************************************************************)
EXTENDS Storage, Sequences, FiniteSetsExt, Functions

CONSTANTS
  Times,       (* the limits of the windows asked for                         *)
  Interval,    (* interval_seconds                                            *)
  Durations    (* the duration limits asked for                               *)

(* A limit that is given is no NULL, and NULL is no status and no number.  *)
ASSUME QueriesAssumption ==
  None \notin Times /\ None \notin Durations /\ None # "ERROR" /\ None \notin Int

(* Times are counted in some unit, tokens from zero; the sessions are      *)
(* numbered in the order that MAX compares them by.                        *)
ASSUME RowsAssumption ==
  \A r \in Records \cup Legacy :
    /\ {"start", "duration", "tokens", "session"} \subseteq DOMAIN r
    /\ r.start \in Int /\ r.duration \in Int
    /\ r.tokens \in Nat \cup {None} /\ r.session \in Int \cup {None}

Models == {r.model : r \in Records} \ {None}
Sessions == {r.session : r \in Records} \ {None}

TracesOf(R) == {r.trace : r \in R}
Of(R, kind) == {r \in R : r.kind = kind}
Failed(R) == {r \in R : r.status = "ERROR"}
Total(R) == SumFunction([r \in R |-> IF r.tokens = None THEN 0 ELSE r.tokens])

(* A missing limit is None; both limits are inclusive.                     *)
InWindow(R, f) ==
  {r \in R : (f.from = None \/ r.start >= f.from) /\ (f.to = None \/ r.start <= f.to)}

(* EXISTS: some span of the trace has the value, whichever span it is.     *)
HasModel(R, m) == {t \in TracesOf(R) : m = None \/ \E r \in R : r.trace = t /\ r.model = m}
HasSession(R, s) == {t \in TracesOf(R) : s = None \/ \E r \in R : r.trace = t /\ r.session = s}

---------------------------------------------------------------------------
(* The trace list.                                                         *)
Qualified(R, f) == TracesOf(InWindow(R, f)) \cap HasModel(R, f.model) \cap HasSession(R, f.session)

TraceSpans(R, t) == {r \in R : r.trace = t}
TraceStatus(S) == IF Failed(S) # {} THEN "ERROR" ELSE "OK"
TraceDuration(S) == Max({r.start + r.duration : r \in S}) - Min({r.start : r \in S})

(* Mutant: the status of the spans in the window alone.                    *)
ListedByMatching(R, f) ==
  {t \in Qualified(R, f) :
     LET S == TraceSpans(InWindow(R, f), t)
     IN /\ f.status = None \/ TraceStatus(S) = f.status
        /\ f.longer = None \/ TraceDuration(S) >= f.longer}

(* HAVING sees all spans of a qualified trace.                             *)
Listed(R, f) ==
  {t \in Qualified(R, f) :
     LET S == TraceSpans(R, t)
     IN /\ f.status = None \/ TraceStatus(S) = f.status
        /\ f.longer = None \/ TraceDuration(S) >= f.longer}

(* COALESCE(MAX of the AGENT spans, MAX of all); NULLs do not count.       *)
Values(S) == {r.session : r \in S} \ {None}
TraceSession(S) ==
  IF Values(Of(S, "AGENT")) # {} THEN Max(Values(Of(S, "AGENT")))
  ELSE IF Values(S) # {} THEN Max(Values(S)) ELSE None

Summary(R, t) ==
  LET S == TraceSpans(R, t)
  IN [status |-> TraceStatus(S), duration |-> TraceDuration(S), session |-> TraceSession(S),
      spans |-> Cardinality(S), llm |-> Cardinality(Of(S, "LLM")),
      tools |-> Cardinality(Of(S, "TOOL")), tokens |-> Total(Of(S, "LLM"))]

(* The first of some spans in the order of their starts; ORDER BY leaves   *)
(* open which of several that start together.                              *)
First(S) == CHOOSE r \in S : \A q \in S : r.start <= q.start

(* In the detail the first AGENT span, else the first without a parent,    *)
(* else the first of all speaks for the trace, and what it lacks comes     *)
(* from the first span that has it.                                        *)
Spoken(S) ==
  LET agents == Of(S, "AGENT")
      roots == {r \in S : r.root}
      meta == First(IF agents # {} THEN agents ELSE IF roots # {} THEN roots ELSE S)
      others == {r \in S : r.session # None}
  IN IF meta.session # None THEN meta.session
     ELSE IF others # {} THEN First(others).session ELSE None

Detail(R, t) ==
  LET S == TraceSpans(R, t)
  IN [status |-> IF \E r \in S : r.status = "ERROR" THEN "ERROR" ELSE "OK",
      duration |-> Max({r.start + r.duration : r \in S}) - Min({r.start : r \in S}),
      session |-> Spoken(S),
      spans |-> Cardinality(S), llm |-> Cardinality(Of(S, "LLM")),
      tools |-> Cardinality(Of(S, "TOOL")), tokens |-> Total(Of(S, "LLM"))]

---------------------------------------------------------------------------
(* Mutant: the session applied to each span.                               *)
MatchedBySpan(R, f) ==
  {r \in InWindow(R, f) :
     (f.model = None \/ r.model = f.model) /\ (f.session = None \/ r.session = f.session)}

(* The dashboard.  Time and model choose spans, the session chooses        *)
(* traces.                                                                 *)
Matched(R, f) ==
  {r \in InWindow(R, f) : (f.model = None \/ r.model = f.model) /\ r.trace \in HasSession(R, f.session)}

(* A TOOL span has no model: the model chooses the traces whose TOOL spans *)
(* count, and the window is applied to those spans again.                  *)
ToolSpans(R, f) ==
  {r \in InWindow(R, f) : r.kind = "TOOL" /\ r.trace \in TracesOf(Matched(R, f))}

(* In hundredths: interpolates linearly, None for an empty list.           *)
Percentile(list, p) ==
  LET k == (Len(list) - 1) * p
      f == k \div 100
  IN IF list = <<>> THEN None
     ELSE IF f + 1 < Len(list)
          THEN 100 * list[f + 1] + (k % 100) * (list[f + 2] - list[f + 1])
          ELSE 100 * list[f + 1]

(* The durations of the calls in ascending order: the k-th has fewer than  *)
(* k below it and at least k not above it.                                 *)
Latencies(R) ==
  [k \in 1..Cardinality(R) |->
     CHOOSE d \in {r.duration : r \in R} :
       /\ Cardinality({r \in R : r.duration < d}) < k
       /\ k <= Cardinality({r \in R : r.duration <= d})]

(* The users and sessions are those of the whole traces, not of the spans  *)
(* that matched.                                                           *)
Metrics(R, f) ==
  LET M == Matched(R, f)
      calls == Of(M, "LLM")
  IN [traces |-> Cardinality(TracesOf(M)), errors |-> Cardinality(TracesOf(Failed(M))),
      spans |-> Cardinality(M),
      llm |-> Cardinality(calls), llmErrors |-> Cardinality(Failed(calls)),
      tokens |-> Total(calls),
      sessions |-> Cardinality({TraceSession(TraceSpans(R, t)) : t \in TracesOf(M)} \ {None}),
      tools |-> Cardinality(ToolSpans(R, f)), toolErrors |-> Cardinality(Failed(ToolSpans(R, f)))]

(* "round(p, 2) if p else 0.0".                                            *)
LatencyShown(R, f, p) ==
  LET v == Percentile(Latencies(Of(Matched(R, f), "LLM")), p)
  IN IF v = None THEN 0 ELSE v

ModelsList(R) ==
  [m \in {r.model : r \in R} \ {None} |->
     LET M == {r \in R : r.model = m}
     IN [spans |-> Cardinality(M), traces |-> Cardinality(TracesOf(M)),
         llm |-> Cardinality(Of(M, "LLM")), errors |-> Cardinality(Failed(Of(M, "LLM")))]]

---------------------------------------------------------------------------
(* The time series: one point for each bucket that has a span of the main  *)
(* query or a TOOL span of a candidate trace.                              *)
Bucket(r) == (r.start \div Interval) * Interval
InBucket(R, b) == {r \in R : Bucket(r) = b}

MainSpans(R, f) == {r \in InWindow(R, f) : f.model = None \/ r.model = f.model}
Candidates(R, f) == IF f.model = None THEN TracesOf(R) ELSE TracesOf(MainSpans(R, f))
CandidateSpans(R, f) == {r \in InWindow(R, f) : r.trace \in Candidates(R, f)}
SeriesTools(R, f) == Of(CandidateSpans(R, f), "TOOL")

(* Mutant: only the buckets of the main query.                             *)
BucketsOfMain(R, f) == {Bucket(r) : r \in MainSpans(R, f)}

Buckets(R, f) == {Bucket(r) : r \in MainSpans(R, f) \cup SeriesTools(R, f)}

(* A bucket of TOOL spans alone counts all spans of the candidate traces,  *)
(* another only those of the main query, but for the failed traces.        *)
Counted(main, all) == IF main # {} THEN main ELSE all

Point(R, f, b) ==
  LET main == InBucket(MainSpans(R, f), b)
      all == InBucket(CandidateSpans(R, f), b)
      counted == Counted(main, all)
      tools == InBucket(SeriesTools(R, f), b)
  IN [traces |-> Cardinality(TracesOf(counted)), spans |-> Cardinality(counted),
      traceErrors |-> Cardinality(TracesOf(Failed(all))),
      llm |-> Cardinality(Of(main, "LLM")), llmErrors |-> Cardinality(Failed(Of(main, "LLM"))),
      tokens |-> Total(Of(main, "LLM")),
      tools |-> Cardinality(tools), toolErrors |-> Cardinality(Failed(tools))]

TimeSeries(R, f) == [b \in Buckets(R, f) |-> Point(R, f, b)]

---------------------------------------------------------------------------
NoFilter == [from |-> None, to |-> None, model |-> None, session |-> None,
             status |-> None, longer |-> None]

Windows == {[NoFilter EXCEPT !.from = w[1], !.to = w[2]] : w \in {v \in Times \X Times : v[1] <= v[2]}}
Filter(w, m, s) == [w EXCEPT !.model = m, !.session = s]
Filters ==
  {Filter(w, m, s) : w \in Windows \cup {NoFilter}, m \in Models \cup {None}, s \in Sessions \cup {None}}

ByStatus(f) == [f EXCEPT !.status = "ERROR"]
Wholly(f) == f.from = None /\ f.model = None

(* The dashboard and the trace list, asked with the same filter, count the *)
(* same traces unless the filter has both a window and a model, which the  *)
(* list lets two spans of a trace meet; and the same failed traces unless  *)
(* it has either, because the dashboard then looks at the matching spans   *)
(* only.  The dashboard never counts more than the list.                   *)
CountsLikeList(m, f) ==
  LET listed == Cardinality(Listed(rows, f))
      failed == Cardinality(Listed(rows, ByStatus(f)))
  IN /\ m.traces <= listed /\ m.errors <= failed
     /\ f.from = None \/ f.model = None => m.traces = listed
     /\ Wholly(f) => m.errors = failed

(* The percentiles lie between the shortest and the longest call and in    *)
(* their order; at least half of the calls are no longer than the median   *)
(* and at least half no shorter.                                           *)
LatenciesOrdered(calls, f) ==
  LET times == {r.duration : r \in calls}
      p50 == LatencyShown(rows, f, 50)
      p95 == LatencyShown(rows, f, 95)
      p99 == LatencyShown(rows, f, 99)
  IN calls # {} =>
       /\ 100 * Min(times) <= p50 /\ p50 <= p95 /\ p95 <= p99 /\ p99 <= 100 * Max(times)
       /\ 2 * Cardinality({r \in calls : 100 * r.duration <= p50}) >= Cardinality(calls)
       /\ 2 * Cardinality({r \in calls : 100 * r.duration >= p50}) >= Cardinality(calls)

(* The list and the detail of a trace agree on its status, duration and    *)
(* counts, and on its session when its spans name one; and the list finds  *)
(* by status and duration the traces whose detail shows them, though only  *)
(* some of their spans lie in the window.                                  *)
DetailAgreesWithList ==
  pc = "ready" =>
    /\ \A t \in TracesOf(rows) :
         LET s == Summary(rows, t)
             d == Detail(rows, t)
         IN /\ [d EXCEPT !.session = None] = [s EXCEPT !.session = None]
            /\ Cardinality(Values(TraceSpans(rows, t))) <= 1 => d.session = s.session
    /\ \A w \in Windows, n \in Durations :
         Listed(rows, [ByStatus(w) EXCEPT !.longer = n]) =
           {t \in Qualified(rows, w) :
              Detail(rows, t).status = "ERROR" /\ Detail(rows, t).duration >= n}

SumOver(series, field) == SumFunction([b \in DOMAIN series |-> series[b][field]])

(* The points of a chart add up to the dashboard of the same window and    *)
(* model: no call, error, token or tool use is lost between the buckets,   *)
(* counted twice or left out because its bucket has no LLM span.  Without  *)
(* a model the spans add up as well.                                       *)
SeriesAddsUp(w, m) ==
  LET f == [w EXCEPT !.model = m]
      series == TimeSeries(rows, f)
      d == Metrics(rows, f)
  IN /\ \A field \in {"llm", "llmErrors", "tokens", "tools", "toolErrors"} :
          SumOver(series, field) = d[field]
     /\ m = None => SumOver(series, "spans") = d.spans

(* What the dashboard page shows fits together: the chart adds up to the   *)
(* numbers of get_metrics, and the percentiles are those of the calls that *)
(* it counted, under every filter.                                         *)
DashboardIsConsistent ==
  pc = "ready" =>
    /\ \A w \in Windows, m \in Models \cup {None} : SeriesAddsUp(w, m)
    /\ \A f \in Filters : LatenciesOrdered(Of(Matched(rows, f), "LLM"), f)

(* The trace error rate of each point of a chart is a rate: there is a     *)
(* trace to divide by, also where only TOOL spans made the bucket, and     *)
(* without a model there are no more failed traces than traces, though     *)
(* get_time_series counts them in different queries.                       *)
PointsHaveRates(w, m) ==
  LET series == TimeSeries(rows, [w EXCEPT !.model = m])
  IN \A b \in DOMAIN series :
       /\ series[b].traces > 0
       /\ m = None => series[b].traceErrors <= series[b].traces

(* The counts of queries that derive traces on their own agree: those of   *)
(* get_metrics with the trace list, and for one model with the model list; *)
(* those of a chart's point with each other.                               *)
CountsAgree ==
  pc = "ready" =>
    /\ \A f \in Filters : CountsLikeList(Metrics(rows, f), f)
    /\ \A m \in DOMAIN ModelsList(rows) :
         LET l == ModelsList(rows)[m]
             d == Metrics(rows, [NoFilter EXCEPT !.model = m])
         IN l = [spans |-> d.spans, traces |-> d.traces, llm |-> d.llm, errors |-> d.llmErrors]
    /\ \A w \in Windows, m \in Models \cup {None} : PointsHaveRates(w, m)
=============================================================================
