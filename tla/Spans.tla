--------------------------------- MODULE Spans ---------------------------------
(***************************************************************************)
(* The spans of the SDK and the ContextVar that links them.  A span is     *)
(* entered and left by a with-block or a decorated function, which nest,   *)
(* or held by a generator, which is resumed and closed by whoever has it,  *)
(* in any order and in any context.                                        *)
(*                                                                         *)
(* The kinds are told apart by what they do to the ContextVar: "agent" is  *)
(* Observability.trace and @agent, "server" a server call, "task" the      *)
(* tasks, chains, client calls and tools, "llm" the logical LLM call.      *)
(***************************************************************************)
EXTENDS Naturals, Sequences, FiniteSetsExt, TLC

CONSTANTS
  Contexts,    (* contexts of threads and of asyncio tasks                    *)
  MaxSpans,    (* bound: spans created                                        *)
  MaxStops     (* bound: calls of shutdown                                    *)

ASSUME SpansAssumption ==
  /\ MaxSpans \in Nat
  /\ MaxStops \in Nat

None == 0
Symmetry == Permutations(Contexts)

VARIABLES
  count,       (* spans created so far: 1..count                              *)
  span,        (* kind, trace, parent, sampled, the context it was entered    *)
               (* in (home), the span current before (old), and whether a     *)
               (* generator holds it                                          *)
  open,        (* spans entered and not left                                  *)
  started,     (* contexts in use                                             *)
  current,     (* the ContextVar llm_obs_context in each context              *)
  sinks,       (* the span event sinks                                        *)
  reported,    (* spans handed to a running reporter                          *)
  up,          (* Observability._initialized                                  *)
  stopping,    (* the context that is inside shutdown: none or one            *)
  stops,       (* calls of shutdown so far                                    *)
  deaf,        (* history: open spans whose reporter is being or was stopped  *)
  origin,      (* history: what the ContextVar of a context started with      *)
  disturbed    (* history: contexts in which a span was left out of order     *)

vars == <<count, span, open, started, current, sinks, reported, up, stopping, stops, deaf, origin, disturbed>>

Init ==
  /\ count = 0
  /\ span = <<>>
  /\ open = {}
  /\ \E c \in Contexts : started = {c}
  /\ current = [c \in Contexts |-> None]
  /\ sinks = {}
  /\ reported = {}
  /\ up = TRUE
  /\ stopping = {}
  /\ stops = 0
  /\ deaf = {}
  /\ origin = [c \in Contexts |-> None]
  /\ disturbed = {}

-----------------------------------------------------------------------------
(* A context runs code unless it is blocked in shutdown.                   *)
Running(c) == c \in started \ stopping

(* A task starts with a copy of its creator's context, a thread with an    *)
(* empty one.                                                              *)
StartContext(c, d, copied) ==
  /\ Running(c)
  /\ d \notin started
  /\ started' = started \cup {d}
  /\ current' = [current EXCEPT ![d] = IF copied THEN current[c] ELSE None]
  /\ origin' = [origin EXCEPT ![d] = IF copied THEN current[c] ELSE None]
  /\ UNCHANGED <<count, span, open, sinks, reported, up, stopping, stops, deaf, disturbed>>

Enter(c, kind, trace, parent, sampled, held) ==
  LET s == count + 1 IN
  /\ up
  /\ Running(c)
  /\ count < MaxSpans
  /\ count' = s
  /\ span' = Append(span, [kind |-> kind, trace |-> trace, parent |-> parent,
                           sampled |-> sampled, home |-> c, old |-> current[c],
                           held |-> held])
  /\ open' = open \cup {s}
  /\ sinks' = sinks \cup {s}
  /\ current' = [current EXCEPT ![c] = s]
  /\ deaf' = IF stopping = {} THEN deaf ELSE deaf \cup {s}
  /\ UNCHANGED <<started, reported, up, stopping, stops, origin, disturbed>>

(* A new trace, sampled by a draw, and refused where a trace is active.    *)
EnterAgent(c, sampled, held) ==
  /\ current[c] = None
  /\ Enter(c, "agent", count + 1, None, sampled, held)

(* Mutant of EnterChild: SpanContext.sampled keeps its default.            *)
EnterChildSampled(c, kind, held) ==
  /\ current[c] # None
  /\ LET p == current[c]
     IN  Enter(c, kind, span[p].trace, p, TRUE, held)

(* Tasks, tools and LLM calls continue the trace of their context.         *)
EnterChild(c, kind, held) ==
  /\ current[c] # None
  /\ LET p == current[c]
     IN  Enter(c, kind, span[p].trace, p, span[p].sampled, held)

(* A server call continues the trace of its carrier, whatever is active in *)
(* its own context; without a valid carrier it is a root of its own.  The  *)
(* carrier was written under any span so far, left meanwhile or not: every *)
(* span is the current one of its context when it is entered.              *)
EnterServer(c, p) == Enter(c, "server", span[p].trace, p, span[p].sampled, FALSE)
EnterServerAlone(c, sampled) == Enter(c, "server", count + 1, None, sampled, FALSE)

(* Mutant of Restored: the ContextVar is emptied.                          *)
RestoredEmpty(c, s) ==
  IF c = span[s].home THEN [current EXCEPT ![c] = None] ELSE current

(* What leaving s in context c makes of the ContextVars.  A token can only *)
(* be reset in the context that made it; otherwise tasks and tools set     *)
(* what they had found, in the context they are left in, agents log the    *)
(* failure, and the others raise it.                                       *)
Restored(c, s) ==
  IF c = span[s].home \/ span[s].kind = "task"
    THEN [current EXCEPT ![c] = span[s].old]
    ELSE current

(* With-blocks and functions return in the reverse order of their calls.   *)
MayLeave(c, s) ==
  /\ Running(c)
  /\ s \in open
  /\ span[s].held \/ (span[s].home = c /\ \A t \in open : t > s /\ span[t].home = c => span[t].held)

EnteredIn(c) == {s \in open : span[s].home = c}

(* The contexts whose order leaving s in c breaks.                         *)
Disturbs(c, s) ==
  LET home == span[s].home IN
  CASE s # Max(EnteredIn(home)) -> {home, c}
    [] s = Max(EnteredIn(home)) /\ home # c -> {home} \cup (IF span[s].kind = "task" THEN {c} ELSE {})
    [] OTHER                    -> {}

Ends(c, s, removed) ==
  /\ MayLeave(c, s)
  /\ open' = open \ {s}
  /\ reported' = IF span[s].sampled /\ s \notin deaf THEN reported \cup {s} ELSE reported
  /\ sinks' = sinks \ removed
  /\ current' = Restored(c, s)
  /\ disturbed' = disturbed \cup Disturbs(c, s)
  /\ UNCHANGED <<count, span, started, up, stopping, stops, deaf, origin>>

(* Mutant of Leave: the sink is removed only where the span is reported.   *)
LeaveUnsampledSink(c, s) == Ends(c, s, IF span[s].sampled THEN {s} ELSE {})

(* Every kind removes its sink and restores its context, sampled or not.   *)
Leave(c, s) == Ends(c, s, {s})

(* shutdown stops the reporter, which takes a while and which the open     *)
(* spans keep ...                                                          *)
StopReporter(c) ==
  /\ up
  /\ stopping = {}
  /\ c \in started
  /\ stops < MaxStops
  /\ stopping' = {c}
  /\ stops' = stops + 1
  /\ deaf' = deaf \cup open
  /\ UNCHANGED <<count, span, open, started, current, sinks, reported, up, origin, disturbed>>

(* ... then clears the sinks, and the ContextVar of its own context only.  *)
Shutdown(c) ==
  /\ stopping = {c}
  /\ stopping' = {}
  /\ up' = FALSE
  /\ current' = [current EXCEPT ![c] = None]
  /\ sinks' = {}
  /\ disturbed' = disturbed \cup {c}
  /\ UNCHANGED <<count, span, open, started, reported, stops, deaf, origin>>

InitAgain ==
  /\ ~up
  /\ up' = TRUE
  /\ UNCHANGED <<count, span, open, started, current, sinks, reported, stopping, stops, deaf, origin, disturbed>>

Next ==
  \/ \E c, d \in Contexts, copied \in BOOLEAN : StartContext(c, d, copied)
  \/ \E c \in Contexts, sampled, held \in BOOLEAN : EnterAgent(c, sampled, held)
  \/ \E c \in Contexts, kind \in {"task", "llm"}, held \in BOOLEAN : EnterChild(c, kind, held)
  \/ \E c \in Contexts, p \in 1..count : EnterServer(c, p)
  \/ \E c \in Contexts, sampled \in BOOLEAN : EnterServerAlone(c, sampled)
  \/ \E c \in Contexts : \E s \in open : Leave(c, s)
  \/ \E c \in Contexts : StopReporter(c)
  \/ \E c \in Contexts : Shutdown(c)
  \/ InitAgain

Spec == Init /\ [][Next]_vars

-----------------------------------------------------------------------------
(* Properties                                                              *)

(* Outside of what generators do to it, the ContextVar of a context is the *)
(* innermost span entered there and not left, or what the context started  *)
(* with: no span is hidden, and none that is left stays visible.           *)
CurrentIsInnermost ==
  \A c \in started \ disturbed :
    current[c] = IF EnteredIn(c) = {} THEN origin[c] ELSE Max(EnteredIn(c))

(* A trace is reported as a whole or not at all, across tasks, threads,    *)
(* generators and carrier: two spans of it that were left while their      *)
(* reporter ran are both reported or both not.                             *)
TraceWholeOrAbsent ==
  LET left == (1..count) \ (open \cup deaf)
  IN  \A s, t \in left : span[s].trace = span[t].trace => (s \in reported <=> t \in reported)

(* Callbacks and annotations find the sink of an open span, whatever was   *)
(* left in between, until the SDK is shut down, and never that of a span   *)
(* that was left, which would drop what they write and leak the span.      *)
SinksAreOpenSpans ==
  /\ sinks \subseteq open
  /\ open \ deaf \subseteq sinks
=============================================================================
