------------------------- MODULE OpenAIInstrumentation -------------------------
(***************************************************************************)
(* The patched chat.completions.create and its stream wrappers, in the     *)
(* calls of a program that also opens spans by with-blocks.  A frame is a  *)
(* call that is observed; if it has a span of its own, the span bears its  *)
(* number.  Each context (of a thread or an asyncio task) has its value of *)
(* the ContextVar llm_obs_context.                                         *)
(***************************************************************************)
EXTENDS Integers, Sequences, FiniteSetsExt, TLC

CONSTANTS
  Contexts,    (* contexts of threads and of asyncio tasks                    *)
  MaxFrames    (* bound: frames entered                                       *)

ASSUME FramesAssumption == MaxFrames \in Nat

None == 0
Ambient == MaxFrames + 1    (* a business span that outlives all frames       *)
Symmetry == Permutations(Contexts)

VARIABLES
  frame,       (* the frames so far: kind and span kind, the context (home)   *)
               (* and frame (caller) it was entered in, whether somebody else *)
               (* holds it, the parent of its span, and of its reset: whether *)
               (* it does one (own), what it makes current (ctx) and what was *)
               (* current before (old); state and handler are LangChain's     *)
  live,        (* frames entered and not left                                 *)
  open,        (* history: spans made current and not undone                  *)
  started,     (* contexts in use                                             *)
  base,        (* the frame a context was started from                        *)
  current,     (* the ContextVar llm_obs_context in each context              *)
  streams,     (* frames that returned an ObservedStream                      *)
  finalized,   (* streams whose _finalized is set                             *)
  reported,    (* how often the span of a frame was reported                  *)
  up,          (* the SDK is initialized and its patches are installed        *)
  origin,      (* history: what the ContextVar of a context started with      *)
  lost,        (* history: spans that were open when the code forgot them     *)
  disturbed    (* history: contexts in which the order of resets was broken   *)

frameVars == <<frame, live, open, started, base, current, streams, finalized, reported, up, origin, lost, disturbed>>

Frames == 1..Len(frame)

(* The program starts in one context, inside a span of its own or not.     *)
FramesInit ==
  /\ frame = <<>>
  /\ live = {}
  /\ open = {}
  /\ \E c \in Contexts :
       /\ started = {c}
       /\ \E s \in {None, Ambient} : current = [d \in Contexts |-> IF d = c THEN s ELSE None]
  /\ origin = current
  /\ base = [c \in Contexts |-> None]
  /\ streams = {}
  /\ finalized = {}
  /\ reported = <<>>
  /\ up = TRUE
  /\ lost = {}
  /\ disturbed = {}

-----------------------------------------------------------------------------
Plain(c) == {f \in live : frame[f].home = c /\ ~frame[f].held}
Held(c)  == {f \in live : frame[f].home = c /\ frame[f].held}

(* A context runs its own code unless it waits for create.                 *)
Running(c) == c \in started /\ \A f \in Plain(c) : frame[f].kind # "create"

(* Code in c runs in its innermost call, or in a generator that resumed.   *)
Callers(c) == (IF Plain(c) = {} THEN {base[c]} ELSE {Max(Plain(c))}) \cup Held(c)

(* Calls return in the reverse order of their start; generators are        *)
(* resumed and closed by whoever has them, when nothing runs in them.      *)
MayLeave(c, f) ==
  /\ Running(c)
  /\ f \in live
  /\ \A g \in live : frame[g].home = frame[f].home => frame[g].caller # f
  /\ frame[f].held \/ (f \in Plain(c) /\ f = Max(Plain(c)))

SpanKind(s) == IF s = Ambient THEN "agent" ELSE frame[s].span
LogicalLLMActive(s) == s # None /\ SpanKind(s) = "llm"

(* Frame number Len(frame) + 1; cur is what the ContextVar becomes.        *)
Push(c, r, cur) ==
  /\ Len(frame) < MaxFrames
  /\ frame' = Append(frame, r)
  /\ live' = live \cup {Len(frame) + 1}
  /\ open' = IF r.own THEN open \cup {Len(frame) + 1} ELSE open
  /\ reported' = Append(reported, 0)
  /\ current' = [current EXCEPT ![c] = cur]
  /\ UNCHANGED <<started, base, streams, finalized, up, origin, lost, disturbed>>

Entered(c) == {f \in open : frame[f].home = c}

(* The contexts whose order of resets is broken when f is undone in c.     *)
Disturbs(c, f) ==
  LET home == frame[f].home
  IN  IF f = Max(Entered(home)) /\ home = c THEN {} ELSE {home, c}

(* Reports reach the backend while the SDK is up.                          *)
ReportedWith(s) == IF up /\ reported[s] < 2 THEN [reported EXCEPT ![s] = @ + 1] ELSE reported

NewFrame(c, kind, span, k) ==
  [kind |-> kind, span |-> span, home |-> c, caller |-> k, held |-> FALSE, own |-> TRUE,
   parent |-> current[c], ctx |-> Len(frame) + 1, old |-> current[c], state |-> None,
   handler |-> IF k = None THEN None ELSE frame[k].handler]

(* A task starts with a copy of its creator's context, a thread without.   *)
StartContext(c, d, copied) ==
  /\ Running(c)
  /\ d \notin started
  /\ started' = started \cup {d}
  /\ base' = [base EXCEPT ![d] = IF copied THEN Max(Callers(c) \ Held(c)) ELSE None]
  /\ current' = [current EXCEPT ![d] = IF copied THEN current[c] ELSE None]
  /\ origin' = [origin EXCEPT ![d] = IF copied THEN current[c] ELSE None]
  /\ UNCHANGED <<frame, live, open, streams, finalized, reported, up, lost, disturbed>>

(* The middleware wraps a model or tool call of a trace in a span.         *)
EnterScope(c, span) ==
  /\ up
  /\ Running(c)
  /\ current[c] # None
  /\ \E k \in Callers(c) : Push(c, NewFrame(c, "scope", span, k), Len(frame) + 1)

LeaveScope(c, f) ==
  /\ frame[f].kind = "scope"
  /\ MayLeave(c, f)
  /\ live' = live \ {f}
  /\ open' = open \ {f}
  /\ reported' = ReportedWith(f)
  /\ current' = [current EXCEPT ![c] = frame[f].old]
  /\ disturbed' = disturbed \cup Disturbs(c, f)
  /\ UNCHANGED <<frame, started, base, streams, finalized, up, origin, lost>>

-----------------------------------------------------------------------------
(* Without a trace, or under a logical LLM span, the original is called    *)
(* and nothing changes but headers.  Mutant: without the second test.      *)
CreateAlways(c) ==
  /\ up
  /\ Running(c)
  /\ current[c] # None
  /\ \E k \in Callers(c) : Push(c, NewFrame(c, "create", "llm", k), Len(frame) + 1)

Create(c) ==
  /\ up
  /\ Running(c)
  /\ current[c] # None
  /\ ~LogicalLLMActive(current[c])
  /\ \E k \in Callers(c) : Push(c, NewFrame(c, "create", "llm", k), Len(frame) + 1)

InCreate(c, f) == f \in Plain(c) /\ frame[f].kind = "create"

(* The response came: the context is restored, then the span is reported,  *)
(* or left to a stream.  After uninstrument, _tracer is None: the code     *)
(* raises between the two and forgets the span.                            *)
CreateReturns(c, f, stream) ==
  /\ InCreate(c, f)
  /\ live' = live \ {f}
  /\ open' = open \ {f}
  /\ current' = [current EXCEPT ![c] = frame[f].old]
  /\ streams' = IF stream THEN streams \cup {f} ELSE streams
  /\ reported' = IF stream THEN reported ELSE ReportedWith(f)
  /\ lost' = IF up \/ stream THEN lost ELSE lost \cup {f}
  /\ UNCHANGED <<frame, started, base, finalized, up, origin, disturbed>>

(* Mutant of CreateRaises: the context is restored on success only.        *)
CreateRaisesUnreset(c, f) ==
  /\ InCreate(c, f)
  /\ live' = live \ {f}
  /\ open' = open \ {f}
  /\ reported' = ReportedWith(f)
  /\ UNCHANGED <<frame, started, base, current, streams, finalized, up, origin, lost, disturbed>>

CreateRaises(c, f) ==
  /\ InCreate(c, f)
  /\ live' = live \ {f}
  /\ open' = open \ {f}
  /\ reported' = ReportedWith(f)
  /\ current' = [current EXCEPT ![c] = frame[f].old]
  /\ lost' = IF up THEN lost ELSE lost \cup {f}
  /\ UNCHANGED <<frame, started, base, streams, finalized, up, origin, disturbed>>

(* Cancellation is no Exception: neither the span nor the context is       *)
(* looked after.                                                           *)
CreateCancelled(c, f) ==
  /\ InCreate(c, f)
  /\ live' = live \ {f}
  /\ lost' = lost \cup {f}
  /\ disturbed' = disturbed \cup {c}
  /\ UNCHANGED <<frame, open, started, base, current, streams, finalized, reported, up, origin>>

(* Mutant of StreamEnds: without the test of _finalized.                   *)
StreamEndsAgain(f) ==
  /\ f \in streams
  /\ finalized' = finalized \cup {f}
  /\ reported' = ReportedWith(f)
  /\ UNCHANGED <<frame, live, open, started, base, current, streams, up, origin, lost, disturbed>>

(* The stream is exhausted, raises, is closed, leaves its with-block or is *)
(* collected (an async one is not), in whatever order and context: the     *)
(* first one finalizes.                                                    *)
MayFinalize(f) == f \in streams \ finalized

StreamEnds(f) ==
  /\ MayFinalize(f)
  /\ finalized' = finalized \cup {f}
  /\ reported' = ReportedWith(f)
  /\ lost' = IF up THEN lost ELSE lost \cup {f}
  /\ UNCHANGED <<frame, live, open, started, base, current, streams, up, origin, disturbed>>

(* Removes the patches and clears the ContextVar of its own context.       *)
Shutdown(c) ==
  /\ up
  /\ Running(c)
  /\ up' = FALSE
  /\ current' = [current EXCEPT ![c] = None]
  /\ disturbed' = disturbed \cup {c}
  /\ UNCHANGED <<frame, live, open, started, base, streams, finalized, reported, origin, lost>>

OpenAINext ==
  \/ \E c \in Contexts, span \in {"tool", "llm"} : EnterScope(c, span)
  \/ \E c \in Contexts : Create(c)
  \/ \E c \in Contexts : \E f \in live :
       \/ LeaveScope(c, f)
       \/ \E stream \in BOOLEAN : CreateReturns(c, f, stream)
       \/ CreateRaises(c, f)
       \/ CreateCancelled(c, f)
  \/ \E f \in streams : StreamEnds(f)
=============================================================================
