---------------------------- MODULE LangChainTracing ----------------------------
(***************************************************************************)
(* The LangChain instrumentation on top of the patched OpenAI client: the  *)
(* wrapper of invoke and stream with its AutoInvocationState, and the      *)
(* callback handler with its registry of runs.  LangChain itself is        *)
(* external: it starts a run in a call that was given a handler, and ends  *)
(* the run inline, in a task of its own, or not at all.                    *)
(***************************************************************************)
EXTENDS OpenAIInstrumentation

VARIABLES
  auto,        (* _AUTO_STATE in each context: the frame that made the state  *)
  depth,       (* AutoInvocationState.depth of the state a frame made         *)
  runs,        (* CallbackRunRegistry of its handler: runs are registered in  *)
               (* the order of their numbers                                  *)
  late,        (* history: runs registered after their last invocation        *)
  hands,       (* runs that were closed while another thread had their state  *)
               (* in its hands and will end them again: <<context, run>>      *)
  raced        (* history: runs that ever were in hands                       *)

vars == <<frameVars, auto, depth, runs, late, hands, raced>>

Init ==
  /\ FramesInit
  /\ auto = [c \in Contexts |-> None]
  /\ depth = [s \in 1..MaxFrames |-> 0]
  /\ runs = [s \in 1..MaxFrames |-> {}]
  /\ late = {}
  /\ hands = {}
  /\ raced = {}

OpenAIStep == OpenAINext /\ UNCHANGED <<auto, depth, runs, late, hands, raced>>

StartTask(c, d, copied) ==
  /\ StartContext(c, d, copied)
  /\ auto' = [auto EXCEPT ![d] = IF copied THEN auto[c] ELSE None]
  /\ UNCHANGED <<depth, runs, late, hands, raced>>

-----------------------------------------------------------------------------
(* Runs                                                                    *)

Registered == {r \in Frames : frame[r].kind = "run" /\ r \in runs[frame[r].handler]}

(* parent_run_id: the nearest run in the calls around k, if LangChain was  *)
(* given the config of the caller.                                         *)
ParentRun[k \in 0..MaxFrames] ==
  IF k = None \/ k > Len(frame) THEN None
  ELSE IF frame[k].kind = "run" THEN k ELSE ParentRun[frame[k].caller]

(* The context of the parent run while it is registered, or the current.   *)
FindParentContext(c, h, k) ==
  LET r == ParentRun[k]
  IN  IF r # None /\ r \in runs[h] THEN frame[r].ctx ELSE current[c]

(* A run that is started in an LLM or TOOL span of its own kind is virtual, *)
(* as a chain always is: it is registered without a span.                  *)
Virtual(c, kind) == kind = "none" \/ SpanKind(current[c]) = kind

StartRun(c, kind, k) ==
  LET h == frame[k].handler
      parent == FindParentContext(c, h, k)
      own == ~Virtual(c, kind)
      r == Len(frame) + 1
      ctx == IF own THEN r ELSE IF kind = "none" THEN parent ELSE current[c]
  IN  /\ up
      /\ Running(c)
      /\ k \in Callers(c) \ {None}
      /\ h # None
      /\ current[c] # None
      /\ Push(c, [NewFrame(c, "run", kind, k) EXCEPT
                    !.held = frame[k].held /\ frame[k].home = c, !.own = own, !.ctx = ctx,
                    !.parent = IF kind = "llm" THEN parent ELSE current[c]],
              IF own THEN r ELSE current[c])
      /\ runs' = [runs EXCEPT ![h] = @ \cup {r}]
      /\ late' = IF \E f \in live : frame[f].kind = "invoke" /\ frame[f].state = h
                 THEN late ELSE late \cup {r}
      /\ UNCHANGED <<auto, depth, hands, raced>>

(* What ending the span of run r in context c makes of that ContextVar:    *)
(* the token is reset where it was made; elsewhere an LLM sets its parent, *)
(* a tool what it had found.                                               *)
Restored(c, r) ==
  IF c = frame[r].home \/ frame[r].span = "tool" THEN frame[r].old ELSE frame[r].parent

(* The start callbacks, by what their run makes of the ContextVar.          *)
StartLLM(c, k) == StartRun(c, "llm", k)
StartChain(c, k) == StartRun(c, "none", k)
StartTool(c, k) == StartRun(c, "tool", k)

(* A retriever has a TOOL span.                                            *)
StartRetriever(c, k) == StartRun(c, "tool", k)

(* An end or error callback is ignored without a trace and when the run is *)
(* not registered.                                                         *)
Heard(c, r, callback) ==
  /\ callback # "missing"
  /\ up
  /\ current[c] # None
  /\ r \in Registered

EndsSpan(c, r, callback) == Heard(c, r, callback) /\ frame[r].own

(* The last of a run: its end or error callback comes inline, or in a      *)
(* task with a copy of the context, which it leaves as it was, or never.   *)
EndRun(c, r, callback) ==
  LET ends == EndsSpan(c, r, callback)
      h == frame[r].handler
  IN  /\ frame[r].kind = "run"
      /\ MayLeave(c, r)
      /\ live' = live \ {r}
      /\ open' = IF ends /\ callback = "inline" THEN open \ {r} ELSE open
      /\ runs' = IF Heard(c, r, callback) THEN [runs EXCEPT ![h] = @ \ {r}] ELSE runs
      /\ reported' = IF ends THEN ReportedWith(r) ELSE reported
      /\ current' = IF ends /\ callback = "inline"
                    THEN [current EXCEPT ![c] = Restored(c, r)] ELSE current
      /\ disturbed' = disturbed \cup (CASE ~ends -> {}
                                        [] ends /\ callback = "inline" -> Disturbs(c, r)
                                        [] OTHER -> {c, frame[r].home})
      /\ UNCHANGED <<frame, started, base, streams, finalized, up, origin, lost, auto, depth, late,
                     hands, raced>>

-----------------------------------------------------------------------------
(* Invocations                                                             *)

(* One more exit has to come before the state s is closed.                 *)
Deeper(s) == [depth EXCEPT ![s] = @ + 1]

(* _enter_invocation: share the state of the context, or make one, with an *)
(* AGENT root where no trace is active.  The callbacks of the calls inside *)
(* go to the handler the caller's config carries, if it has one.           *)
Invoke(c, held) ==
  LET f == Len(frame) + 1
      shared == auto[c] # None
      s == IF shared THEN auto[c] ELSE f
      root == ~shared /\ current[c] = None
  IN  /\ up
      /\ Running(c)
      /\ \E k \in Callers(c) :
           Push(c, [NewFrame(c, "invoke", IF root THEN "agent" ELSE "none", k) EXCEPT
                      !.held = held, !.own = root, !.state = s,
                      !.handler = IF @ = None THEN s ELSE @],
                IF root THEN f ELSE current[c])
      /\ depth' = Deeper(s)
      /\ auto' = [auto EXCEPT ![c] = s]
      /\ UNCHANGED <<runs, late, hands, raced>>

(* close_open_runs in context c works on a snapshot of the registry, which  *)
(* it clears in the end: what other threads have started meanwhile, with   *)
(* numbers above the cut, is not in the one and gone from the other.       *)
OwnRuns(s) == {r \in runs[s] : frame[r].own}
Snapshots(c) == {cut \in 0..Len(frame) : \A f \in Frames : f > cut => frame[f].home # c}
Snapshot(s, cut) == {r \in OwnRuns(s) : r <= cut}

(* It ends the runs of the snapshot T in the order they were registered, so *)
(* that the reset of the last one stays.                                   *)
AfterClosing(c, T) == IF T = {} THEN current[c] ELSE Restored(c, Max(T))

(* Spans of LLM runs are reported through the tracer, which must be there. *)
ReportedClosing(T) ==
  [f \in Frames |-> IF up /\ reported[f] < 2 /\ f \in T THEN reported[f] + 1 ELSE reported[f]]

ClosingDisturbs(c, T) ==
  IF T = {} \/ (\E r \in T : T = {r} /\ Disturbs(c, r) = {}) THEN {}
  ELSE {c} \cup {frame[r].home : r \in T}

(* It does not mark a run as ended.  Until the registry is cleared, another *)
(* thread takes up the state of a run that closes, or has just done it: in *)
(* an end callback, or in an exit that closes the same runs.               *)
Closes(g, inside) == frame[g].own \/ inside <= 1

MayTakeUp(c, f, T) ==
  LET s == frame[f].state
  IN  {h \in (started \ {c}) \X T :
         \/ MayLeave(h[1], h[2]) /\ Heard(h[1], h[2], "inline")
         \/ \E g \in live \ {f} : /\ frame[g].kind = "invoke" /\ frame[g].state = s
                                  /\ MayLeave(h[1], g) /\ Closes(g, depth[s] - 1)}

(* _exit_invocation: a root, or the last one inside, closes the runs, then *)
(* the root, and drops the state.  A root that was closed before is closed *)
(* again; its token can only be reset once, where it was made.             *)
CloseWhen(c, f, closes, cut, taken) ==
  LET s == frame[f].state
      T == Snapshot(s, cut)
      root == closes /\ frame[s].own
      first == root /\ s = f /\ c = frame[f].home
  IN  /\ MayLeave(c, f)
      /\ live' = live \ {f}
      /\ open' = IF closes THEN open \ (T \cup {s}) ELSE open
      /\ depth' = [depth EXCEPT ![s] = @ - 1]
      /\ runs' = IF closes THEN [runs EXCEPT ![s] = {}] ELSE runs
      /\ lost' = IF closes THEN lost \cup (OwnRuns(s) \ T) ELSE lost
      /\ hands' = IF closes THEN hands \cup taken ELSE hands
      /\ raced' = IF closes THEN raced \cup {h[2] : h \in taken} ELSE raced
      /\ reported' = IF ~closes THEN reported
                     ELSE IF root /\ up /\ reported[s] < 2
                          THEN [ReportedClosing(T) EXCEPT ![s] = @ + 1] ELSE ReportedClosing(T)
      /\ current' = [current EXCEPT ![c] =
                       CASE first  -> frame[f].old
                         [] closes /\ ~first -> AfterClosing(c, T)
                         [] OTHER  -> @]
      /\ auto' = IF closes THEN [auto EXCEPT ![c] = None] ELSE auto
      /\ LET left == Entered(c) \ ({f} \cup T)
             worse == IF closes THEN disturbed \cup ClosingDisturbs(c, T) ELSE disturbed
         IN  disturbed' = IF first /\ left = {} /\ origin[c] = None THEN worse \ {c}
                          ELSE IF frame[f].own /\ (c # frame[f].home \/ left # {})
                               THEN worse \cup {c, frame[f].home} ELSE worse
      /\ UNCHANGED <<frame, started, base, streams, finalized, up, origin, late>>

ExitWhen(c, f, closes) ==
  /\ frame[f].kind = "invoke"
  /\ \E cut \in Snapshots(c) :
       \E taken \in SUBSET MayTakeUp(c, f, Snapshot(frame[f].state, cut)) :
         CloseWhen(c, f, closes, cut, taken)

(* Mutant of ExitInvocation: only a root closes.                           *)
ExitRootCloses(c, f) == ExitWhen(c, f, frame[f].own)

ExitInvocation(c, f) == ExitWhen(c, f, Closes(f, depth[frame[f].state]))

(* The thread that had the state of r in its hands ends the span again, in  *)
(* its own context or, by a callback in a task of its own, in a copy.      *)
EndAgain(c, r, copied) ==
  /\ <<c, r>> \in hands
  /\ hands' = hands \ {<<c, r>>}
  /\ reported' = ReportedWith(r)
  /\ current' = IF copied THEN current ELSE [current EXCEPT ![c] = Restored(c, r)]
  /\ disturbed' = disturbed \cup {c, frame[r].home}
  /\ UNCHANGED <<frame, live, open, started, base, streams, finalized, up, origin, lost,
                 auto, depth, runs, late, raced>>

(* uninstrument clears _AUTO_STATE of its own context.                     *)
ShutdownAll(c) ==
  /\ Shutdown(c)
  /\ auto' = [auto EXCEPT ![c] = None]
  /\ UNCHANGED <<depth, runs, late, hands, raced>>

Next ==
  \/ OpenAIStep
  \/ \E c, d \in Contexts, copied \in BOOLEAN : StartTask(c, d, copied)
  \/ \E c \in Contexts, held \in BOOLEAN : Invoke(c, held)
  \/ \E c \in Contexts : \E k \in Callers(c) \ {None} :
       \/ StartLLM(c, k)
       \/ StartChain(c, k)
       \/ StartTool(c, k)
       \/ StartRetriever(c, k)
  \/ \E c \in Contexts : \E f \in live :
       \/ \E callback \in {"inline", "copied", "missing"} : EndRun(c, f, callback)
       \/ ExitInvocation(c, f)
  \/ \E c \in Contexts, r \in Frames, copied \in BOOLEAN : EndAgain(c, r, copied)
  \/ \E c \in Contexts : ShutdownAll(c)

Spec == Init /\ [][Next]_vars

-----------------------------------------------------------------------------
(* Properties                                                              *)

(* Every span is reported when it is over, whoever ends it (a callback,    *)
(* close_open_runs, an exit of a stream or of an invocation), unless the   *)
(* code lost it, as it does with runs that another thread registers after  *)
(* the snapshot, or the SDK was shut down.  All but AGENT roots are        *)
(* reported once, unless two threads had a run in their hands, one of them *)
(* closing.  A root is closed again by a nested exit that comes after it.  *)
SpanReportedOnce ==
  \A f \in Frames : frame[f].own =>
    /\ frame[f].kind # "invoke" /\ f \notin raced => reported[f] <= 1
    /\ up /\ f \notin live \cup Registered \cup lost \cup (streams \ finalized) => reported[f] >= 1

(* Outside of what the order of resets broke, the ContextVar is the        *)
(* innermost open span that was entered in its context, and the end of a   *)
(* root puts a context right again.                                        *)
CurrentIsInnermost ==
  \A c \in started \ disturbed :
    current[c] = IF Entered(c) = {} THEN origin[c] ELSE Max(Entered(c))

(* The span a call was made in: the innermost that was entered in the same *)
(* context and is still open, or what its task or thread started with.     *)
SpanAround(f) ==
  LET c == frame[f].home
      around == {g \in Entered(c) : g < f}
  IN  IF around = {} THEN origin[c] ELSE Max(around)

(* A model call seen by middleware, callbacks and the SDK patch, in one    *)
(* context or in tasks it starts, is one LLM span: neither a callback nor  *)
(* the patch opens a second one directly inside the first, whatever was    *)
(* entered, left, failed or closed in between.                             *)
OneLLMSpanPerCall ==
  \A f \in open :
    (frame[f].span = "llm" /\ frame[f].kind # "scope" /\ frame[f].home \notin disturbed)
      => ~LogicalLLMActive(SpanAround(f))

(* The last exit of an invocation leaves no run of its handler open, but   *)
(* those that were started after it, in tasks it did not wait for.         *)
ClosedInvocationLeavesNoRun ==
  \A s \in Frames :
    (\A f \in live : frame[f].state # s) => runs[s] \subseteq late
=============================================================================
