------------------------------ MODULE ProxyHandler ------------------------------
(***************************************************************************)
(* One observed request through the Proxy, composed with the reporter its  *)
(* telemetry goes to.  Requests share nothing but the reporter, so one is  *)
(* followed in full, from await to await, while the records of the others  *)
(* reach the reporter at any time.                                         *)
(***************************************************************************)
EXTENDS ProxyReporter

CONSTANTS
  Request,     (* the record of the request that is followed                  *)
  MaxChunks    (* bound: SSE chunks of one answer                             *)

ASSUME HandlerAssumption ==
  /\ Request \in Records
  /\ MaxChunks \in Nat \ {0}

VARIABLES
  strategy,     (* config.payload_strategy                                    *)
  zeroRate,     (* config.sample_rate is 0; otherwise the draw goes either way *)
  at,           (* the await the handler stands at                            *)
  ctx,          (* TraceContext: inherited, and bit 0 of its flags            *)
  isStream, sampling,  (* is_stream, should_sample                            *)
  httpStatus,   (* upstream_resp.status                                       *)
  acc,          (* StreamingAccumulator                                       *)
  record        (* what _report_telemetry handed over, NoRecord before        *)

config == <<strategy, zeroRate>>
reporter == <<fresh, queue, batch, task, answer, stopFlag, sent, dropped, stored, accepted>>
handler == <<at, ctx, isStream, sampling, httpStatus, acc, record>>
allVars == <<config, handler, reporter>>

Strategies == {"off", "metadata_only", "masked", "full"}
Root == [inherited |-> FALSE, sampled |-> TRUE]
Contexts == {Root} \cup [inherited : {TRUE}, sampled : BOOLEAN]
NoRecord == [status |-> "none"]
Contents == [content : BOOLEAN, usage : BOOLEAN]
Nothing == [content |-> FALSE, usage |-> FALSE]

HandlerInit ==
  /\ Init
  /\ strategy \in Strategies
  /\ zeroRate \in BOOLEAN
  /\ at = "new"
  /\ ctx = Root
  /\ isStream = FALSE
  /\ sampling = FALSE
  /\ httpStatus = 0
  /\ acc = [chunks |-> 0, content |-> FALSE, usage |-> FALSE]
  /\ record = NoRecord

-----------------------------------------------------------------------------
(* Sampling and payload                                                    *)

(* Mutant of Draws: errors are captured whatever the upstream decided.     *)
DrawsErrorFirst(c, isError) ==
  CASE isError     -> {TRUE}
    [] ~isError /\ c.inherited -> {c.sampled}
    [] OTHER       -> IF zeroRate THEN {FALSE} ELSE BOOLEAN

(* What _should_sample_for_ctx can answer: an inherited decision stands,   *)
(* errors of a root trace are always captured, the rest is drawn.          *)
Draws(c, isError) ==
  CASE c.inherited -> {c.sampled}
    [] ~c.inherited /\ isError -> {TRUE}
    [] OTHER       -> IF zeroRate THEN {FALSE} ELSE BOOLEAN

(* process_payload, and the metadata it is replaced by                     *)
FormOf == CASE strategy = "off"           -> "none"
            [] strategy = "metadata_only" -> "meta"
            [] OTHER                      -> strategy

(* Mutant of Capturing: everything but "off" accumulates the content.      *)
CapturesUnlessOff == sampling /\ strategy # "off"

Capturing == sampling /\ strategy \in {"masked", "full"}

(* Which of the answer's data a payload of that form, and the attributes   *)
(* taken from it, still carry                                              *)
Carried(response, data) ==
  [content |-> data.content /\ response \in {"masked", "full"},
   usage   |-> data.usage /\ response # "none"]

(* _report_telemetry, which awaits nothing: the sampling gate, the record, *)
(* and reporter.report.                                                    *)
ReportTelemetry(isError, response, data, interrupted) ==
  \E shouldReport \in Draws(ctx, isError) :
    IF ~shouldReport
      THEN UNCHANGED <<reporter, record>>
      ELSE LET carried == Carried(response, data) IN
           /\ record' = [status      |-> IF isError THEN "ERROR" ELSE "OK",
                         request     |-> IF sampling THEN FormOf ELSE "none",
                         response    |-> response,
                         content     |-> carried.content,
                         usage       |-> carried.usage,
                         interrupted |-> interrupted]
           /\ Enqueue(Request)
           /\ fresh' = fresh \ {Request}
           /\ UNCHANGED <<batch, task, answer, stopFlag, sent, stored>>

-----------------------------------------------------------------------------
(* The request                                                             *)

(* Up to the POST: context from the traceparent header, or a root of its   *)
(* own when there is none or it is malformed; the payload decision.        *)
Receive(c, streamed) ==
  /\ at = "new"
  /\ ~stopFlag
  /\ at' = "posting"
  /\ ctx' = c
  /\ isStream' = streamed
  /\ sampling' \in Draws(c, FALSE)
  /\ UNCHANGED <<httpStatus, acc, record, config, reporter>>

(* An aiohttp.ClientError of the POST is answered with a 502.              *)
UpstreamRefuses ==
  /\ at = "posting"
  /\ ReportTelemetry(TRUE, "none", Nothing, FALSE)
  /\ at' = "done"
  /\ UNCHANGED <<ctx, isStream, sampling, httpStatus, acc, config>>

UpstreamAnswers(status) ==
  /\ at = "posting"
  /\ httpStatus' = status
  /\ at' = IF isStream /\ status = 200 THEN "preparing" ELSE "reading"
  /\ UNCHANGED <<ctx, isStream, sampling, acc, record, config, reporter>>

Prepared ==
  /\ at = "preparing"
  /\ at' = "streaming"
  /\ UNCHANGED <<ctx, isStream, sampling, httpStatus, acc, record, config, reporter>>

Fed(chunk) ==
  [chunks  |-> acc.chunks + 1,
   content |-> acc.content \/ (chunk.content /\ Capturing),
   usage   |-> acc.usage \/ chunk.usage]

(* One line forwarded to the client and fed to the accumulator             *)
ForwardChunk(chunk) ==
  /\ at = "streaming"
  /\ acc.chunks < MaxChunks
  /\ acc' = Fed(chunk)
  /\ UNCHANGED <<at, ctx, isStream, sampling, httpStatus, record, config, reporter>>

Ended == /\ at' = "done"
         /\ acc' = [acc EXCEPT !.chunks = 0]
         /\ UNCHANGED <<ctx, isStream, sampling, httpStatus, config>>

StreamEnds ==
  /\ at = "streaming"
  /\ ReportTelemetry(FALSE, IF sampling THEN FormOf ELSE "none", acc, FALSE)
  /\ Ended

(* Mutant of StreamInterrupted: no return after the report.                *)
InterruptedFallsThrough ==
  /\ at = "streaming"
  /\ ReportTelemetry(TRUE, IF sampling THEN "full" ELSE "none", acc, TRUE)
  /\ UNCHANGED <<at, ctx, isStream, sampling, httpStatus, acc, config>>

(* The client goes away, or upstream_timeout passes: what was accumulated  *)
(* is reported as it stands, past process_payload and the strategy.        *)
StreamInterrupted ==
  /\ at = "streaming"
  /\ ReportTelemetry(TRUE, IF sampling THEN "full" ELSE "none", acc, TRUE)
  /\ Ended

BodyRead(body) ==
  /\ at = "reading"
  /\ acc' = [chunks |-> 0, content |-> body.content, usage |-> body.usage]
  /\ ReportTelemetry(httpStatus >= 400, IF sampling THEN FormOf ELSE "none", body, FALSE)
  /\ at' = "done"
  /\ UNCHANGED <<ctx, isStream, sampling, httpStatus, config>>

(* What no except clause covers ends the handler without telemetry: a POST *)
(* that times out, a client gone before the headers, an upstream that      *)
(* breaks off its body, a chunk or body that is JSON but not an object,    *)
(* cancellation.                                                           *)
Fails ==
  /\ at \in {"posting", "preparing", "streaming", "reading"}
  /\ UNCHANGED <<record, reporter>>
  /\ Ended

-----------------------------------------------------------------------------
(* Composition.  aiohttp ends or cancels the handlers before on_cleanup,   *)
(* which stops the reporter.                                               *)
ReporterStep ==
  /\ \/ \E r \in Records \ {Request} : Report(r)
     \/ TakeBatch
     \/ CoreReceives
     \/ ConnectionFails
     \/ ReceiveOk
     \/ ReceiveFailure
     \/ at \in {"new", "done"} /\ BeginStop
     \/ FinalFlushIdle
  /\ UNCHANGED <<handler, config>>

HandlerNext ==
  \/ \E c \in Contexts, streamed \in BOOLEAN : Receive(c, streamed)
  \/ UpstreamRefuses
  \/ \E status \in {200, 204, 500} : UpstreamAnswers(status)
  \/ Prepared
  \/ \E chunk \in Contents : ForwardChunk(chunk)
  \/ StreamEnds
  \/ StreamInterrupted
  \/ \E body \in Contents : BodyRead(body)
  \/ Fails
  \/ ReporterStep

(* The upstream answers, or upstream_timeout passes; nothing is asked of   *)
(* the flush task or of the Core.                                          *)
Fairness ==
  /\ WF_allVars(\E status \in {200, 204, 500} : UpstreamAnswers(status))
  /\ WF_allVars(Prepared)
  /\ WF_allVars((\E chunk \in Contents : ForwardChunk(chunk)) \/ StreamEnds \/ StreamInterrupted)
  /\ WF_allVars(\E body \in Contents : BodyRead(body))

HandlerSpec == HandlerInit /\ [][HandlerNext]_allVars /\ Fairness

-----------------------------------------------------------------------------
(* Properties                                                              *)

Reported == record # NoRecord

(* Whether a span appears agrees with the decision the trace carries: none *)
(* under an inherited "not sampled", not even for an error, and none of a  *)
(* root trace with sample_rate 0 unless the request failed.                *)
SamplingDecides ==
  Reported => IF ctx.inherited THEN ctx.sampled
              ELSE zeroRate => record.status = "ERROR"

(* What a record says of the answer: content only if the strategy admits   *)
(* it, also when the stream broke, and the token counts of every answer    *)
(* that ended and gave them, unless payloads are off or unsampled.         *)
RecordCarriesWhatItMay ==
  Reported =>
    /\ record.content => sampling /\ strategy \in {"masked", "full"}
    /\ at = "done" /\ ~record.interrupted /\ httpStatus # 0 =>
         (record.usage <=> acc.usage /\ sampling /\ strategy # "off")

(* Telemetry never holds a request up: it ends although the Core may never *)
(* answer and the flush task may never run.                                *)
RequestEnds == (at \in {"posting", "preparing", "streaming", "reading"}) ~> (at = "done")
=============================================================================
