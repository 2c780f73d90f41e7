---------------------------- MODULE GatewayRequest ----------------------------
(***************************************************************************)
(* The requests of a gateway: the ContextVar that shows the Router and the *)
(* Attempt a context works for, in threads and asyncio tasks, and the      *)
(* decisions and results that make the outcome of a Router.  A Router      *)
(* closes in the critical sections of its close(), between which other     *)
(* threads publish results, close Attempts and decide; what happens inside *)
(* start and close of an Attempt is in GatewayLifecycle, and one step here. *)
(***************************************************************************)
EXTENDS Integers, Sequences, FiniteSets

CONSTANTS
  Contexts,      (* contexts of threads and of asyncio tasks                  *)
  Explicit,      (* attempt_index arguments: 0 is none, or not a valid index  *)
  MaxRouters,    (* bound: requests                                           *)
  MaxAttempts    (* bound: Attempts started                                   *)

ASSUME RequestAssumption ==
  /\ Explicit \subseteq Nat
  /\ MaxRouters \in Nat
  /\ MaxAttempts \in Nat

None == 0
Empty == [router |-> None, attempt |-> None]
Slots == [router : 0..MaxRouters, attempt : 0..MaxAttempts]

VARIABLES
  router,      (* the RouterSpans: home and old are of its context token      *)
  attempt,     (* the AttemptSpans that were activated, in this order         *)
  slot,        (* the ContextVar llm_obs_gateway_context in each context      *)
  started      (* contexts in use                                             *)

vars == <<router, attempt, slot, started>>

Routers == 1..Len(router)
Attempts == 1..Len(attempt)

RouterRecords ==
  [home : Contexts, old : Slots,
   limited : BOOLEAN, hit : BOOLEAN, error : BOOLEAN,
   closer : Contexts,              (* who leaves its with-block or closes it   *)
   raised : BOOLEAN,               (* an exception has left the with-block     *)
   closed : BOOLEAN,
   todo : SUBSET (1..MaxAttempts), (* the snapshot, as far as not yet forced   *)
   event : {"none", "completed", "failed"},
   status : {"none", "OK", "ERROR"},
   refused : BOOLEAN,              (* set_rate_limited was called: history     *)
   late : BOOLEAN]                 (* the error was written after the terminal *)
                                   (* event and before the status: history     *)

AttemptRecords ==
  [router : 1..MaxRouters, home : Contexts, old : Slots, found : 0..MaxRouters, index : Nat,
   published : {"no", "ok", "fail", "forced", "late"}, closed : BOOLEAN]

TypeOK ==
  /\ router \in Seq(RouterRecords) /\ Len(router) <= MaxRouters
  /\ \A r \in Routers :
       /\ router[r].event # "none" => router[r].closed /\ router[r].todo = {}
       /\ router[r].status # "none" => router[r].event # "none"
       /\ router[r].todo \subseteq Attempts
  /\ attempt \in Seq(AttemptRecords) /\ Len(attempt) <= MaxAttempts
  /\ \A a \in Attempts : attempt[a].router \in Routers
  /\ slot \in [Contexts -> Slots]
  /\ started \subseteq Contexts

Init ==
  /\ router = <<>>
  /\ attempt = <<>>
  /\ slot = [c \in Contexts |-> Empty]
  /\ \E c \in Contexts : started = {c}

(* A context whose thread or task runs __exit__ or close() of a Router does *)
(* nothing else meanwhile.                                                 *)
Leaving(r) == router[r].status = "none" /\ (router[r].closed \/ router[r].raised)
Idle(c) == c \in started /\ \A r \in Routers : Leaving(r) => router[r].closer # c

-----------------------------------------------------------------------------
(* The ContextVar                                                          *)

(* get: references are weak and show nothing that is closed; a closed      *)
(* Router clears the whole value.                                          *)
Live(s, rs, as) ==
  IF s.router # None /\ rs[s.router].closed THEN Empty
  ELSE IF s.attempt # None /\ as[s.attempt].closed THEN [s EXCEPT !.attempt = None]
  ELSE s

Shown(c) == Live(slot[c], router, attempt)

(* enter_router.  Mutant: the Attempt of the outer request stays.          *)
EnteredBeside(s, r) == [s EXCEPT !.router = r]

Entered(s, r) == [router |-> r, attempt |-> None]

(* clear_attempt in context c with the token of an Attempt: where it was   *)
(* made the token restores what set_attempt found, elsewhere the Attempt,  *)
(* whichever it is, is cleared.  Mutant: the whole value is cleared.       *)
ClearedAll(s, c, a) == IF c = a.home THEN a.old ELSE Empty

Cleared(s, c, a) == IF c = a.home THEN a.old ELSE [s EXCEPT !.attempt = None]

(* A task starts with a copy of its creator's context, a thread without.   *)
StartContext(c, d, copied) ==
  /\ Idle(c)
  /\ d \notin started
  /\ started' = started \cup {d}
  /\ slot' = [slot EXCEPT ![d] = IF copied THEN slot[c] ELSE Empty]
  /\ UNCHANGED <<router, attempt>>

(* active_router and active_attempt: reading drops what is closed.         *)
Read(c) ==
  /\ Idle(c)
  /\ slot' = [slot EXCEPT ![c] = Shown(c)]
  /\ UNCHANGED <<router, attempt, started>>

-----------------------------------------------------------------------------
(* Requests                                                                *)

(* handle_request: the route decision may say rate_limited or tell a cache *)
(* hit already.                                                            *)
HandleRequest(c, limited, hit) ==
  /\ Idle(c)
  /\ Len(router) < MaxRouters
  /\ router' = Append(router, [home |-> c, old |-> slot[c], limited |-> limited, hit |-> hit,
                               error |-> FALSE, closer |-> c, raised |-> FALSE,
                               closed |-> FALSE, todo |-> {}, event |-> "none",
                               status |-> "none", refused |-> FALSE, late |-> FALSE])
  /\ slot' = [slot EXCEPT ![c] = Entered(@, Len(router) + 1)]
  /\ UNCHANGED <<attempt, started>>

AttemptsOf(r) == {a \in Attempts : attempt[a].router = r}
UsedIndices(r) == {attempt[a].index : a \in AttemptsOf(r)}

(* allocate_attempt_index: a valid explicit index that is unused, or else  *)
(* the smallest unused one.                                                *)
AllocateIndex(r, explicit) ==
  IF explicit # None /\ explicit \notin UsedIndices(r) THEN explicit
  ELSE CHOOSE i \in 1..(MaxAttempts + 1) :
         i \notin UsedIndices(r) /\ \A j \in 1..(i - 1) : j \in UsedIndices(r)

(* An Attempt of a closed Router is no Attempt: nothing changes.           *)
StartAttempt(c, r, explicit) ==
  /\ Idle(c)
  /\ ~router[r].closed
  /\ Len(attempt) < MaxAttempts
  /\ attempt' = Append(attempt, [router |-> r, home |-> c, old |-> slot[c],
                                 found |-> Shown(c).router, index |-> AllocateIndex(r, explicit),
                                 published |-> "no", closed |-> FALSE])
  /\ slot' = [slot EXCEPT ![c].attempt = Len(attempt) + 1]
  /\ UNCHANGED <<router, started>>

(* Between the terminal event and the status of a Router.                  *)
Late(rr) == rr.event # "none" /\ rr.status = "none"

(* register_attempt_result: the last result decides the final error.       *)
Registered(rr, ok) == [rr EXCEPT !.error = ~ok, !.late = @ \/ Late(rr)]

(* The result counts whether or not the Router is closing; when its status *)
(* is made nothing of it is read any more.                                 *)
FinishAttempt(c, a, ok) ==
  LET r == attempt[a].router
      over == router[r].status # "none"
      result == IF over THEN "late" ELSE IF ok THEN "ok" ELSE "fail"
  IN  /\ Idle(c)
      /\ attempt[a].published = "no"
      /\ attempt' = [attempt EXCEPT ![a].published = result]
      /\ router' = [router EXCEPT ![r] = IF over THEN @ ELSE Registered(@, ok)]
      /\ UNCHANGED <<slot, started>>

(* close.  What it calls last is get.                                      *)
CloseAttempt(c, a) ==
  LET closed == [attempt EXCEPT ![a].closed = TRUE]
  IN  /\ Idle(c)
      /\ ~attempt[a].closed
      /\ attempt' = closed
      /\ slot' = [slot EXCEPT ![c] = Live(Cleared(@, c, attempt[a]), router, closed)]
      /\ UNCHANGED <<router, started>>

(* A rate-limit rejection and a cache decision, which may come any time:   *)
(* neither looks whether the Router is closed.                             *)
RateLimited(c, r) ==
  /\ Idle(c)
  /\ router[r].status = "none"
  /\ router' = [router EXCEPT ![r].error = TRUE, ![r].refused = TRUE,
                              ![r].late = @ \/ Late(router[r])]
  /\ UNCHANGED <<attempt, slot, started>>

HandleCache(c, r, hit) ==
  /\ Idle(c)
  /\ router[r].status = "none"
  /\ router' = [router EXCEPT ![r].hit = hit]
  /\ UNCHANGED <<attempt, slot, started>>

-----------------------------------------------------------------------------
(* The end of a request                                                    *)

OpenAttempts(r) == {a \in AttemptsOf(r) : ~attempt[a].closed}

(* __exit__ on an exception: it is the Router's error if there was no other *)
(* and no Attempt.  close() follows, in the same thread.                    *)
RaiseOut(c, r) ==
  /\ Idle(c)
  /\ ~router[r].closed
  /\ ~router[r].raised
  /\ router' = [router EXCEPT ![r].raised = TRUE, ![r].closer = c,
                              ![r].error = @ \/ AttemptsOf(r) = {}]
  /\ UNCHANGED <<attempt, slot, started>>

(* close() up to the snapshot of the open Attempts.  A context that has     *)
(* raised out of the Router closes it next, unless another was faster.     *)
CloseRouter(c, r) ==
  /\ Idle(c) \/ (router[r].raised /\ router[r].closer = c)
  /\ ~router[r].closed
  /\ router' = [router EXCEPT ![r].closed = TRUE, ![r].closer = c, ![r].todo = OpenAttempts(r)]
  /\ UNCHANGED <<attempt, slot, started>>

(* force_close registers a failure of an Attempt without a result.         *)
(* Mutant: it does not.                                                    *)
ForceClosedSilently(rr, a) == rr

ForceClosed(rr, a) == IF attempt[a].published = "no" THEN Registered(rr, FALSE) ELSE rr

(* The Attempt is closed in the context of the Router's closer.            *)
ForceClose(r, a) ==
  LET c == router[r].closer
      closed == [attempt EXCEPT ![a].closed = TRUE,
                                ![a].published = IF @ = "no" THEN "forced" ELSE @]
      forced == [ForceClosed(router[r], a) EXCEPT !.todo = @ \ {a}]
  IN  /\ a \in router[r].todo
      /\ ~attempt[a].closed
      /\ attempt' = closed
      /\ router' = [router EXCEPT ![r] = forced]
      /\ slot' = [slot EXCEPT ![c] = Live(Cleared(@, c, attempt[a]), router, closed)]
      /\ UNCHANGED started

(* An Attempt of the snapshot that was closed since: force_close returns.  *)
SkipClosed(r, a) ==
  /\ a \in router[r].todo
  /\ attempt[a].closed
  /\ router' = [router EXCEPT ![r].todo = @ \ {a}]
  /\ UNCHANGED <<attempt, slot, started>>

(* _record_terminal_event reads the final error once ...                   *)
RecordTerminalEvent(r) ==
  /\ router[r].closed
  /\ router[r].todo = {}
  /\ router[r].event = "none"
  /\ router' = [router EXCEPT ![r].event = IF router[r].error THEN "failed" ELSE "completed"]
  /\ UNCHANGED <<attempt, slot, started>>

(* ... and _apply_final_status once more.                                  *)
FinalStatus(rr) ==
  IF ~rr.hit /\ (rr.limited \/ rr.error) THEN "ERROR" ELSE "OK"

(* Status, report and _cleanup, after which only the closer's own slot is   *)
(* read: the token restores what start found, or clears a foreign context, *)
(* and what shows no other Router is cleared.                              *)
ReportRouter(r) ==
  LET c == router[r].closer
      left == Live(IF c = router[r].home THEN router[r].old ELSE Empty, router, attempt)
  IN  /\ Late(router[r])
      /\ router' = [router EXCEPT ![r].status = FinalStatus(router[r])]
      /\ slot' = [slot EXCEPT ![c] = IF left.router = None THEN Empty ELSE left]
      /\ UNCHANGED <<attempt, started>>

Next ==
  \/ \E c, d \in Contexts, copied \in BOOLEAN : StartContext(c, d, copied)
  \/ \E c \in Contexts : Read(c)
  \/ \E c \in Contexts, limited, hit \in BOOLEAN : HandleRequest(c, limited, hit)
  \/ \E c \in Contexts, r \in Routers, explicit \in Explicit : StartAttempt(c, r, explicit)
  \/ \E c \in Contexts, a \in Attempts, ok \in BOOLEAN : FinishAttempt(c, a, ok)
  \/ \E c \in Contexts, a \in Attempts : CloseAttempt(c, a)
  \/ \E c \in Contexts, r \in Routers :
       \/ RateLimited(c, r)
       \/ \E hit \in BOOLEAN : HandleCache(c, r, hit)
       \/ RaiseOut(c, r)
  \/ \E c \in Contexts, r \in Routers : CloseRouter(c, r)
  \/ \E r \in Routers, a \in Attempts : ForceClose(r, a) \/ SkipClosed(r, a)
  \/ \E r \in Routers : RecordTerminalEvent(r) \/ ReportRouter(r)

Spec == Init /\ [][Next]_vars

-----------------------------------------------------------------------------
(* Properties                                                              *)

(* The value s, read now, shows no Attempt beside the Router of another    *)
(* request.  Attempts that were started under another request's Router are *)
(* excepted.                                                               *)
Fitting(s) ==
  LET a == Live(s, router, attempt).attempt
  IN  (a # None /\ s.router # None /\ attempt[a].found \in {None, attempt[a].router})
        => attempt[a].router = s.router

(* The Attempts of a Router have indices of their own, from 1.             *)
IndicesAreDistinct ==
  /\ \A a \in Attempts : attempt[a].index # 0
  /\ \A a, b \in Attempts :
       attempt[a].router = attempt[b].router /\ attempt[a].index = attempt[b].index => a = b

(* The Attempt a context shows belongs to the Router it shows, whatever    *)
(* was nested, copied or closed elsewhere: both are saved and restored     *)
(* together; and its index, whatever the caller asked for, is its own.     *)
AttemptBelongsToRouter ==
  /\ \A c \in Contexts : Fitting(slot[c])
  /\ IndicesAreDistinct

(* Closing an Attempt, in whatever context and by whomever, does not take   *)
(* away the Router a context shows, unless another request was begun in    *)
(* between where the Attempt was started.                                  *)
RouterSlotSurvives ==
  [][\A a \in Attempts : (~attempt[a].closed /\ attempt'[a].closed) =>
       \A c \in Contexts :
         slot[c].router = attempt[a].old.router \/ c # attempt[a].home
           => Live(slot'[c], router', attempt').router = Shown(c).router]_vars

(* All results of a Router, with one at least, are of the set.             *)
AllResults(r, results) ==
  AttemptsOf(r) # {} /\ \A a \in AttemptsOf(r) : attempt[a].published \in results

(* However results, rate limits and cache decisions race the closing of a  *)
(* Router, it does not end OK when its Attempts all failed or had to be    *)
(* forced, but for a cache hit, nor ERROR when they all succeeded, but for *)
(* a rate limit; and what its terminal event tells is what its status      *)
(* says, unless the error was written between the two, the status comes    *)
(* from a cache hit or a rate-limited route.  A success that follows a     *)
(* forced failure leaves the Router OK: the last result decides.           *)
OutcomeDecidesStatus ==
  \A r \in Routers : router[r].status # "none" =>
    /\ AllResults(r, {"fail", "forced"}) => router[r].hit \/ router[r].status = "ERROR"
    /\ AllResults(r, {"ok"}) /\ ~router[r].limited /\ ~router[r].refused
         => router[r].status = "OK"
    /\ (~router[r].late /\ ~router[r].hit /\ ~router[r].limited)
         => (router[r].status = "ERROR" <=> router[r].event = "failed")
=============================================================================
