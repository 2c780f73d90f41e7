-------------------------- MODULE GatewayRequest_proofs --------------------------
(* Machine-checked theorems of GatewayRequest, for any contexts, indices and    *)
(* numbers of requests and Attempts.                                            *)
EXTENDS GatewayRequest, TLAPS, FiniteSetTheorems, SequenceTheorems, WellFoundedInduction

-----------------------------------------------------------------------------
(* A value of the ContextVar names what exists, and it fits: if it names a *)
(* Router that is not closed and an Attempt that was started under no      *)
(* other, the Attempt is the Router's.                                     *)
Fits(s, R, A) ==
  /\ s \in Slots
  /\ s.router \in 0..Len(R) /\ s.attempt \in 0..Len(A)
  /\ (s.router # 0 /\ s.attempt # 0 /\ A[s.attempt].found \in {0, A[s.attempt].router})
       => R[s.router].closed \/ A[s.attempt].router = s.router

(* So do the values that closing restores.                                 *)
SlotsFit ==
  /\ \A c \in Contexts : Fits(slot[c], router, attempt)
  /\ \A r \in Routers : Fits(router[r].old, router, attempt)
  /\ \A a \in Attempts : Fits(attempt[a].old, router, attempt)

(* The results of a Router's Attempts that were registered                 *)
Fails(r) == \E a \in AttemptsOf(r) : attempt[a].published \in {"fail", "forced"}
Succeeds(r) == \E a \in AttemptsOf(r) : attempt[a].published = "ok"

(* A closing Router has its own Attempts to force.  The final error is there *)
(* if nothing but failures were registered, and not if nothing but         *)
(* successes were; the terminal event was made from it, before late        *)
(* changes, and so was the status, after them.                             *)
Outcome(r) ==
  /\ router[r].todo \subseteq AttemptsOf(r)
  /\ Fails(r) /\ ~Succeeds(r) => router[r].error
  /\ Succeeds(r) /\ ~Fails(r) /\ ~router[r].refused => ~router[r].error
  /\ router[r].event # "none" /\ ~router[r].late
       => (router[r].event = "failed" <=> router[r].error)
  /\ router[r].status # "none" => router[r].status = FinalStatus(router[r])
OutcomeKept == \A r \in Routers : Outcome(r)

IInv == TypeOK /\ SlotsFit /\ OutcomeKept /\ IndicesAreDistinct

-----------------------------------------------------------------------------
(* Sequences as functions: appending an element, changing some.            *)
LEMMA AppendedElement ==
  ASSUME NEW S, NEW s \in Seq(S), NEW e \in S
  PROVE  /\ Append(s, e) \in Seq(S)
         /\ Len(Append(s, e)) = Len(s) + 1
         /\ \A i \in 1..Len(s) : Append(s, e)[i] = s[i]
         /\ Append(s, e)[Len(s) + 1] = e
OBVIOUS

LEMMA ChangedElements ==
  ASSUME NEW S, NEW s \in Seq(S), NEW f \in [1..Len(s) -> S]
  PROVE  f \in Seq(S) /\ Len(f) = Len(s)
OBVIOUS

(* What no step undoes: Routers and Attempts stay, with their owners, what *)
(* they found and the saved values, and what is closed stays closed.       *)
Grows ==
  /\ Len(router) \in Nat /\ Len(router') \in Nat /\ Len(router) <= Len(router')
  /\ Len(attempt) \in Nat /\ Len(attempt') \in Nat /\ Len(attempt) <= Len(attempt')
  /\ \A r \in Routers : /\ router'[r].old = router[r].old
                        /\ router[r].closed => router'[r].closed
  /\ \A a \in Attempts : /\ attempt'[a].router = attempt[a].router
                         /\ attempt'[a].found = attempt[a].found
                         /\ attempt'[a].old = attempt[a].old
                         /\ attempt'[a].index = attempt[a].index

LEMMA FitsGrowing ==
  ASSUME Grows, NEW s, Fits(s, router, attempt)
  PROVE  Fits(s, router', attempt')
BY DEF Grows, Fits, Routers, Attempts, Slots

LEMMA FitsEmpty ==
  ASSUME NEW S, NEW R \in Seq(S), NEW T, NEW A \in Seq(T)
  PROVE  Fits(Empty, R, A)
<1>1. Empty \in Slots /\ Empty.router = 0 /\ Empty.attempt = 0
  BY RequestAssumption DEF Empty, Slots, None
<1>2. 0 \in 0..Len(R) /\ 0 \in 0..Len(A)
  OBVIOUS
<1>. QED BY <1>1, <1>2, Zenon DEF Fits

LEMMA FitsWithoutAttempt ==
  ASSUME NEW s, NEW S, NEW R \in Seq(S), NEW T, NEW A \in Seq(T), Fits(s, R, A)
  PROVE  Fits([s EXCEPT !.attempt = None], R, A)
<1>. DEFINE t == [s EXCEPT !.attempt = None]
<1>1. s \in [router : 0..MaxRouters, attempt : 0..MaxAttempts]
  BY DEF Fits, Slots
<1>2. t \in Slots /\ t.router = s.router /\ t.attempt = 0
  BY <1>1, RequestAssumption DEF Slots, None
<1>. HIDE DEF t
<1>3. 0 \in 0..Len(A) /\ t.router \in 0..Len(R)
  BY <1>2 DEF Fits
<1>4. Fits(t, R, A)
  BY <1>2, <1>3, Zenon DEF Fits
<1>. QED BY <1>4 DEF t

LEMMA FitsLive ==
  ASSUME NEW s, NEW S, NEW R \in Seq(S), NEW T, NEW A \in Seq(T), Fits(s, R, A)
  PROVE  Fits(Live(s, R, A), R, A)
BY FitsEmpty, FitsWithoutAttempt DEF Live

-----------------------------------------------------------------------------
LEMMA Lengths ==
  ASSUME TypeOK
  PROVE  /\ Len(router) \in Nat /\ Routers = DOMAIN router
         /\ \A r \in Routers : router[r] \in RouterRecords
         /\ Len(attempt) \in Nat /\ Attempts = DOMAIN attempt
         /\ \A a \in Attempts : attempt[a] \in AttemptRecords /\ attempt[a].router \in Routers
BY DEF TypeOK, Routers, Attempts

LEMMA InitIInv == Init => IInv
<1>. SUFFICES ASSUME Init PROVE IInv
  OBVIOUS
<1>1. Routers = {} /\ Attempts = {}
  BY DEF Init, Routers, Attempts
<1>2. TypeOK
  BY <1>1, RequestAssumption DEF Init, TypeOK, Empty, Slots, None
<1>3. SlotsFit
  <2>1. router \in Seq(RouterRecords) /\ attempt \in Seq(AttemptRecords)
    BY <1>2 DEF TypeOK
  <2>2. \A c \in Contexts : slot[c] = Empty
    BY DEF Init
  <2>3. Fits(Empty, router, attempt)
    BY <2>1, FitsEmpty
  <2>. QED BY <1>1, <2>2, <2>3 DEF SlotsFit
<1>4. OutcomeKept /\ IndicesAreDistinct
  BY <1>1 DEF OutcomeKept, IndicesAreDistinct
<1>. QED BY <1>2, <1>3, <1>4 DEF IInv

(* Steps that change the ContextVar alone.                                 *)
LEMMA SlotStep ==
  ASSUME IInv, UNCHANGED <<router, attempt>>, started' \subseteq Contexts,
         NEW v, slot' = v, v \in [Contexts -> Slots],
         \A c \in Contexts : Fits(v[c], router, attempt)
  PROVE  IInv'
<1>1. TypeOK'
  BY DEF IInv, TypeOK, Routers, Attempts
<1>2. SlotsFit'
  BY DEF IInv, SlotsFit, Routers, Attempts
<1>3. OutcomeKept'
  BY DEF IInv, OutcomeKept, Outcome, Fails, Succeeds, AttemptsOf, Routers, Attempts
<1>4. IndicesAreDistinct'
  BY DEF IInv, IndicesAreDistinct, Attempts
<1>. QED BY <1>1, <1>2, <1>3, <1>4 DEF IInv

LEMMA StartContextStep ==
  ASSUME IInv, NEW c \in Contexts, NEW d \in Contexts, NEW copied \in BOOLEAN,
         StartContext(c, d, copied)
  PROVE  IInv'
<1>. DEFINE given == IF copied THEN slot[c] ELSE Empty
            v == [slot EXCEPT ![d] = given]
<1>1. Fits(given, router, attempt) /\ given \in Slots
  BY FitsEmpty DEF IInv, SlotsFit, TypeOK, Fits
<1>. HIDE DEF given
<1>2. v \in [Contexts -> Slots] /\ \A e \in Contexts : Fits(v[e], router, attempt)
  BY <1>1 DEF IInv, SlotsFit, TypeOK
<1>3. slot' = v /\ UNCHANGED <<router, attempt>> /\ started' \subseteq Contexts
  BY DEF StartContext, IInv, TypeOK, given
<1>. QED BY <1>2, <1>3, SlotStep

LEMMA ReadStep ==
  ASSUME IInv, NEW c \in Contexts, Read(c)
  PROVE  IInv'
<1>. DEFINE v == [slot EXCEPT ![c] = Shown(c)]
<1>1. Fits(Shown(c), router, attempt) /\ Shown(c) \in Slots
  <2>1. router \in Seq(RouterRecords) /\ attempt \in Seq(AttemptRecords)
    BY DEF IInv, TypeOK
  <2>2. Fits(slot[c], router, attempt)
    BY DEF IInv, SlotsFit
  <2>3. Fits(Shown(c), router, attempt)
    BY <2>1, <2>2, FitsLive DEF Shown
  <2>. QED BY <2>3 DEF Fits
<1>2. v \in [Contexts -> Slots] /\ \A e \in Contexts : Fits(v[e], router, attempt)
  BY <1>1 DEF IInv, SlotsFit, TypeOK
<1>3. slot' = v /\ UNCHANGED <<router, attempt>> /\ started' \subseteq Contexts
  BY DEF Read, IInv, TypeOK
<1>. QED BY <1>2, <1>3, SlotStep

(* Steps that keep the values of the ContextVar and what was saved.        *)
LEMMA SlotsKept ==
  ASSUME SlotsFit, Grows, slot' = slot, Len(router') = Len(router), Len(attempt') = Len(attempt)
  PROVE  SlotsFit'
<1>1. Routers' = Routers /\ Attempts' = Attempts
  BY DEF Routers, Attempts
<1>2. \A c \in Contexts : Fits(slot'[c], router', attempt')
  <2>. SUFFICES ASSUME NEW c \in Contexts PROVE Fits(slot[c], router', attempt')
    OBVIOUS
  <2>. QED BY FitsGrowing DEF SlotsFit
<1>3. \A r \in Routers' : Fits(router'[r].old, router', attempt')
  <2>. SUFFICES ASSUME NEW r \in Routers PROVE Fits(router'[r].old, router', attempt')
    BY <1>1
  <2>1. router'[r].old = router[r].old
    BY DEF Grows
  <2>. QED BY <2>1, FitsGrowing DEF SlotsFit
<1>4. \A a \in Attempts' : Fits(attempt'[a].old, router', attempt')
  <2>. SUFFICES ASSUME NEW a \in Attempts PROVE Fits(attempt'[a].old, router', attempt')
    BY <1>1
  <2>1. attempt'[a].old = attempt[a].old
    BY DEF Grows
  <2>. QED BY <2>1, FitsGrowing DEF SlotsFit
<1>. QED BY <1>2, <1>3, <1>4 DEF SlotsFit

LEMMA IndicesKept ==
  ASSUME IndicesAreDistinct, Grows, Len(attempt') = Len(attempt)
  PROVE  IndicesAreDistinct'
BY DEF IndicesAreDistinct, Grows, Attempts

(* Steps that change the value in one context.                             *)
LEMMA SlotChanged ==
  ASSUME TypeOK, SlotsFit, Grows, Len(router') = Len(router), Len(attempt') = Len(attempt),
         NEW c \in Contexts, NEW v, Fits(v, router', attempt'), slot' = [slot EXCEPT ![c] = v]
  PROVE  SlotsFit' /\ slot' \in [Contexts -> Slots]
<1>1. Routers' = Routers /\ Attempts' = Attempts
  BY DEF Routers, Attempts
<1>2. \A d \in Contexts : Fits(slot'[d], router', attempt')
  <2>. SUFFICES ASSUME NEW d \in Contexts PROVE Fits(slot'[d], router', attempt')
    OBVIOUS
  <2>1. d # c => slot'[d] = slot[d] /\ Fits(slot[d], router', attempt')
    BY FitsGrowing DEF SlotsFit, TypeOK
  <2>2. d = c => slot'[d] = v
    BY DEF TypeOK
  <2>. QED BY <2>1, <2>2
<1>3. \A r \in Routers' : Fits(router'[r].old, router', attempt')
  <2>. SUFFICES ASSUME NEW r \in Routers PROVE Fits(router'[r].old, router', attempt')
    BY <1>1
  <2>1. router'[r].old = router[r].old
    BY DEF Grows
  <2>. QED BY <2>1, FitsGrowing DEF SlotsFit
<1>4. \A a \in Attempts' : Fits(attempt'[a].old, router', attempt')
  <2>. SUFFICES ASSUME NEW a \in Attempts PROVE Fits(attempt'[a].old, router', attempt')
    BY <1>1
  <2>1. attempt'[a].old = attempt[a].old
    BY DEF Grows
  <2>. QED BY <2>1, FitsGrowing DEF SlotsFit
<1>5. slot' \in [Contexts -> Slots]
  <2>1. v \in Slots
    BY DEF Fits
  <2>. QED BY <2>1 DEF TypeOK
<1>. QED BY <1>2, <1>3, <1>4, <1>5 DEF SlotsFit

(* What the fields of a Router's record say of its closing.                *)
Staged(rr) ==
  /\ rr.event # "none" => rr.closed /\ rr.todo = {}
  /\ rr.status # "none" => rr.event # "none"
  /\ rr.todo \subseteq Attempts

(* The result of an Attempt decides for its own Router only.               *)
LEMMA OutcomeElsewhere ==
  ASSUME NEW r, NEW q, q # r, Outcome(q), router'[q] = router[q], Attempts' = Attempts,
         \A a \in Attempts : /\ attempt'[a].router = attempt[a].router
                             /\ attempt[a].router # r => attempt'[a].published = attempt[a].published
  PROVE  Outcome(q)'
<1>1. AttemptsOf(q)' = AttemptsOf(q)
  BY DEF AttemptsOf
<1>2. \A a \in AttemptsOf(q) : attempt'[a].published = attempt[a].published
  BY DEF AttemptsOf
<1>3. (Fails(q)' <=> Fails(q)) /\ (Succeeds(q)' <=> Succeeds(q))
  BY <1>1, <1>2 DEF Fails, Succeeds
<1>. HIDE DEF Fails, Succeeds
<1>. QED BY <1>1, <1>3 DEF Outcome

(* The Attempts a step leaves to a Router have the results they had.       *)
Unread == \A a \in Attempts : /\ attempt'[a].router = attempt[a].router
                              /\ attempt'[a].published = attempt[a].published
LEMMA ResultsKept ==
  ASSUME NEW r, Attempts' = Attempts, Unread
  PROVE  /\ AttemptsOf(r)' = AttemptsOf(r)
         /\ Fails(r)' <=> Fails(r)
         /\ Succeeds(r)' <=> Succeeds(r)
<1>1. AttemptsOf(r)' = AttemptsOf(r)
  BY DEF AttemptsOf, Unread
<1>2. \A a \in AttemptsOf(r) : attempt'[a].published = attempt[a].published
  BY DEF AttemptsOf, Unread
<1>. QED BY <1>1, <1>2 DEF Fails, Succeeds

(* A step on one Router, some of its Attempts and one slot.                *)
RouterChange(r, rr) ==
  /\ rr \in RouterRecords /\ Staged(rr)
  /\ rr.old = router[r].old /\ (router[r].closed => rr.closed)
  /\ router' = [router EXCEPT ![r] = rr]
AttemptChange(r) ==
  /\ attempt' \in Seq(AttemptRecords) /\ Len(attempt') = Len(attempt)
  /\ \A a \in Attempts : /\ attempt'[a].router = attempt[a].router
                         /\ attempt'[a].found = attempt[a].found
                         /\ attempt'[a].old = attempt[a].old
                         /\ attempt'[a].index = attempt[a].index
                         /\ attempt[a].router # r => attempt'[a].published = attempt[a].published

LEMMA RouterChanged ==
  ASSUME IInv, NEW r \in Routers, NEW rr, RouterChange(r, rr)
  PROVE  /\ router' \in Seq(RouterRecords) /\ Len(router') = Len(router) /\ Routers' = Routers
         /\ \A q \in Routers : router'[q] = IF q = r THEN rr ELSE router[q]
<1>1. router \in Seq(RouterRecords) /\ r \in 1..Len(router) /\ rr \in RouterRecords
  BY DEF IInv, TypeOK, Routers, RouterChange
<1>2. router' = [router EXCEPT ![r] = rr]
  BY DEF RouterChange
<1>. QED BY <1>1, <1>2, ExceptSeq DEF Routers

LEMMA ChangesGrow ==
  ASSUME IInv, NEW r \in Routers, NEW rr, RouterChange(r, rr), AttemptChange(r)
  PROVE  Grows
<1>1. /\ Len(router') = Len(router)
      /\ \A q \in Routers : router'[q] = IF q = r THEN rr ELSE router[q]
  BY RouterChanged
<1>2. Len(router) \in Nat /\ Len(attempt) \in Nat
  BY Lengths DEF IInv
<1>3. rr.old = router[r].old /\ (router[r].closed => rr.closed)
  BY DEF RouterChange
<1>4. \A q \in Routers : router'[q].old = router[q].old /\ (router[q].closed => router'[q].closed)
  BY <1>1, <1>3
<1>. QED BY <1>1, <1>2, <1>4 DEF Grows, AttemptChange

LEMMA ChangesKeep ==
  ASSUME IInv, NEW r \in Routers, NEW rr, RouterChange(r, rr), AttemptChange(r), Outcome(r)',
         started' = started, slot' \in [Contexts -> Slots], SlotsFit'
  PROVE  IInv'
<1>1. /\ router' \in Seq(RouterRecords) /\ Len(router') = Len(router) /\ Routers' = Routers
      /\ \A q \in Routers : router'[q] = IF q = r THEN rr ELSE router[q]
  BY RouterChanged
<1>2. Attempts' = Attempts
  BY DEF AttemptChange, Attempts
<1>3. TypeOK'
  <2>1. \A q \in Routers' : Staged(router'[q])
    <3>. SUFFICES ASSUME NEW q \in Routers PROVE Staged(router'[q])
      BY <1>1
    <3>1. CASE q = r
      BY <1>1, <3>1 DEF RouterChange
    <3>2. CASE q # r
      BY <1>1, <3>2 DEF IInv, TypeOK, Staged
    <3>. QED BY <3>1, <3>2
  <2>2. \A a \in Attempts' : attempt'[a].router \in Routers'
    BY <1>1, <1>2 DEF AttemptChange, IInv, TypeOK
  <2>. QED BY <1>1, <1>2, <2>1, <2>2 DEF IInv, TypeOK, Staged, AttemptChange
<1>4. OutcomeKept'
  <2>. SUFFICES ASSUME NEW q \in Routers PROVE Outcome(q)'
    BY <1>1 DEF OutcomeKept
  <2>1. CASE q = r
    BY <2>1
  <2>2. CASE q # r
    <3>1. Outcome(q) /\ router'[q] = router[q]
      BY <1>1, <2>2 DEF IInv, OutcomeKept
    <3>2. \A a \in Attempts :
            /\ attempt'[a].router = attempt[a].router
            /\ attempt[a].router # r => attempt'[a].published = attempt[a].published
      BY DEF AttemptChange
    <3>. QED BY <1>2, <2>2, <3>1, <3>2, OutcomeElsewhere
  <2>. QED BY <2>1, <2>2
<1>5. IndicesAreDistinct'
  BY ChangesGrow, IndicesKept DEF IInv, AttemptChange
<1>. QED BY <1>3, <1>4, <1>5 DEF IInv

(* The same for steps that leave the ContextVar alone.                     *)
LEMMA ChangesKeepSlots ==
  ASSUME IInv, NEW r \in Routers, NEW rr, RouterChange(r, rr), AttemptChange(r), Outcome(r)',
         started' = started, slot' = slot
  PROVE  IInv'
<1>1. SlotsFit'
  BY ChangesGrow, RouterChanged, SlotsKept DEF IInv, AttemptChange
<1>2. slot' \in [Contexts -> Slots]
  BY DEF IInv, TypeOK
<1>. QED BY <1>1, <1>2, ChangesKeep

LEMMA SameAttempts ==
  ASSUME IInv, NEW r, attempt' = attempt
  PROVE  AttemptChange(r) /\ Attempts' = Attempts /\ Unread
BY DEF IInv, TypeOK, AttemptChange, Attempts, Unread

LEMMA KnownRouter ==
  ASSUME IInv, NEW r \in Routers
  PROVE  /\ router[r] \in RouterRecords /\ Staged(router[r]) /\ Outcome(r)
         /\ router[r].status = "none" \/ router[r].status \in {"OK", "ERROR"}
BY Lengths DEF IInv, TypeOK, OutcomeKept, Staged, RouterRecords

LEMMA RegisteredType ==
  ASSUME NEW rr \in RouterRecords, NEW ok \in BOOLEAN
  PROVE  LET q == Registered(rr, ok)
         IN  /\ q \in RouterRecords /\ q.old = rr.old /\ q.closed = rr.closed /\ q.status = rr.status
             /\ q.error = ~ok /\ q.late = (rr.late \/ Late(rr)) /\ q.refused = rr.refused
             /\ q.hit = rr.hit /\ q.limited = rr.limited /\ q.event = rr.event /\ q.todo = rr.todo
             /\ q.closer = rr.closer /\ q.home = rr.home
<1>1. Late(rr) \in BOOLEAN
  BY DEF Late
<1>. DEFINE l == rr.late \/ Late(rr)
<1>2. l \in BOOLEAN
  OBVIOUS
<1>3. Registered(rr, ok) = [rr EXCEPT !.error = ~ok, !.late = l]
  BY DEF Registered
<1>. HIDE DEF l
<1>4. rr.late \/ Late(rr) <=> l
  BY DEF l
<1>. QED BY <1>2, <1>3, <1>4 DEF RouterRecords

LEMMA HandleRequestStep ==
  ASSUME IInv, NEW c \in Contexts, NEW limited \in BOOLEAN, NEW hit \in BOOLEAN,
         HandleRequest(c, limited, hit)
  PROVE  IInv'
<1>. DEFINE n == Len(router) + 1
            rr == [home |-> c, old |-> slot[c], limited |-> limited, hit |-> hit,
                   error |-> FALSE, closer |-> c, raised |-> FALSE,
                   closed |-> FALSE, todo |-> {}, event |-> "none",
                   status |-> "none", refused |-> FALSE, late |-> FALSE]
            entered == Entered(slot[c], n)
<1>1. /\ router' = Append(router, rr) /\ attempt' = attempt /\ started' = started
      /\ slot' = [slot EXCEPT ![c] = entered] /\ Len(router) < MaxRouters
  BY DEF HandleRequest
<1>2. /\ rr \in RouterRecords /\ rr.old = slot[c] /\ rr.todo = {}
      /\ rr.event = "none" /\ rr.status = "none"
  BY DEF RouterRecords, IInv, TypeOK
<1>3. entered \in Slots /\ entered.router = n /\ entered.attempt = 0
  BY <1>1, RequestAssumption, Lengths DEF Entered, Slots, None, IInv
<1>. HIDE DEF rr, entered
<1>4. /\ router' \in Seq(RouterRecords) /\ Len(router') = n
      /\ \A r \in Routers : router'[r] = router[r]
      /\ router'[n] = rr
  BY <1>1, <1>2, AppendedElement DEF IInv, TypeOK, Routers
<1>5. Routers' = Routers \cup {n} /\ n \in Nat /\ n <= MaxRouters /\ Attempts' = Attempts
  BY <1>1, <1>4, Lengths, RequestAssumption DEF Routers, Attempts, IInv
<1>6. TypeOK'
  <2>1. \A q \in Routers' : Staged(router'[q])
    <3>. SUFFICES ASSUME NEW q \in Routers' PROVE Staged(router'[q])
      OBVIOUS
    <3>1. CASE q = n
      BY <1>2, <1>4, <3>1 DEF Staged
    <3>2. CASE q # n
      BY <1>4, <1>5, <3>2 DEF Staged, IInv, TypeOK
    <3>. QED BY <3>1, <3>2
  <2>2. slot' \in [Contexts -> Slots]
    BY <1>1, <1>3 DEF IInv, TypeOK
  <2>3. \A a \in Attempts' : attempt'[a].router \in Routers'
    BY <1>1, <1>5 DEF IInv, TypeOK
  <2>. QED BY <1>1, <1>4, <1>5, <2>1, <2>2, <2>3 DEF IInv, TypeOK, Staged
<1>7. Grows
  BY <1>1, <1>4, Lengths DEF Grows, IInv
<1>8. SlotsFit'
  <2>1. Fits(entered, router', attempt')
    <3>1. 0 \in 0..Len(attempt') /\ n \in 0..Len(router')
      BY <1>1, <1>4, <1>5, Lengths DEF IInv
    <3>. QED BY <1>3, <3>1, Zenon DEF Fits
  <2>2. \A e \in Contexts : Fits(slot'[e], router', attempt')
    <3>. SUFFICES ASSUME NEW e \in Contexts PROVE Fits(slot'[e], router', attempt')
      OBVIOUS
    <3>1. CASE e = c
      BY <1>1, <2>1, <3>1 DEF IInv, TypeOK
    <3>2. CASE e # c
      <4>1. slot'[e] = slot[e]
        BY <1>1, <3>2 DEF IInv, TypeOK
      <4>. QED BY <1>7, <4>1, FitsGrowing DEF IInv, SlotsFit
    <3>. QED BY <3>1, <3>2
  <2>3. \A r \in Routers' : Fits(router'[r].old, router', attempt')
    <3>. SUFFICES ASSUME NEW r \in Routers' PROVE Fits(router'[r].old, router', attempt')
      OBVIOUS
    <3>1. \/ r \in Routers /\ router'[r].old = router[r].old
          \/ router'[r].old = slot[c]
      BY <1>2, <1>4, <1>5
    <3>. QED BY <1>7, <3>1, FitsGrowing DEF IInv, SlotsFit
  <2>4. \A a \in Attempts' : Fits(attempt'[a].old, router', attempt')
    <3>. SUFFICES ASSUME NEW a \in Attempts PROVE Fits(attempt[a].old, router', attempt')
      BY <1>1, <1>5
    <3>. QED BY <1>7, FitsGrowing DEF IInv, SlotsFit
  <2>. QED BY <2>2, <2>3, <2>4 DEF SlotsFit
<1>9. OutcomeKept'
  <2>. SUFFICES ASSUME NEW q \in Routers' PROVE Outcome(q)'
    BY DEF OutcomeKept
  <2>0. Unread
    BY <1>1 DEF Unread
  <2>1. CASE q = n
    <3>1. q \notin Routers
      BY <2>1, Lengths DEF Routers, IInv
    <3>2. AttemptsOf(q)' = {}
      BY <1>1, <1>5, <3>1, Lengths DEF AttemptsOf, IInv
    <3>3. ~Fails(q)' /\ ~Succeeds(q)'
      BY <3>2 DEF Fails, Succeeds
    <3>4. router'[q].event = "none" /\ router'[q].status = "none" /\ router'[q].todo = {}
      BY <1>2, <1>4, <2>1
    <3>. QED BY <3>3, <3>4 DEF Outcome
  <2>2. CASE q # n
    <3>1. q \in Routers /\ router'[q] = router[q] /\ Outcome(q)
      BY <1>4, <1>5, <2>2 DEF IInv, OutcomeKept
    <3>. QED BY <1>5, <2>0, <3>1, ResultsKept DEF Outcome
  <2>. QED BY <2>1, <2>2
<1>10. IndicesAreDistinct'
  BY <1>1, <1>5 DEF IInv, IndicesAreDistinct
<1>. QED BY <1>6, <1>8, <1>9, <1>10 DEF IInv

(* There are more indices than Attempts, so a smallest unused one exists.  *)
LEMMA FreshIndex ==
  ASSUME TypeOK, Len(attempt) < MaxAttempts, NEW r, NEW explicit \in Explicit
  PROVE  /\ AllocateIndex(r, explicit) \in Nat \ {0}
         /\ AllocateIndex(r, explicit) \notin UsedIndices(r)
<1>. DEFINE T == 1..(MaxAttempts + 1)
            free == T \ UsedIndices(r)
            Smallest(i) == i \notin UsedIndices(r) /\ \A j \in 1..(i - 1) : j \in UsedIndices(r)
<1>1. MaxAttempts \in Nat /\ explicit \in Nat /\ Len(attempt) \in Nat
  BY RequestAssumption, Lengths
<1>2. free # {}
  <2>. SUFFICES ASSUME T \subseteq UsedIndices(r) PROVE FALSE
    OBVIOUS
  <2>. DEFINE g == [i \in T |-> CHOOSE a \in Attempts : attempt[a].index = i]
  <2>1. \A i \in T : g[i] \in Attempts /\ attempt[g[i]].index = i
    BY DEF UsedIndices, AttemptsOf
  <2>2. g \in Injection(T, Attempts)
    <3>1. g \in [T -> Attempts]
      BY <2>1
    <3>. HIDE DEF g, T
    <3>. QED BY <2>1, <3>1 DEF Injection, IsInjective
  <2>3. IsFiniteSet(Attempts) /\ Cardinality(Attempts) <= Len(attempt)
    <3>1. PICK n \in Nat : n = Len(attempt)
      BY <1>1
    <3>2. IsFiniteSet(1..n) /\ Cardinality(1..n) = (IF 1 > n THEN 0 ELSE n - 1 + 1)
      BY FS_Interval
    <3>3. Cardinality(1..n) <= n
      BY <3>2
    <3>. QED BY <3>1, <3>2, <3>3, Zenon DEF Attempts
  <2>4. IsFiniteSet(T) /\ Cardinality(T) = MaxAttempts + 1
    BY <1>1, FS_Interval
  <2>5. Cardinality(T) <= Cardinality(Attempts)
    BY <2>2, <2>3, FS_Injection
  <2>6. Cardinality(Attempts) \in Nat
    BY <2>3, FS_CardinalityType
  <2>. QED BY <1>1, <2>3, <2>4, <2>5, <2>6
<1>. DEFINE R == {ss \in Nat \X Nat : ss[1] < ss[2]}
<1>3. \E i \in free : \A j \in free : ~ (<<j, i>> \in R)
  <2>1. IsWellFoundedOn(R, Nat)
    BY NatLessThanWellFounded, Zenon DEF OpToRel
  <2>2. free \subseteq Nat
    BY <1>1
  <2>. HIDE DEF R, free
  <2>. QED BY <1>2, <2>1, <2>2, WFMin
<1>4. \E i \in T : Smallest(i)
  <2>1. PICK i \in free : \A j \in free : ~ (j < i)
    <3>1. ASSUME NEW i \in Nat, NEW j \in Nat, j < i
          PROVE  <<j, i>> \in R
      BY <3>1
    <3>2. free \subseteq Nat
      BY <1>1
    <3>. HIDE DEF R, free
    <3>. QED BY <1>3, <3>1, <3>2, Zenon
  <2>2. \A j \in 1..(i - 1) : j \in UsedIndices(r)
    BY <1>1, <2>1
  <2>. QED BY <2>1, <2>2
<1>5. CASE explicit # None /\ explicit \notin UsedIndices(r)
  BY <1>1, <1>5 DEF AllocateIndex, None
<1>6. CASE ~(explicit # None /\ explicit \notin UsedIndices(r))
  <2>1. AllocateIndex(r, explicit) = CHOOSE i \in T : Smallest(i)
    BY <1>6 DEF AllocateIndex
  <2>2. (CHOOSE i \in T : Smallest(i)) \in T /\ Smallest(CHOOSE i \in T : Smallest(i))
    BY <1>4
  <2>. QED BY <1>1, <2>1, <2>2
<1>. QED BY <1>5, <1>6

LEMMA StartAttemptStep ==
  ASSUME IInv, NEW c \in Contexts, NEW r \in Routers, NEW explicit \in Explicit,
         StartAttempt(c, r, explicit)
  PROVE  IInv'
<1>. DEFINE n == Len(attempt) + 1
            e == [router |-> r, home |-> c, old |-> slot[c], found |-> Shown(c).router,
                  index |-> AllocateIndex(r, explicit), published |-> "no", closed |-> FALSE]
            v == [slot[c] EXCEPT !.attempt = n]
<1>1. /\ attempt' = Append(attempt, e) /\ router' = router /\ started' = started
      /\ slot' = [slot EXCEPT ![c].attempt = n] /\ Len(attempt) < MaxAttempts
  BY DEF StartAttempt
<1>2. /\ AllocateIndex(r, explicit) \in Nat \ {0}
      /\ AllocateIndex(r, explicit) \notin UsedIndices(r)
  BY <1>1, FreshIndex DEF IInv
<1>3. slot[c] \in Slots /\ Fits(slot[c], router, attempt)
  BY DEF IInv, TypeOK, SlotsFit
<1>4. Shown(c) \in Slots
  <2>1. router \in Seq(RouterRecords) /\ attempt \in Seq(AttemptRecords)
    BY DEF IInv, TypeOK
  <2>2. Fits(Shown(c), router, attempt)
    BY <1>3, <2>1, FitsLive DEF Shown
  <2>. QED BY <2>2 DEF Fits
<1>5. /\ e \in AttemptRecords /\ e.router = r /\ e.old = slot[c] /\ e.found = Shown(c).router
      /\ e.index # 0 /\ e.index \notin UsedIndices(r) /\ e.published = "no"
  <2>1. r \in 1..MaxRouters
    BY RequestAssumption, Lengths DEF IInv, TypeOK, Routers
  <2>2. Shown(c).router \in 0..MaxRouters
    BY <1>4 DEF Slots
  <2>. QED BY <1>2, <1>3, <2>1, <2>2 DEF AttemptRecords
<1>6. /\ v \in Slots /\ v.router = slot[c].router /\ v.attempt = n
      /\ slot' = [slot EXCEPT ![c] = v]
  BY <1>1, <1>3, RequestAssumption, Lengths DEF Slots, IInv
<1>. HIDE DEF e, v
<1>7. /\ attempt' \in Seq(AttemptRecords) /\ Len(attempt') = n
      /\ \A a \in Attempts : attempt'[a] = attempt[a]
      /\ attempt'[n] = e
  BY <1>1, <1>5, AppendedElement DEF IInv, TypeOK, Attempts
<1>8. Attempts' = Attempts \cup {n} /\ n \in Nat \ {0} /\ n <= MaxAttempts /\ Routers' = Routers
  BY <1>1, <1>7, Lengths, RequestAssumption DEF Routers, Attempts, IInv
<1>9. TypeOK'
  <2>1. \A a \in Attempts' : attempt'[a].router \in Routers'
    BY <1>5, <1>7, <1>8 DEF IInv, TypeOK
  <2>2. slot' \in [Contexts -> Slots]
    BY <1>6 DEF IInv, TypeOK
  <2>. QED BY <1>1, <1>7, <1>8, <2>1, <2>2 DEF IInv, TypeOK
<1>10. Grows
  BY <1>1, <1>7, Lengths DEF Grows, IInv
<1>11. SlotsFit'
  <2>1. Fits(v, router', attempt')
    <3>1. Fits(slot[c], router', attempt')
      BY <1>3, <1>10, FitsGrowing
    <3>2. v.router \in 0..Len(router') /\ v.attempt \in 0..Len(attempt')
      BY <1>6, <1>7, <1>8, <3>1 DEF Fits
    <3>3. router[slot[c].router].closed \/ Shown(c).router = slot[c].router
      BY <1>3 DEF Shown, Live, Slots, None
    <3>. QED BY <1>1, <1>5, <1>6, <1>7, <3>2, <3>3 DEF Fits
  <2>2. \A d \in Contexts : Fits(slot'[d], router', attempt')
    <3>. SUFFICES ASSUME NEW d \in Contexts PROVE Fits(slot'[d], router', attempt')
      OBVIOUS
    <3>1. CASE d = c
      BY <1>6, <2>1, <3>1 DEF IInv, TypeOK
    <3>2. CASE d # c
      <4>1. slot'[d] = slot[d]
        BY <1>6, <3>2 DEF IInv, TypeOK
      <4>. QED BY <1>10, <4>1, FitsGrowing DEF IInv, SlotsFit
    <3>. QED BY <3>1, <3>2
  <2>3. \A q \in Routers' : Fits(router'[q].old, router', attempt')
    <3>. SUFFICES ASSUME NEW q \in Routers PROVE Fits(router[q].old, router', attempt')
      BY <1>1, <1>8
    <3>. QED BY <1>10, FitsGrowing DEF IInv, SlotsFit
  <2>4. \A a \in Attempts' : Fits(attempt'[a].old, router', attempt')
    <3>. SUFFICES ASSUME NEW a \in Attempts' PROVE Fits(attempt'[a].old, router', attempt')
      OBVIOUS
    <3>1. \/ a \in Attempts /\ attempt'[a].old = attempt[a].old
          \/ attempt'[a].old = slot[c]
      BY <1>5, <1>7, <1>8
    <3>. QED BY <1>3, <1>10, <3>1, FitsGrowing DEF IInv, SlotsFit
  <2>. QED BY <2>2, <2>3, <2>4 DEF SlotsFit
<1>12. OutcomeKept'
  <2>. SUFFICES ASSUME NEW q \in Routers PROVE Outcome(q)'
    BY <1>8 DEF OutcomeKept
  <2>1. \A a \in AttemptsOf(q)' : a \in AttemptsOf(q) \/ attempt'[a].published = "no"
    BY <1>5, <1>7, <1>8 DEF AttemptsOf
  <2>2. AttemptsOf(q) \subseteq AttemptsOf(q)'
    BY <1>7, <1>8 DEF AttemptsOf
  <2>3. \A a \in AttemptsOf(q) : attempt'[a].published = attempt[a].published
    BY <1>7 DEF AttemptsOf
  <2>4. (Fails(q)' <=> Fails(q)) /\ (Succeeds(q)' <=> Succeeds(q))
    BY <2>1, <2>2, <2>3 DEF Fails, Succeeds
  <2>. HIDE DEF n
  <2>. QED BY <1>1, <2>2, <2>4 DEF IInv, OutcomeKept, Outcome
<1>13. IndicesAreDistinct'
  <2>1. \A a \in Attempts : attempt[a].router = r => attempt[a].index # e.index
    BY <1>5 DEF UsedIndices, AttemptsOf
  <2>. QED BY <1>5, <1>7, <1>8, <2>1 DEF IInv, IndicesAreDistinct
<1>. QED BY <1>9, <1>11, <1>12, <1>13 DEF IInv
(* Steps that publish no result keep the outcome of a Router they do not    *)
(* decide.                                                                 *)
LEMMA SameOutcome ==
  ASSUME IInv, NEW r \in Routers, NEW rr, RouterChange(r, rr), Attempts' = Attempts, Unread,
         rr.error = router[r].error, rr.refused = router[r].refused, rr.late = router[r].late,
         rr.event = router[r].event, rr.todo \subseteq router[r].todo,
         rr.status # "none" => rr.status = FinalStatus(rr)
  PROVE  Outcome(r)'
<1>1. router'[r] = rr /\ Outcome(r)
  BY RouterChanged, KnownRouter
<1>2. AttemptsOf(r)' = AttemptsOf(r) /\ (Fails(r)' <=> Fails(r)) /\ (Succeeds(r)' <=> Succeeds(r))
  BY ResultsKept
<1>. QED BY <1>1, <1>2 DEF Outcome

LEMMA UnchangedRouter ==
  ASSUME IInv, NEW r \in Routers, router' = router
  PROVE  RouterChange(r, router[r])
<1>1. router[r] \in RouterRecords /\ Staged(router[r])
  BY KnownRouter
<1>2. router = [router EXCEPT ![r] = router[r]]
  BY DEF IInv, TypeOK
<1>. QED BY <1>1, <1>2 DEF RouterChange

(* Closing an Attempt in context c, with what it does to the slot there    *)
AttemptClosed(c, a) ==
  /\ attempt' = [attempt EXCEPT ![a].closed = TRUE, ![a].published = attempt'[a].published]
  /\ attempt'[a].published \in {"no", "ok", "fail", "forced", "late"}
  /\ slot' = [slot EXCEPT ![c] = Live(Cleared(@, c, attempt[a]), router, attempt')]

LEMMA ClosingAttempt ==
  ASSUME IInv, NEW c \in Contexts, NEW a \in Attempts, AttemptClosed(c, a), NEW rr,
         RouterChange(attempt[a].router, rr), rr.closed = router[attempt[a].router].closed
  PROVE  /\ AttemptChange(attempt[a].router) /\ Attempts' = Attempts
         /\ \A b \in Attempts : b # a => attempt'[b] = attempt[b]
         /\ attempt'[a].router = attempt[a].router
         /\ SlotsFit' /\ slot' \in [Contexts -> Slots]
<1>. DEFINE r == attempt[a].router
            p == attempt'[a].published
            e == [attempt[a] EXCEPT !.closed = TRUE, !.published = p]
            left == Cleared(slot[c], c, attempt[a])
            v == Live(left, router, attempt')
<1>1. /\ attempt' = [attempt EXCEPT ![a] = e]
      /\ slot' = [slot EXCEPT ![c] = v]
      /\ p \in {"no", "ok", "fail", "forced", "late"}
  BY DEF AttemptClosed
<1>2. attempt[a] \in AttemptRecords /\ attempt[a].router \in Routers
  BY Lengths DEF IInv
<1>. HIDE DEF p
<1>3. /\ e \in AttemptRecords /\ e.router = attempt[a].router /\ e.found = attempt[a].found
      /\ e.old = attempt[a].old /\ e.index = attempt[a].index
  BY <1>1, <1>2 DEF AttemptRecords
<1>. HIDE DEF e
<1>4. /\ attempt' \in Seq(AttemptRecords) /\ Len(attempt') = Len(attempt)
      /\ \A b \in Attempts : attempt'[b] = IF b = a THEN e ELSE attempt[b]
  BY <1>1, <1>3, ExceptSeq DEF IInv, TypeOK, Attempts
<1>5. AttemptChange(r) /\ Attempts' = Attempts
  BY <1>3, <1>4 DEF AttemptChange, Attempts
<1>6. /\ router' \in Seq(RouterRecords) /\ Len(router') = Len(router)
      /\ \A q \in Routers : router'[q].closed = router[q].closed
  BY <1>2, RouterChanged
<1>7. Grows
  BY <1>2, <1>5, ChangesGrow
<1>8. Fits(v, router', attempt')
  <2>1. router \in Seq(RouterRecords) /\ attempt \in Seq(AttemptRecords)
    BY DEF IInv, TypeOK
  <2>2. Fits(slot[c], router, attempt) /\ Fits(attempt[a].old, router, attempt)
    BY DEF IInv, SlotsFit
  <2>3. Fits(left, router, attempt)
    BY <2>1, <2>2, FitsWithoutAttempt DEF Cleared
  <2>. HIDE DEF left
  <2>4. Fits(left, router', attempt')
    BY <1>7, <2>3, FitsGrowing
  <2>5. Live(left, router, attempt') = Live(left, router', attempt')
    BY <1>6, <2>3 DEF Live, Fits, Slots, Routers, None
  <2>. QED BY <1>4, <1>6, <2>4, <2>5, FitsLive
<1>. HIDE DEF v
<1>9. SlotsFit' /\ slot' \in [Contexts -> Slots]
  BY <1>1, <1>4, <1>6, <1>7, <1>8, SlotChanged DEF IInv
<1>. QED BY <1>3, <1>4, <1>5, <1>9

LEMMA CloseAttemptStep ==
  ASSUME IInv, NEW c \in Contexts, NEW a \in Attempts, CloseAttempt(c, a)
  PROVE  IInv'
<1>. DEFINE r == attempt[a].router
<1>1. r \in Routers /\ attempt[a] \in AttemptRecords /\ a \in DOMAIN attempt
  BY Lengths DEF IInv
<1>2. /\ router' = router /\ started' = started /\ attempt' = [attempt EXCEPT ![a].closed = TRUE]
      /\ slot' = [slot EXCEPT ![c] = Live(Cleared(@, c, attempt[a]), router, attempt')]
  BY DEF CloseAttempt
<1>3. attempt'[a].published = attempt[a].published
  BY <1>1, <1>2 DEF AttemptRecords
<1>4. AttemptClosed(c, a)
  <2>1. attempt[a].published \in {"no", "ok", "fail", "forced", "late"}
    BY <1>1 DEF AttemptRecords
  <2>2. attempt' = [attempt EXCEPT ![a].closed = TRUE, ![a].published = attempt[a].published]
    BY <1>1, <1>2 DEF AttemptRecords, IInv, TypeOK
  <2>. QED BY <1>2, <1>3, <2>1, <2>2 DEF AttemptClosed
<1>5. RouterChange(r, router[r])
  BY <1>1, <1>2, UnchangedRouter
<1>6. /\ AttemptChange(r) /\ Attempts' = Attempts
      /\ \A b \in Attempts : b # a => attempt'[b] = attempt[b]
      /\ attempt'[a].router = attempt[a].router
      /\ SlotsFit' /\ slot' \in [Contexts -> Slots]
  BY <1>4, <1>5, ClosingAttempt
<1>7. Unread
  BY <1>3, <1>6 DEF Unread
<1>8. router[r].status # "none" => router[r].status = FinalStatus(router[r])
  BY <1>1, KnownRouter DEF Outcome
<1>9. Outcome(r)'
  BY <1>1, <1>5, <1>6, <1>7, <1>8, SameOutcome
<1>. QED BY <1>1, <1>2, <1>5, <1>6, <1>9, ChangesKeep
(* A result that is registered before the status decides the error.        *)
LEMMA RegisteredOutcome ==
  ASSUME IInv, NEW r \in Routers, router[r].status = "none", NEW ok \in BOOLEAN,
         router'[r].error = ~ok, router'[r].late = (router[r].late \/ Late(router[r])),
         router'[r].event = router[r].event, router'[r].status = router[r].status,
         ok => Succeeds(r)', ~ok => Fails(r)',
         router'[r].todo \subseteq router[r].todo, AttemptsOf(r)' = AttemptsOf(r)
  PROVE  Outcome(r)'
<1>1. router'[r].event # "none" => router'[r].late
  BY DEF Late
<1>2. Outcome(r)
  BY KnownRouter
<1>. QED BY <1>1, <1>2 DEF Outcome

LEMMA FinishAttemptStep ==
  ASSUME IInv, NEW c \in Contexts, NEW a \in Attempts, NEW ok \in BOOLEAN, FinishAttempt(c, a, ok)
  PROVE  IInv'
<1>0. PICK r \in Routers : r = attempt[a].router
  BY Lengths DEF IInv
<1>. DEFINE over == router[r].status # "none"
            p == IF over THEN "late" ELSE IF ok THEN "ok" ELSE "fail"
            e == [attempt[a] EXCEPT !.published = p]
            q == Registered(router[r], ok)
            rr == IF over THEN router[r] ELSE q
<1>1. /\ attempt[a].published = "no" /\ attempt' = [attempt EXCEPT ![a] = e]
      /\ router' = [router EXCEPT ![r] = rr]
      /\ slot' = slot /\ started' = started
  BY <1>0 DEF FinishAttempt
<1>2. /\ attempt[a] \in AttemptRecords /\ router[r] \in RouterRecords
      /\ Staged(router[r]) /\ Outcome(r)
  BY Lengths, KnownRouter DEF IInv
<1>3. /\ e \in AttemptRecords /\ e.router = r /\ e.found = attempt[a].found
      /\ e.old = attempt[a].old /\ e.index = attempt[a].index
      /\ e.published = IF over THEN "late" ELSE IF ok THEN "ok" ELSE "fail"
  BY <1>0, <1>2 DEF AttemptRecords
<1>4. /\ q \in RouterRecords /\ q.old = router[r].old /\ q.closed = router[r].closed
      /\ q.status = router[r].status /\ q.error = ~ok
      /\ q.late = (router[r].late \/ Late(router[r])) /\ q.event = router[r].event
      /\ q.todo = router[r].todo
  BY <1>2, RegisteredType
<1>. HIDE DEF e, q
<1>5. /\ attempt' \in Seq(AttemptRecords) /\ Len(attempt') = Len(attempt)
      /\ \A b \in Attempts : attempt'[b] = IF b = a THEN e ELSE attempt[b]
  BY <1>1, <1>3, ExceptSeq DEF IInv, TypeOK, Attempts
<1>6. AttemptChange(r) /\ Attempts' = Attempts
  BY <1>0, <1>3, <1>5 DEF AttemptChange, Attempts
<1>7. RouterChange(r, rr)
  BY <1>1, <1>2, <1>4 DEF RouterChange, Staged
<1>8. router'[r] = rr
  BY <1>2, <1>7, RouterChanged
<1>9. \A b \in AttemptsOf(r) : b # a => attempt'[b] = attempt[b]
  BY <1>5 DEF AttemptsOf
<1>10. AttemptsOf(r)' = AttemptsOf(r) /\ a \in AttemptsOf(r)
  BY <1>0, <1>3, <1>5, <1>6 DEF AttemptsOf
<1>11. Outcome(r)'
  <2>1. CASE over
    <3>1. attempt'[a].published = "late" /\ router'[r] = router[r]
      BY <1>3, <1>5, <1>8, <2>1
    <3>2. (Fails(r)' <=> Fails(r)) /\ (Succeeds(r)' <=> Succeeds(r))
      BY <1>1, <1>9, <1>10, <3>1 DEF Fails, Succeeds
    <3>. QED BY <1>2, <1>10, <3>1, <3>2 DEF Outcome
  <2>2. CASE ~over
    <3>1. attempt'[a].published = IF ok THEN "ok" ELSE "fail"
      BY <1>3, <1>5, <2>2
    <3>2. (ok => Succeeds(r)') /\ (~ok => Fails(r)')
      BY <1>10, <3>1 DEF Fails, Succeeds
    <3>3. router'[r] = q
      BY <1>8, <2>2
    <3>. QED BY <1>4, <1>10, <2>2, <3>2, <3>3, RegisteredOutcome
  <2>. QED BY <2>1, <2>2
<1>. QED BY <1>1, <1>2, <1>6, <1>7, <1>11, ChangesKeepSlots

(* Steps on a Router's record alone                                        *)
LEMMA RouterStep ==
  ASSUME IInv, NEW r \in Routers, NEW rr, RouterChange(r, rr), attempt' = attempt,
         started' = started, slot' = slot,
         /\ rr.todo \subseteq AttemptsOf(r)
         /\ Fails(r) /\ ~Succeeds(r) => rr.error
         /\ Succeeds(r) /\ ~Fails(r) /\ ~rr.refused => ~rr.error
         /\ rr.event # "none" /\ ~rr.late => (rr.event = "failed" <=> rr.error)
         /\ rr.status # "none" => rr.status = FinalStatus(rr)
  PROVE  IInv'
<1>1. AttemptChange(r) /\ Attempts' = Attempts /\ Unread
  BY SameAttempts
<1>2. AttemptsOf(r)' = AttemptsOf(r) /\ (Fails(r)' <=> Fails(r)) /\ (Succeeds(r)' <=> Succeeds(r))
  BY <1>1, ResultsKept
<1>3. router'[r] = rr
  BY RouterChanged
<1>4. Outcome(r)'
  BY <1>2, <1>3 DEF Outcome
<1>. QED BY <1>1, <1>4, ChangesKeepSlots

LEMMA RateLimitedStep ==
  ASSUME IInv, NEW c \in Contexts, NEW r \in Routers, RateLimited(c, r)
  PROVE  IInv'
<1>. DEFINE l == router[r].late \/ Late(router[r])
            rr == [router[r] EXCEPT !.error = TRUE, !.refused = TRUE, !.late = l]
<1>1. /\ router[r].status = "none" /\ router' = [router EXCEPT ![r] = rr]
      /\ attempt' = attempt /\ slot' = slot /\ started' = started
  BY DEF RateLimited
<1>2. router[r] \in RouterRecords /\ Staged(router[r]) /\ router[r].todo \subseteq AttemptsOf(r)
  BY KnownRouter DEF Outcome
<1>3. l \in BOOLEAN /\ (router[r].event # "none" => l)
  BY <1>1 DEF Late
<1>. HIDE DEF l
<1>4. /\ rr \in RouterRecords /\ rr.old = router[r].old /\ rr.closed = router[r].closed
      /\ rr.error = TRUE /\ rr.refused = TRUE /\ (rr.late <=> l) /\ rr.event = router[r].event
      /\ rr.status = router[r].status /\ rr.todo = router[r].todo
  BY <1>2, <1>3 DEF RouterRecords
<1>. HIDE DEF rr
<1>5. RouterChange(r, rr)
  BY <1>1, <1>2, <1>4 DEF RouterChange, Staged
<1>. QED BY <1>1, <1>2, <1>3, <1>4, <1>5, RouterStep

LEMMA HandleCacheStep ==
  ASSUME IInv, NEW c \in Contexts, NEW r \in Routers, NEW hit \in BOOLEAN, HandleCache(c, r, hit)
  PROVE  IInv'
<1>. DEFINE rr == [router[r] EXCEPT !.hit = hit]
<1>1. /\ router[r].status = "none" /\ router' = [router EXCEPT ![r] = rr]
      /\ attempt' = attempt /\ slot' = slot /\ started' = started
  BY DEF HandleCache
<1>2. router[r] \in RouterRecords /\ Staged(router[r]) /\ Outcome(r)
  BY KnownRouter
<1>3. /\ rr \in RouterRecords /\ rr.old = router[r].old /\ rr.closed = router[r].closed
      /\ rr.error = router[r].error /\ rr.refused = router[r].refused
      /\ rr.late = router[r].late /\ rr.event = router[r].event
      /\ rr.status = router[r].status /\ rr.todo = router[r].todo
  BY <1>2 DEF RouterRecords
<1>. HIDE DEF rr
<1>4. RouterChange(r, rr)
  BY <1>1, <1>2, <1>3 DEF RouterChange, Staged
<1>. QED BY <1>1, <1>2, <1>3, <1>4, RouterStep DEF Outcome

LEMMA RaiseOutStep ==
  ASSUME IInv, NEW c \in Contexts, NEW r \in Routers, RaiseOut(c, r)
  PROVE  IInv'
<1>. DEFINE failed == router[r].error \/ AttemptsOf(r) = {}
            rr == [router[r] EXCEPT !.raised = TRUE, !.closer = c, !.error = failed]
<1>1. /\ ~router[r].closed /\ router' = [router EXCEPT ![r] = rr]
      /\ attempt' = attempt /\ slot' = slot /\ started' = started
  BY DEF RaiseOut
<1>2. router[r] \in RouterRecords /\ Staged(router[r]) /\ Outcome(r)
  BY KnownRouter
<1>3. failed \in BOOLEAN /\ (AttemptsOf(r) # {} => (failed <=> router[r].error))
  BY <1>2 DEF RouterRecords
<1>. HIDE DEF failed
<1>4. /\ rr \in RouterRecords /\ rr.old = router[r].old /\ rr.closed = router[r].closed
      /\ (rr.error <=> failed) /\ rr.refused = router[r].refused /\ rr.event = router[r].event
      /\ rr.status = router[r].status /\ rr.todo = router[r].todo
  BY <1>2, <1>3 DEF RouterRecords
<1>. HIDE DEF rr
<1>5. RouterChange(r, rr)
  BY <1>1, <1>2, <1>4 DEF RouterChange, Staged
<1>6. rr.event = "none" /\ rr.status = "none"
  BY <1>1, <1>2, <1>4 DEF Staged
<1>7. Fails(r) \/ Succeeds(r) => AttemptsOf(r) # {}
  BY DEF Fails, Succeeds
<1>. QED BY <1>1, <1>2, <1>3, <1>4, <1>5, <1>6, <1>7, RouterStep DEF Outcome

LEMMA CloseRouterStep ==
  ASSUME IInv, NEW c \in Contexts, NEW r \in Routers, CloseRouter(c, r)
  PROVE  IInv'
<1>. DEFINE open == OpenAttempts(r)
            rr == [router[r] EXCEPT !.closed = TRUE, !.closer = c, !.todo = open]
<1>1. /\ ~router[r].closed /\ router' = [router EXCEPT ![r] = rr]
      /\ attempt' = attempt /\ slot' = slot /\ started' = started
  BY DEF CloseRouter
<1>2. router[r] \in RouterRecords /\ Staged(router[r]) /\ Outcome(r)
  BY KnownRouter
<1>3. open \subseteq AttemptsOf(r) /\ open \subseteq Attempts /\ open \subseteq 1..MaxAttempts
  BY RequestAssumption, Lengths DEF OpenAttempts, AttemptsOf, Attempts, IInv, TypeOK
<1>. HIDE DEF open
<1>4. /\ rr \in RouterRecords /\ rr.old = router[r].old /\ rr.closed = TRUE
      /\ rr.error = router[r].error /\ rr.refused = router[r].refused
      /\ rr.event = router[r].event /\ rr.status = router[r].status /\ rr.todo = open
  BY <1>2, <1>3 DEF RouterRecords
<1>. HIDE DEF rr
<1>5. rr.event = "none" /\ rr.status = "none"
  BY <1>1, <1>2, <1>4 DEF Staged
<1>6. RouterChange(r, rr)
  BY <1>1, <1>3, <1>4, <1>5 DEF RouterChange, Staged
<1>. QED BY <1>1, <1>2, <1>3, <1>4, <1>5, <1>6, RouterStep DEF Outcome

LEMMA SkipClosedStep ==
  ASSUME IInv, NEW r \in Routers, NEW a \in Attempts, SkipClosed(r, a)
  PROVE  IInv'
<1>. DEFINE left == router[r].todo \ {a}
            rr == [router[r] EXCEPT !.todo = left]
<1>1. /\ a \in router[r].todo /\ router' = [router EXCEPT ![r] = rr]
      /\ attempt' = attempt /\ slot' = slot /\ started' = started
  BY DEF SkipClosed
<1>2. router[r] \in RouterRecords /\ Staged(router[r]) /\ Outcome(r)
  BY KnownRouter
<1>3. left \subseteq router[r].todo /\ left \subseteq 1..MaxAttempts
  BY <1>2 DEF RouterRecords
<1>. HIDE DEF left
<1>4. /\ rr \in RouterRecords /\ rr.old = router[r].old /\ rr.closed = router[r].closed
      /\ rr.error = router[r].error /\ rr.refused = router[r].refused /\ rr.todo = left
      /\ rr.event = router[r].event /\ rr.status = router[r].status
  BY <1>2, <1>3 DEF RouterRecords
<1>. HIDE DEF rr
<1>5. rr.event = "none" /\ rr.status = "none"
  BY <1>1, <1>2, <1>4 DEF Staged
<1>6. RouterChange(r, rr)
  BY <1>1, <1>2, <1>3, <1>4, <1>5 DEF RouterChange, Staged
<1>. QED BY <1>1, <1>2, <1>3, <1>4, <1>5, <1>6, RouterStep DEF Outcome

LEMMA RecordTerminalEventStep ==
  ASSUME IInv, NEW r \in Routers, RecordTerminalEvent(r)
  PROVE  IInv'
<1>. DEFINE event == IF router[r].error THEN "failed" ELSE "completed"
            rr == [router[r] EXCEPT !.event = event]
<1>1. /\ router[r].closed /\ router[r].todo = {} /\ router[r].event = "none"
      /\ router' = [router EXCEPT ![r] = rr]
      /\ attempt' = attempt /\ slot' = slot /\ started' = started
  BY DEF RecordTerminalEvent
<1>2. router[r] \in RouterRecords /\ Staged(router[r]) /\ Outcome(r)
  BY KnownRouter
<1>3. event \in {"completed", "failed"} /\ (event = "failed" <=> router[r].error)
  OBVIOUS
<1>. HIDE DEF event
<1>4. /\ rr \in RouterRecords /\ rr.old = router[r].old /\ rr.closed = router[r].closed
      /\ rr.error = router[r].error /\ rr.refused = router[r].refused /\ rr.event = event
      /\ rr.todo = router[r].todo /\ rr.status = router[r].status
  BY <1>2, <1>3 DEF RouterRecords
<1>. HIDE DEF rr
<1>5. rr.status = "none"
  BY <1>1, <1>2, <1>4 DEF Staged
<1>6. RouterChange(r, rr)
  BY <1>1, <1>2, <1>4, <1>5 DEF RouterChange, Staged
<1>. QED BY <1>1, <1>2, <1>3, <1>4, <1>5, <1>6, RouterStep DEF Outcome
LEMMA ForceCloseStep ==
  ASSUME IInv, NEW r \in Routers, NEW a \in Attempts, ForceClose(r, a)
  PROVE  IInv'
<1>. DEFINE c == router[r].closer
            p == IF attempt[a].published = "no" THEN "forced" ELSE attempt[a].published
            left == router[r].todo \ {a}
            q == ForceClosed(router[r], a)
            rr == [q EXCEPT !.todo = left]
<1>1. /\ attempt[a] \in AttemptRecords /\ a \in DOMAIN attempt /\ attempt \in Seq(AttemptRecords)
      /\ router[r] \in RouterRecords /\ Staged(router[r]) /\ Outcome(r)
  BY Lengths, KnownRouter DEF IInv, TypeOK
<1>2. /\ q \in RouterRecords /\ q.old = router[r].old /\ q.closed = router[r].closed
      /\ q.status = router[r].status /\ q.event = router[r].event /\ q.todo = router[r].todo
  BY <1>1, RegisteredType DEF ForceClosed
<1>3. IF attempt[a].published = "no"
      THEN q.error = TRUE /\ q.late = (router[r].late \/ Late(router[r]))
      ELSE q = router[r]
  BY <1>1, RegisteredType DEF ForceClosed
<1>4. /\ a \in router[r].todo /\ started' = started /\ router' = [router EXCEPT ![r] = rr]
      /\ attempt' = [attempt EXCEPT ![a].closed = TRUE, ![a].published = p]
      /\ slot' = [slot EXCEPT ![c] = Live(Cleared(@, c, attempt[a]), router, attempt')]
  <2>1. router' = [router EXCEPT ![r] = [q EXCEPT !.todo = @ \ {a}]]
    BY DEF ForceClose
  <2>2. [q EXCEPT !.todo = @ \ {a}] = rr
    BY <1>2 DEF RouterRecords
  <2>. HIDE DEF q, rr
  <2>. QED BY <2>1, <2>2 DEF ForceClose
<1>5. left \subseteq router[r].todo /\ left \subseteq 1..MaxAttempts
  BY <1>1 DEF RouterRecords
<1>. HIDE DEF q, left
<1>6. /\ rr \in RouterRecords /\ rr.old = router[r].old /\ rr.closed = router[r].closed
      /\ rr.status = router[r].status /\ rr.event = router[r].event /\ rr.todo = left
      /\ rr.error = q.error /\ rr.late = q.late /\ rr.refused = q.refused
  BY <1>2, <1>5 DEF RouterRecords
<1>7. router[r].event = "none" /\ router[r].status = "none"
  BY <1>1, <1>4 DEF Staged
<1>8. RouterChange(r, rr)
  <2>1. Staged(rr)
    BY <1>1, <1>5, <1>6, <1>7 DEF Staged
  <2>. HIDE DEF rr
  <2>. QED BY <1>4, <1>6, <2>1 DEF RouterChange
<1>. HIDE DEF rr
<1>9. attempt'[a].published = p /\ p \in {"no", "ok", "fail", "forced", "late"} /\ c \in Contexts
  BY <1>1, <1>4 DEF AttemptRecords, RouterRecords
<1>10. attempt[a].router = r /\ a \in AttemptsOf(r)
  BY <1>1, <1>4 DEF Outcome, AttemptsOf
<1>11. AttemptClosed(c, a)
  BY <1>4, <1>9 DEF AttemptClosed
<1>12. /\ AttemptChange(r) /\ Attempts' = Attempts
       /\ \A b \in Attempts : b # a => attempt'[b] = attempt[b]
       /\ attempt'[a].router = attempt[a].router
       /\ SlotsFit' /\ slot' \in [Contexts -> Slots]
  <2>. HIDE DEF c
  <2>. QED BY <1>6, <1>8, <1>9, <1>10, <1>11, ClosingAttempt
<1>13. router'[r] = rr
  BY <1>8, RouterChanged
<1>14. Outcome(r)'
  <2>1. CASE attempt[a].published = "no"
    <3>1. AttemptsOf(r)' = AttemptsOf(r)
      BY <1>12 DEF AttemptsOf
    <3>2. Fails(r)'
      BY <1>9, <1>10, <2>1, <3>1 DEF Fails
    <3>. QED BY <1>3, <1>5, <1>6, <1>7, <1>13, <2>1, <3>1, <3>2, RegisteredOutcome
  <2>2. CASE attempt[a].published # "no"
    <3>1. Unread
      BY <1>9, <1>12, <2>2 DEF Unread
    <3>. QED BY <1>3, <1>5, <1>6, <1>7, <1>8, <1>12, <2>2, <3>1, SameOutcome
  <2>. QED BY <2>1, <2>2
<1>. QED BY <1>4, <1>8, <1>12, <1>14, ChangesKeep

LEMMA ReportRouterStep ==
  ASSUME IInv, NEW r \in Routers, ReportRouter(r)
  PROVE  IInv'
<1>. DEFINE c == router[r].closer
            status == FinalStatus(router[r])
            rr == [router[r] EXCEPT !.status = status]
            restored == IF c = router[r].home THEN router[r].old ELSE Empty
            left == Live(restored, router, attempt)
            v == IF left.router = None THEN Empty ELSE left
<1>1. /\ Late(router[r]) /\ router' = [router EXCEPT ![r] = rr]
      /\ attempt' = attempt /\ slot' = [slot EXCEPT ![c] = v] /\ started' = started
  BY DEF ReportRouter
<1>2. router[r] \in RouterRecords /\ Staged(router[r]) /\ Outcome(r) /\ c \in Contexts
  BY KnownRouter DEF RouterRecords
<1>3. status \in {"OK", "ERROR"}
  BY DEF FinalStatus
<1>4. /\ rr \in RouterRecords /\ rr.old = router[r].old /\ rr.closed = router[r].closed
      /\ rr.error = router[r].error /\ rr.refused = router[r].refused /\ rr.late = router[r].late
      /\ rr.event = router[r].event /\ rr.todo = router[r].todo /\ rr.status = status
      /\ rr.hit = router[r].hit /\ rr.limited = router[r].limited
  <2>. HIDE DEF status
  <2>. QED BY <1>2, <1>3 DEF RouterRecords
<1>5. FinalStatus(rr) = status
  <2>. HIDE DEF rr
  <2>. QED BY <1>4 DEF FinalStatus
<1>. HIDE DEF rr, status
<1>6. RouterChange(r, rr)
  BY <1>1, <1>2, <1>4 DEF RouterChange, Staged, Late
<1>7. AttemptChange(r) /\ Attempts' = Attempts /\ Unread
  BY <1>1, SameAttempts
<1>8. Outcome(r)'
  <2>1. (Fails(r)' <=> Fails(r)) /\ (Succeeds(r)' <=> Succeeds(r)) /\ AttemptsOf(r)' = AttemptsOf(r)
    BY <1>7, ResultsKept
  <2>2. router'[r] = rr
    BY <1>6, RouterChanged
  <2>. QED BY <1>2, <1>4, <1>5, <2>1, <2>2 DEF Outcome
<1>9. Grows /\ Len(router') = Len(router) /\ Len(attempt') = Len(attempt)
  BY <1>1, <1>6, <1>7, ChangesGrow, RouterChanged
<1>10. Fits(v, router', attempt')
  <2>1. router \in Seq(RouterRecords) /\ attempt \in Seq(AttemptRecords)
    BY DEF IInv, TypeOK
  <2>2. Fits(router[r].old, router, attempt) /\ Fits(Empty, router, attempt)
    BY <2>1, FitsEmpty DEF IInv, SlotsFit
  <2>3. Fits(restored, router, attempt)
    BY <2>2
  <2>. HIDE DEF restored
  <2>4. Fits(left, router, attempt)
    BY <2>1, <2>3, FitsLive
  <2>. HIDE DEF left
  <2>5. Fits(v, router, attempt)
    BY <2>2, <2>4
  <2>. HIDE DEF v
  <2>. QED BY <1>9, <2>5, FitsGrowing
<1>. HIDE DEF v, c
<1>11. SlotsFit' /\ slot' \in [Contexts -> Slots]
  BY <1>1, <1>2, <1>9, <1>10, SlotChanged DEF IInv
<1>. QED BY <1>1, <1>6, <1>7, <1>8, <1>11, ChangesKeep

LEMMA NextIInv == IInv /\ [Next]_vars => IInv'
<1>. SUFFICES ASSUME IInv, [Next]_vars PROVE IInv'
  OBVIOUS
<1>1. CASE UNCHANGED vars
  <2>1. /\ UNCHANGED <<router, attempt>> /\ started' \subseteq Contexts
        /\ slot' = slot /\ slot \in [Contexts -> Slots]
        /\ \A c \in Contexts : Fits(slot[c], router, attempt)
    BY <1>1 DEF vars, IInv, TypeOK, SlotsFit
  <2>. QED BY <2>1, SlotStep
<1>2. ASSUME NEW c \in Contexts, NEW d \in Contexts, NEW copied \in BOOLEAN, StartContext(c, d, copied)
      PROVE  IInv'
  BY <1>2, StartContextStep
<1>3. ASSUME NEW c \in Contexts, Read(c) PROVE IInv'
  BY <1>3, ReadStep
<1>4. ASSUME NEW c \in Contexts, NEW limited \in BOOLEAN, NEW hit \in BOOLEAN, HandleRequest(c, limited, hit)
      PROVE  IInv'
  BY <1>4, HandleRequestStep
<1>5. ASSUME NEW c \in Contexts, NEW r \in Routers, NEW explicit \in Explicit, StartAttempt(c, r, explicit)
      PROVE  IInv'
  BY <1>5, StartAttemptStep
<1>6. ASSUME NEW c \in Contexts, NEW a \in Attempts, NEW ok \in BOOLEAN, FinishAttempt(c, a, ok)
      PROVE  IInv'
  BY <1>6, FinishAttemptStep
<1>7. ASSUME NEW c \in Contexts, NEW a \in Attempts, CloseAttempt(c, a) PROVE IInv'
  BY <1>7, CloseAttemptStep
<1>8. ASSUME NEW c \in Contexts, NEW r \in Routers, NEW hit \in BOOLEAN,
             RateLimited(c, r) \/ HandleCache(c, r, hit) \/ RaiseOut(c, r) \/ CloseRouter(c, r)
      PROVE  IInv'
  BY <1>8, RateLimitedStep, HandleCacheStep, RaiseOutStep, CloseRouterStep
<1>9. ASSUME NEW r \in Routers, NEW a \in Attempts, ForceClose(r, a) \/ SkipClosed(r, a)
      PROVE  IInv'
  BY <1>9, ForceCloseStep, SkipClosedStep
<1>10. ASSUME NEW r \in Routers, RecordTerminalEvent(r) \/ ReportRouter(r)
       PROVE  IInv'
  BY <1>10, RecordTerminalEventStep, ReportRouterStep
<1>. QED BY <1>1, <1>2, <1>3, <1>4, <1>5, <1>6, <1>7, <1>8, <1>9, <1>10 DEF Next

THEOREM RequestInvariant == Spec => []IInv
BY InitIInv, NextIInv, PTL DEF Spec

(* Whatever is nested, copied, closed elsewhere or numbered by the caller, *)
(* a context shows an Attempt of the Router it shows, and the Attempts of  *)
(* a Router have indices of their own.                                     *)
THEOREM AttemptOfRouter == Spec => []AttemptBelongsToRouter
<1>1. IInv => AttemptBelongsToRouter
  <2>. SUFFICES ASSUME IInv, NEW c \in Contexts PROVE Fitting(slot[c])
    BY DEF IInv, AttemptBelongsToRouter
  <2>1. Fits(slot[c], router, attempt) /\ slot[c] \in Slots
    BY DEF IInv, SlotsFit, TypeOK
  <2>. QED BY <2>1, RequestAssumption DEF Fitting, Fits, Live, Empty, None, Slots
<1>. QED BY <1>1, RequestInvariant, PTL

(* However results, rate limits and cache decisions race the steps in which *)
(* a Router closes, its status is ERROR when its Attempts all failed or     *)
(* were forced, OK when they all succeeded, but for rate limits and cache   *)
(* hits, and agrees with its terminal event unless the error was written   *)
(* after it.                                                               *)
THEOREM StatusOfOutcome == Spec => []OutcomeDecidesStatus
<1>1. IInv => OutcomeDecidesStatus
  <2>. SUFFICES ASSUME IInv, NEW r \in Routers, router[r].status # "none"
                PROVE  OutcomeDecidesStatus!(r)!2
    BY DEF OutcomeDecidesStatus
  <2>1. Outcome(r) /\ router[r] \in RouterRecords
    BY KnownRouter
  <2>2. router[r].status = FinalStatus(router[r]) /\ router[r].event # "none"
    BY <2>1 DEF Outcome, IInv, TypeOK
  <2>3. AllResults(r, {"fail", "forced"}) => Fails(r) /\ ~Succeeds(r)
    BY DEF AllResults, Fails, Succeeds
  <2>4. AllResults(r, {"ok"}) => Succeeds(r) /\ ~Fails(r)
    BY DEF AllResults, Fails, Succeeds
  <2>5. AllResults(r, {"fail", "forced"}) => router[r].hit \/ router[r].status = "ERROR"
    BY <2>1, <2>2, <2>3 DEF Outcome, FinalStatus
  <2>6. AllResults(r, {"ok"}) /\ ~router[r].limited /\ ~router[r].refused => router[r].status = "OK"
    BY <2>1, <2>2, <2>4 DEF Outcome, FinalStatus
  <2>7. (~router[r].late /\ ~router[r].hit /\ ~router[r].limited)
          => (router[r].status = "ERROR" <=> router[r].event = "failed")
    BY <2>1, <2>2 DEF Outcome, FinalStatus
  <2>. QED BY <2>5, <2>6, <2>7
<1>. QED BY <1>1, RequestInvariant, PTL
(* The Router that get shows depends on the Router of the value alone.     *)
LEMMA LiveRouter ==
  ASSUME NEW s \in Slots, NEW R, NEW A
  PROVE  /\ Live(s, R, A) \in Slots
         /\ Live(s, R, A).router = IF s.router # None /\ R[s.router].closed THEN None ELSE s.router
<1>. DEFINE t == [s EXCEPT !.attempt = None]
<1>1. t \in Slots /\ t.router = s.router
  BY RequestAssumption DEF Slots, None
<1>2. Empty \in Slots /\ Empty.router = None
  BY RequestAssumption DEF Slots, Empty, None
<1>3. Live(s, R, A) = IF s.router # None /\ R[s.router].closed THEN Empty
                      ELSE IF s.attempt # None /\ A[s.attempt].closed THEN t ELSE s
  BY DEF Live
<1>. HIDE DEF t
<1>. QED BY <1>1, <1>2, <1>3

(* Two steps close an Attempt: its owner's and that of a closing Router.    *)
LEMMA WhoCloses ==
  ASSUME IInv, [Next]_vars, NEW a \in Attempts, ~attempt[a].closed, attempt'[a].closed
  PROVE  \/ \E d \in Contexts : CloseAttempt(d, a)
         \/ \E r \in Routers : ForceClose(r, a)
<1>1. attempt' # attempt /\ a \in DOMAIN attempt
  BY Lengths DEF IInv
<1>2. CASE UNCHANGED vars
  BY <1>1, <1>2 DEF vars
<1>3. CASE \E d \in Contexts, b \in Attempts : CloseAttempt(d, b)
  <2>1. PICK d \in Contexts, b \in Attempts : CloseAttempt(d, b)
    BY <1>3
  <2>2. a = b
    BY <1>1, <2>1 DEF CloseAttempt
  <2>. QED BY <2>1, <2>2
<1>4. CASE \E r \in Routers, b \in Attempts : ForceClose(r, b) \/ SkipClosed(r, b)
  <2>1. PICK r \in Routers, b \in Attempts : ForceClose(r, b) \/ SkipClosed(r, b)
    BY <1>4
  <2>2. ForceClose(r, b)
    BY <1>1, <2>1 DEF SkipClosed
  <2>3. a = b
    BY <1>1, <2>2 DEF ForceClose
  <2>. QED BY <2>2, <2>3
<1>5. CASE \E d \in Contexts, r \in Routers, explicit \in Explicit : StartAttempt(d, r, explicit)
  <2>1. PICK d \in Contexts, r \in Routers, explicit \in Explicit : StartAttempt(d, r, explicit)
    BY <1>5
  <2>. DEFINE e == [router |-> r, home |-> d, old |-> slot[d], found |-> Shown(d).router,
                    index |-> AllocateIndex(r, explicit), published |-> "no", closed |-> FALSE]
  <2>2. attempt' = Append(attempt, e)
    BY <2>1 DEF StartAttempt
  <2>. HIDE DEF e
  <2>3. attempt'[a] = attempt[a]
    BY <2>2 DEF Attempts, IInv, TypeOK
  <2>. QED BY <2>3
<1>6. CASE \E d \in Contexts, b \in Attempts, ok \in BOOLEAN : FinishAttempt(d, b, ok)
  BY <1>1, <1>6 DEF FinishAttempt
<1>. QED BY <1>1, <1>2, <1>3, <1>4, <1>5, <1>6
     DEF Next, StartContext, Read, HandleRequest, RateLimited, HandleCache, RaiseOut, CloseRouter,
         RecordTerminalEvent, ReportRouter

LEMMA ClosingKeepsRouter ==
  ASSUME IInv, NEW a \in Attempts, NEW c \in Contexts, NEW d \in Contexts,
         slot' = [slot EXCEPT ![d] = Live(Cleared(@, d, attempt[a]), router, attempt')],
         \A q \in Routers : router'[q].closed = router[q].closed,
         slot[c].router = attempt[a].old.router \/ c # attempt[a].home
  PROVE  Live(slot'[c], router', attempt').router = Shown(c).router
<1>. DEFINE Hides(s) == s.router # None /\ router[s.router].closed
<1>1. slot[c] \in Slots /\ attempt[a].old \in Slots /\ slot[c].router \in 0..Len(router)
  BY Lengths DEF IInv, TypeOK, AttemptRecords, SlotsFit, Fits
<1>2. Shown(c).router = IF Hides(slot[c]) THEN None ELSE slot[c].router
  BY <1>1, LiveRouter DEF Shown
<1>3. \A s \in Slots : s.router \in 0..Len(router) =>
        Live(s, router', attempt').router = IF Hides(s) THEN None ELSE s.router
  <2>. SUFFICES ASSUME NEW s \in Slots, s.router \in 0..Len(router)
                PROVE  Live(s, router', attempt').router = IF Hides(s) THEN None ELSE s.router
    OBVIOUS
  <2>1. s.router # None => router'[s.router].closed = router[s.router].closed
    BY Lengths DEF Routers, None, IInv
  <2>. QED BY <2>1, LiveRouter
<1>4. CASE c # d
  <2>1. slot'[c] = slot[c]
    BY <1>4 DEF IInv, TypeOK
  <2>. QED BY <1>1, <1>2, <1>3, <2>1
<1>5. CASE c = d
  <2>. DEFINE s == Cleared(slot[c], c, attempt[a])
  <2>1. slot'[c] = Live(s, router, attempt')
    BY <1>5 DEF IInv, TypeOK
  <2>2. s \in Slots /\ s.router = slot[c].router
    BY <1>1, RequestAssumption DEF Cleared, Slots, None
  <2>. HIDE DEF s
  <2>3. slot'[c] \in Slots /\ slot'[c].router = IF Hides(slot[c]) THEN None ELSE slot[c].router
    BY <2>1, <2>2, LiveRouter
  <2>4. slot'[c].router \in 0..Len(router)
    BY <1>1, <2>3, Lengths DEF None, IInv
  <2>5. Live(slot'[c], router', attempt').router = IF Hides(slot'[c]) THEN None ELSE slot'[c].router
    BY <1>3, <2>3, <2>4
  <2>. QED BY <1>2, <2>3, <2>5
<1>. QED BY <1>4, <1>5

(* Closing an Attempt takes no Router away from a context, but where       *)
(* another request began since the Attempt was started.                    *)
THEOREM RouterKept == Spec => RouterSlotSurvives
<1>1. IInv /\ [Next]_vars =>
        \A a \in Attempts : (~attempt[a].closed /\ attempt'[a].closed) =>
          \A c \in Contexts :
            slot[c].router = attempt[a].old.router \/ c # attempt[a].home
              => Live(slot'[c], router', attempt').router = Shown(c).router
  <2>. SUFFICES ASSUME IInv, [Next]_vars, NEW a \in Attempts, NEW c \in Contexts,
                       ~attempt[a].closed, attempt'[a].closed,
                       slot[c].router = attempt[a].old.router \/ c # attempt[a].home
                PROVE  Live(slot'[c], router', attempt').router = Shown(c).router
    OBVIOUS
  <2>1. ASSUME NEW d \in Contexts, CloseAttempt(d, a)
        PROVE  Live(slot'[c], router', attempt').router = Shown(c).router
    <3>1. /\ router' = router
          /\ slot' = [slot EXCEPT ![d] = Live(Cleared(@, d, attempt[a]), router, attempt')]
      BY <2>1 DEF CloseAttempt
    <3>. QED BY <3>1, ClosingKeepsRouter
  <2>2. ASSUME NEW r \in Routers, ForceClose(r, a)
        PROVE  Live(slot'[c], router', attempt').router = Shown(c).router
    <3>. DEFINE d == router[r].closer
                q == ForceClosed(router[r], a)
                rr == [q EXCEPT !.todo = @ \ {a}]
    <3>1. router[r] \in RouterRecords /\ d \in Contexts
      BY KnownRouter DEF RouterRecords
    <3>2. /\ slot' = [slot EXCEPT ![d] = Live(Cleared(@, d, attempt[a]), router, attempt')]
          /\ router' = [router EXCEPT ![r] = rr]
      BY <2>2 DEF ForceClose
    <3>3. q \in RouterRecords /\ q.closed = router[r].closed
      BY <3>1, RegisteredType DEF ForceClosed
    <3>. HIDE DEF q
    <3>4. rr.closed = router[r].closed
      BY <3>3 DEF RouterRecords
    <3>. HIDE DEF rr, d
    <3>5. \A p \in Routers : router'[p].closed = router[p].closed
      BY <3>2, <3>4, Lengths DEF IInv
    <3>. QED BY <3>1, <3>2, <3>5, ClosingKeepsRouter
  <2>. QED BY <2>1, <2>2, WhoCloses
<1>. QED BY <1>1, RequestInvariant, PTL DEF Spec, RouterSlotSurvives
=============================================================================
