------------------------------ MODULE Spans_proofs ------------------------------
(***************************************************************************)
(* The ContextVar, the sinks and the sampling of the SDK's spans, for any  *)
(* number of contexts and spans.                                           *)
(***************************************************************************)
EXTENDS Spans, WellFoundedInduction, TLAPS

Span == [kind : {"agent", "server", "task", "llm"}, trace : Nat, parent : Nat, sampled : BOOLEAN,
         home : Contexts, old : Nat, held : BOOLEAN]

TypeOK ==
  /\ count \in Nat
  /\ span \in Seq(Span) /\ Len(span) = count
  /\ \A s \in 1..count : span[s].old \in 0..count
  /\ open \in SUBSET (1..count)
  /\ started \in SUBSET Contexts
  /\ current \in [Contexts -> 0..count]
  /\ origin \in [Contexts -> 0..count]
  /\ sinks \in SUBSET (1..count)
  /\ reported \in SUBSET (1..count)
  /\ deaf \in SUBSET (1..count)
  /\ up \in BOOLEAN
  /\ stops \in Nat
  /\ stopping \in SUBSET Contexts
  /\ disturbed \in SUBSET Contexts

(* While the reporter is being stopped no open span reaches it, so that the *)
(* end of shutdown may clear all sinks.                                     *)
SinksOK ==
  /\ sinks \subseteq open
  /\ open \ deaf \subseteq sinks
  /\ stopping # {} => open \subseteq deaf

(* A trace is sampled as a whole, and a span is reported when it is left.   *)
TraceOK ==
  /\ \A s \in 1..count : span[s].trace \in 1..count
  /\ \A s, t \in 1..count : span[s].trace = span[t].trace => span[s].sampled = span[t].sampled
  /\ \A s \in reported : s \notin open /\ span[s].sampled
  /\ \A s \in (1..count) \ (open \cup deaf) : span[s].sampled => s \in reported

(* The innermost of some spans of c, or what c started with.               *)
Top(c, S) == IF S = {} THEN origin[c] ELSE Max(S)
Outside(c, s) == {t \in EnteredIn(c) : t < s}

(* Each span remembers the one around it.                                  *)
NestOK ==
  /\ \A s \in open : span[s].home \in started
  /\ \A c \in started \ disturbed :
       /\ current[c] = Top(c, EnteredIn(c))
       /\ \A s \in EnteredIn(c) : span[s].old = Top(c, Outside(c, s))

IInv == TypeOK /\ SinksOK /\ TraceOK /\ NestOK

-----------------------------------------------------------------------------
LEMMA Least ==
  ASSUME NEW T \in SUBSET Nat, T # {}
  PROVE  \E n \in T : \A m \in T : n <= m
<1>. DEFINE L == {ss \in Nat \X Nat : ss[1] < ss[2]}
<1>1. IsWellFoundedOn(L, Nat)
  BY NatLessThanWellFounded DEF OpToRel
<1>2. PICK n \in T : \A m \in T : <<m, n>> \notin L
  BY <1>1, WFMin
<1>3. n \in Nat /\ \A m \in T : m \in Nat /\ ~(m < n)
  BY <1>2
<1>. QED BY <1>3

(* Of the spans that are open somewhere one is the innermost.              *)
LEMMA Innermost ==
  ASSUME NEW n \in Nat, NEW S \in SUBSET (1..n), S # {}
  PROVE  Max(S) \in S /\ \A s \in S : s <= Max(S)
<1>. DEFINE T == {n - s : s \in S}
<1>1. T \in SUBSET Nat /\ T # {}
  <2>1. \A s \in S : n - s \in Nat
    OBVIOUS
  <2>. QED BY <2>1
<1>2. PICK k \in T : \A m \in T : k <= m
  BY <1>1, Least
<1>3. PICK s \in S : k = n - s
  OBVIOUS
<1>4. \A t \in S : s >= t
  <2>. SUFFICES ASSUME NEW t \in S PROVE s >= t
    OBVIOUS
  <2>1. n - s <= n - t
    BY <1>2, <1>3
  <2>. QED BY <2>1
<1>5. Max(S) \in S /\ \A t \in S : Max(S) >= t
  BY <1>4 DEF Max
<1>. QED BY <1>5

-----------------------------------------------------------------------------
(* The invariant                                                            *)

LEMMA InitInv == Init => IInv
<1>. SUFFICES ASSUME Init PROVE IInv
  OBVIOUS
<1>1. TypeOK
  BY DEF Init, TypeOK, None
<1>2. SinksOK /\ TraceOK
  BY DEF Init, SinksOK, TraceOK
<1>3. \A c : EnteredIn(c) = {}
  BY DEF Init, EnteredIn
<1>4. NestOK
  BY <1>3 DEF Init, NestOK, Top
<1>. QED BY <1>1, <1>2, <1>4 DEF IInv

(* What is entered is the newest span, and all older ones stay as they are. *)
LEMMA EnteredSpan ==
  ASSUME IInv, NEW c \in Contexts, NEW kind \in {"agent", "server", "task", "llm"},
         NEW trace \in Nat, NEW parent \in Nat, NEW sampled \in BOOLEAN, NEW held \in BOOLEAN,
         Enter(c, kind, trace, parent, sampled, held)
  PROVE  /\ TypeOK'
         /\ count' = count + 1 /\ 1..count' = (1..count) \cup {count'} /\ count' \notin 1..count
         /\ \A s \in 1..count : span'[s] = span[s]
         /\ span'[count'].trace = trace /\ span'[count'].sampled = sampled
         /\ span'[count'].home = c /\ span'[count'].old = current[c]
<1>. USE DEF IInv, TypeOK
<1>. DEFINE e == [kind |-> kind, trace |-> trace, parent |-> parent, sampled |-> sampled,
                  home |-> c, old |-> current[c], held |-> held]
<1>1. /\ count' = count + 1 /\ 1..count' = (1..count) \cup {count'}
      /\ 0..count' = (0..count) \cup {count'} /\ count' \notin 1..count
  BY DEF Enter
<1>2. e \in Span
  BY DEF Span
<1>3. span' = Append(span, e)
  BY DEF Enter
<1>. HIDE DEF e
<1>4. /\ span' \in Seq(Span) /\ Len(span') = count' /\ span'[count'] = e
      /\ \A s \in 1..count : span'[s] = span[s]
  BY <1>1, <1>2, <1>3
<1>5. /\ open' \in SUBSET (1..count') /\ sinks' \in SUBSET (1..count')
      /\ deaf' \in SUBSET (1..count') /\ reported' \in SUBSET (1..count')
  BY <1>1 DEF Enter
<1>6. current' \in [Contexts -> 0..count'] /\ origin' \in [Contexts -> 0..count']
  BY <1>1 DEF Enter
<1>7. UNCHANGED <<started, up, stops, stopping, disturbed>>
  BY DEF Enter
<1>8. e.trace = trace /\ e.sampled = sampled /\ e.home = c /\ e.old = current[c]
  BY DEF e
<1>9. TypeOK'
  <2>1. \A s \in 1..count' : span'[s].old \in 0..count'
    BY <1>1, <1>4, <1>8
  <2>. QED BY <1>1, <1>4, <1>5, <1>6, <1>7, <2>1
<1>. QED BY <1>1, <1>4, <1>8, <1>9

(* A span that starts a trace or continues one with its sampling.          *)
LEMMA EnterStep ==
  ASSUME IInv, NEW c \in Contexts, NEW kind \in {"agent", "server", "task", "llm"},
         NEW trace \in 1..(count + 1), NEW parent \in Nat, NEW sampled \in BOOLEAN, NEW held \in BOOLEAN,
         Enter(c, kind, trace, parent, sampled, held),
         trace # count + 1 => \E p \in 1..count : trace = span[p].trace /\ sampled = span[p].sampled
  PROVE  IInv'
<1>1. /\ TypeOK'
      /\ count' = count + 1 /\ 1..count' = (1..count) \cup {count'} /\ count' \notin 1..count
      /\ \A s \in 1..count : span'[s] = span[s]
      /\ span'[count'].trace = trace /\ span'[count'].sampled = sampled
      /\ span'[count'].home = c /\ span'[count'].old = current[c]
  BY EnteredSpan
<1>. PICK n : n = count'
  OBVIOUS
<1>2. /\ open' = open \cup {n} /\ sinks' = sinks \cup {n} /\ c \in started
      /\ current' = [current EXCEPT ![c] = n]
      /\ deaf' = IF stopping = {} THEN deaf ELSE deaf \cup {n}
      /\ UNCHANGED <<started, reported, stopping, origin, disturbed>>
  BY <1>1 DEF Enter, Running
<1>3. /\ count \in Nat /\ n \in Nat /\ \A s \in 1..count : s < n
      /\ open \subseteq 1..count /\ reported \subseteq 1..count /\ deaf \subseteq 1..count
  BY <1>1 DEF IInv, TypeOK
<1>4. SinksOK'
  BY <1>2, <1>3 DEF IInv, SinksOK
<1>5. TraceOK'
  <2>1. \A s \in 1..count' : span'[s].trace \in 1..count'
    BY <1>1, <1>3 DEF IInv, TraceOK
  <2>2. \A s \in 1..count : span[s].trace = trace => span[s].sampled = sampled
    BY <1>3 DEF IInv, TraceOK
  <2>3. \A s, t \in 1..count' : span'[s].trace = span'[t].trace => span'[s].sampled = span'[t].sampled
    BY <1>1, <2>2 DEF IInv, TraceOK
  <2>4. \A s \in reported' : s \notin open' /\ span'[s].sampled
    BY <1>1, <1>2, <1>3 DEF IInv, TraceOK
  <2>5. \A s \in (1..count') \ (open' \cup deaf') : span'[s].sampled => s \in reported'
    BY <1>1, <1>2, <1>3 DEF IInv, TraceOK
  <2>. QED BY <2>1, <2>3, <2>4, <2>5 DEF TraceOK
<1>6. NestOK'
  <2>1. /\ EnteredIn(c)' = EnteredIn(c) \cup {n}
        /\ \A d \in Contexts : d # c => EnteredIn(d)' = EnteredIn(d)
        /\ \A d : EnteredIn(d) \subseteq 1..count
    <3>1. \A s \in open : s \in 1..count /\ s # n /\ span'[s] = span[s]
      BY <1>1, <1>3
    <3>2. \A d : EnteredIn(d)' = {s \in open \cup {n} : span'[s].home = d}
      BY <1>2 DEF EnteredIn
    <3>3. span'[n].home = c
      BY <1>1
    <3>4. \A d : /\ EnteredIn(d) = {s \in open : span'[s].home = d}
                 /\ EnteredIn(d) \subseteq 1..count
      BY <3>1 DEF EnteredIn
    <3>. QED BY <3>2, <3>3, <3>4
  <2>2. \A s \in open' : span'[s].home \in started'
    BY <1>1, <1>2, <1>3 DEF IInv, NestOK
  <2>3. ASSUME NEW d \in started' \ disturbed'
        PROVE  /\ current'[d] = Top(d, EnteredIn(d))'
               /\ \A s \in EnteredIn(d)' : span'[s].old = Top(d, Outside(d, s))'
    <3>1. /\ d \in Contexts /\ origin' = origin
          /\ current[d] = Top(d, EnteredIn(d))
          /\ \A s \in EnteredIn(d) : span[s].old = Top(d, Outside(d, s))
      BY <1>2, <2>3 DEF IInv, NestOK, TypeOK
    <3>2. ASSUME NEW s \in EnteredIn(d)
          PROVE  /\ Outside(d, s)' = Outside(d, s)
                 /\ span'[s].old = Top(d, Outside(d, s))'
      <4>1. s \in 1..count /\ s < n /\ ~(n < s)
        BY <1>3, <2>1
      <4>2. Outside(d, s)' = Outside(d, s)
        BY <2>1, <3>1, <4>1 DEF Outside
      <4>. QED BY <1>1, <3>1, <4>1, <4>2 DEF Top
    <3>3. CASE d # c
      <4>1. current'[d] = current[d] /\ EnteredIn(d)' = EnteredIn(d)
        BY <1>2, <2>1, <3>1, <3>3 DEF IInv, TypeOK
      <4>. QED BY <3>1, <3>2, <4>1 DEF Top
    <3>4. CASE d = c
      <4>1. current'[d] = n
        BY <1>2, <3>1, <3>4 DEF IInv, TypeOK
      <4>2. Max(EnteredIn(d)') = n
        <5>1. EnteredIn(d)' \in SUBSET (1..n) /\ n \in EnteredIn(d)'
          <6>1. 1..count \subseteq 1..n /\ n \in 1..n
            BY <1>1, <1>3
          <6>. QED BY <2>1, <3>4, <6>1
        <5>2. Max(EnteredIn(d)') \in 1..n /\ n <= Max(EnteredIn(d)')
          BY <1>3, <5>1, Innermost
        <5>. QED BY <1>3, <5>2
      <4>3. Outside(d, n)' = EnteredIn(d)
        BY <1>3, <2>1, <3>4 DEF Outside
      <4>4. span'[n].old = Top(d, Outside(d, n))'
        BY <1>1, <3>1, <3>4, <4>3 DEF Top
      <4>5. current'[d] = Top(d, EnteredIn(d))'
        BY <2>1, <3>4, <4>1, <4>2 DEF Top
      <4>. QED BY <2>1, <3>2, <3>4, <4>4, <4>5
    <3>. QED BY <3>3, <3>4
  <2>. QED BY <2>2, <2>3 DEF NestOK
<1>. QED BY <1>1, <1>4, <1>5, <1>6 DEF IInv

LEMMA EnterKinds ==
  ASSUME IInv, NEW c \in Contexts,
         \/ \E sampled, held \in BOOLEAN : EnterAgent(c, sampled, held)
         \/ \E kind \in {"task", "llm"}, held \in BOOLEAN : EnterChild(c, kind, held)
         \/ \E p \in 1..count : EnterServer(c, p)
         \/ \E sampled \in BOOLEAN : EnterServerAlone(c, sampled)
  PROVE  IInv'
<1>0. /\ count \in Nat /\ count + 1 \in 1..(count + 1) /\ None \in Nat /\ current[c] \in 0..count
      /\ \A p \in 1..count : /\ p \in Nat /\ span[p].trace \in 1..count /\ span[p].trace \in 1..(count + 1)
                             /\ span[p].sampled \in BOOLEAN
  <2>1. count \in Nat /\ current[c] \in 0..count /\ \A p \in 1..count : span[p] \in Span
    BY DEF IInv, TypeOK
  <2>2. \A p \in 1..count : span[p].trace \in 1..count
    BY DEF IInv, TraceOK
  <2>3. \A i \in 1..count : i \in 1..(count + 1) /\ i \in Nat
    BY <2>1
  <2>. QED BY <2>1, <2>2, <2>3 DEF None, Span
<1>1. ASSUME NEW sampled \in BOOLEAN, NEW held \in BOOLEAN, EnterAgent(c, sampled, held)
      PROVE  IInv'
  BY <1>0, <1>1, EnterStep DEF EnterAgent
<1>2. ASSUME NEW kind \in {"task", "llm"}, NEW held \in BOOLEAN, EnterChild(c, kind, held)
      PROVE  IInv'
  <2>1. /\ current[c] \in 1..count
        /\ Enter(c, kind, span[current[c]].trace, current[c], span[current[c]].sampled, held)
    BY <1>0, <1>2 DEF EnterChild, None
  <2>2. kind \in {"agent", "server", "task", "llm"}
    OBVIOUS
  <2>. QED BY <1>0, <2>1, <2>2, EnterStep
<1>3. ASSUME NEW p \in 1..count, EnterServer(c, p)
      PROVE  IInv'
  <2>1. Enter(c, "server", span[p].trace, p, span[p].sampled, FALSE)
    BY <1>3 DEF EnterServer
  <2>2. /\ span[p].trace \in 1..(count + 1) /\ p \in Nat /\ span[p].sampled \in BOOLEAN
        /\ "server" \in {"agent", "server", "task", "llm"} /\ FALSE \in BOOLEAN
    BY <1>0
  <2>3. \E q \in 1..count : span[p].trace = span[q].trace /\ span[p].sampled = span[q].sampled
    OBVIOUS
  <2>. QED BY <2>1, <2>2, <2>3, EnterStep
<1>4. ASSUME NEW sampled \in BOOLEAN, EnterServerAlone(c, sampled)
      PROVE  IInv'
  BY <1>0, <1>4, EnterStep DEF EnterServerAlone
<1>. QED BY <1>1, <1>2, <1>3, <1>4

LEMMA LeaveStep ==
  ASSUME IInv, NEW c \in Contexts, NEW s \in open, Leave(c, s)
  PROVE  IInv'
<1>. DEFINE home == span[s].home
<1>0. /\ s \in 1..count /\ span[s] \in Span /\ home \in Contexts /\ home \in started
      /\ span[s].sampled \in BOOLEAN /\ count \in Nat /\ current \in [Contexts -> 0..count]
      /\ reported \subseteq 1..count /\ c \in started
  <2>1. s \in 1..count /\ count \in Nat /\ current \in [Contexts -> 0..count] /\ reported \subseteq 1..count
    BY DEF IInv, TypeOK
  <2>2. span[s] \in Span
    BY <2>1 DEF IInv, TypeOK
  <2>3. home \in Contexts /\ span[s].sampled \in BOOLEAN
    BY <2>2 DEF Span
  <2>4. home \in started /\ c \in started
    BY DEF IInv, NestOK, Leave, Ends, MayLeave, Running
  <2>. QED BY <2>1, <2>2, <2>3, <2>4
<1>1. /\ open' = open \ {s} /\ sinks' = sinks \ {s}
      /\ reported' = IF span[s].sampled /\ s \notin deaf THEN reported \cup {s} ELSE reported
      /\ disturbed' = disturbed \cup Disturbs(c, s)
      /\ UNCHANGED <<count, span, started, up, stopping, stops, deaf, origin>>
  BY DEF Leave, Ends
<1>2. \/ current' = current /\ c # home /\ span[s].kind # "task"
      \/ current' = [current EXCEPT ![c] = span[s].old] /\ (c = home \/ span[s].kind = "task")
  BY DEF Leave, Ends, Restored
<1>3. \/ s # Max(EnteredIn(home)) /\ Disturbs(c, s) = {home, c}
      \/ s = Max(EnteredIn(home)) /\ home # c
         /\ Disturbs(c, s) = {home} \cup (IF span[s].kind = "task" THEN {c} ELSE {})
      \/ s = Max(EnteredIn(home)) /\ home = c /\ Disturbs(c, s) = {}
  BY DEF Disturbs
<1>. HIDE DEF home
<1>4. SinksOK'
  BY <1>1 DEF IInv, SinksOK
<1>5. TraceOK'
  BY <1>0, <1>1 DEF IInv, TraceOK
<1>6. TypeOK'
  <2>1. current' \in [Contexts -> 0..count]
    <3>1. span[s].old \in 0..count
      BY <1>0 DEF IInv, TypeOK
    <3>. QED BY <1>0, <1>2, <3>1
  <2>2. Disturbs(c, s) \subseteq Contexts
    BY <1>0, <1>3
  <2>. QED BY <1>0, <1>1, <2>1, <2>2 DEF IInv, TypeOK
<1>7. NestOK'
  <2>1. /\ \A d : d # home => EnteredIn(d)' = EnteredIn(d)
        /\ \A d : d = home => EnteredIn(d)' = EnteredIn(d) \ {s} /\ s \in EnteredIn(d)
        /\ \A d : EnteredIn(d) \in SUBSET (1..count)
    BY <1>0, <1>1 DEF EnteredIn, IInv, TypeOK, home
  <2>2. \A t \in open' : span'[t].home \in started'
    BY <1>1 DEF IInv, NestOK
  <2>3. ASSUME NEW d \in started' \ disturbed'
        PROVE  /\ current'[d] = Top(d, EnteredIn(d))'
               /\ \A t \in EnteredIn(d)' : span'[t].old = Top(d, Outside(d, t))'
    <3>1. /\ d \in Contexts /\ d \notin Disturbs(c, s)
          /\ current[d] = Top(d, EnteredIn(d))
          /\ \A t \in EnteredIn(d) : span[t].old = Top(d, Outside(d, t))
      BY <1>1, <2>3 DEF IInv, NestOK, TypeOK
    <3>2. CASE d # home
      <4>1. EnteredIn(d)' = EnteredIn(d) /\ \A t : Outside(d, t)' = Outside(d, t)
        BY <2>1, <3>2 DEF Outside
      <4>2. d # c \/ current' = current
        BY <1>2, <1>3, <3>1, <3>2
      <4>3. current'[d] = current[d]
        BY <1>0, <1>2, <3>1, <4>2
      <4>. QED BY <1>1, <3>1, <4>1, <4>3 DEF Top
    <3>3. CASE d = home
      <4>1. s = Max(EnteredIn(d)) /\ d = c
        BY <1>3, <3>1, <3>3
      <4>2. \A t \in EnteredIn(d) : t <= s /\ t \in Nat
        <5>1. EnteredIn(d) \in SUBSET (1..count) /\ EnteredIn(d) # {} /\ count \in Nat
          BY <1>0, <2>1, <3>3
        <5>2. \A t \in EnteredIn(d) : t <= Max(EnteredIn(d))
          BY <5>1, Innermost
        <5>. QED BY <4>1, <5>1, <5>2
      <4>. PICK E : E = EnteredIn(d)
        OBVIOUS
      <4>7. EnteredIn(d)' = E \ {s} /\ s \in E /\ s \in Nat /\ \A t \in E : t \in Nat /\ t <= s
        <5>1. EnteredIn(d)' = EnteredIn(d) \ {s} /\ s \in EnteredIn(d)
          BY <2>1, <3>3
        <5>. QED BY <4>2, <5>1
      <4>8. \A t \in E : (t # s <=> t < s)
        BY <4>7
      <4>9. Outside(d, s) = {t \in E : t < s}
        BY DEF Outside
      <4>3. EnteredIn(d)' = Outside(d, s)
        BY <4>7, <4>8, <4>9
      <4>4. current'[d] = span[s].old
        BY <1>0, <1>2, <3>1, <3>3, <4>1
      <4>5. current'[d] = Top(d, EnteredIn(d))'
        BY <1>1, <2>1, <3>1, <3>3, <4>3, <4>4 DEF Top
      <4>6. ASSUME NEW t \in EnteredIn(d)'
            PROVE  span'[t].old = Top(d, Outside(d, t))'
        <5>4. t \in E /\ t \in EnteredIn(d)
          BY <4>6, <4>7
        <5>1. t \in E /\ ~(s < t) /\ t \in EnteredIn(d)
          BY <4>7, <5>4
        <5>3. Outside(d, t)' = {x \in EnteredIn(d)' : x < t} /\ Outside(d, t) = {x \in E : x < t}
          BY DEF Outside
        <5>2. Outside(d, t)' = Outside(d, t)
          BY <4>7, <5>1, <5>3
        <5>. QED BY <1>1, <3>1, <5>1, <5>2 DEF Top
      <4>. QED BY <4>5, <4>6
    <3>. QED BY <3>2, <3>3
  <2>. QED BY <2>2, <2>3 DEF NestOK
<1>. QED BY <1>4, <1>5, <1>6, <1>7 DEF IInv

LEMMA StartStep ==
  ASSUME IInv, NEW c \in Contexts, NEW d \in Contexts, NEW copied \in BOOLEAN,
         StartContext(c, d, copied)
  PROVE  IInv'
<1>1. /\ d \notin started /\ started' = started \cup {d}
      /\ UNCHANGED <<count, span, open, sinks, reported, up, stopping, stops, deaf, disturbed>>
      /\ \/ current' = [current EXCEPT ![d] = current[c]] /\ origin' = [origin EXCEPT ![d] = current[c]]
         \/ current' = [current EXCEPT ![d] = None] /\ origin' = [origin EXCEPT ![d] = None]
  BY DEF StartContext
<1>2. count \in Nat /\ current \in [Contexts -> 0..count] /\ origin \in [Contexts -> 0..count]
  BY DEF IInv, TypeOK
<1>3. /\ current' \in [Contexts -> 0..count] /\ origin' \in [Contexts -> 0..count]
      /\ current'[d] = origin'[d]
      /\ \A e \in Contexts : e # d => current'[e] = current[e] /\ origin'[e] = origin[e]
  BY <1>1, <1>2 DEF None
<1>4. TypeOK'
  BY <1>1, <1>3 DEF IInv, TypeOK
<1>5. SinksOK' /\ TraceOK'
  BY <1>1 DEF IInv, SinksOK, TraceOK
<1>6. NestOK'
  <2>1. (\A e : EnteredIn(e)' = EnteredIn(e)) /\ EnteredIn(d) = {}
    BY <1>1 DEF EnteredIn, IInv, NestOK
  <2>2. \A e, t : Outside(e, t)' = Outside(e, t)
    BY <2>1 DEF Outside
  <2>3. \A t \in open' : span'[t].home \in started'
    BY <1>1 DEF IInv, NestOK
  <2>4. ASSUME NEW e \in started' \ disturbed'
        PROVE  /\ current'[e] = Top(e, EnteredIn(e))'
               /\ \A t \in EnteredIn(e)' : span'[t].old = Top(e, Outside(e, t))'
    <3>1. CASE e = d
      BY <1>3, <2>1, <3>1 DEF Top
    <3>2. CASE e # d
      <4>1. /\ current'[e] = current[e] /\ origin'[e] = origin[e]
            /\ current[e] = Top(e, EnteredIn(e))
            /\ \A t \in EnteredIn(e) : span[t].old = Top(e, Outside(e, t))
        BY <1>1, <1>3, <2>4, <3>2 DEF IInv, NestOK, TypeOK
      <4>. QED BY <1>1, <2>1, <2>2, <4>1 DEF Top
    <3>. QED BY <3>1, <3>2
  <2>. QED BY <2>3, <2>4 DEF NestOK
<1>. QED BY <1>4, <1>5, <1>6 DEF IInv

(* Steps that enter and leave nothing.                                     *)
LEMMA ShutdownStep ==
  ASSUME IInv,
         (\E c \in Contexts : StopReporter(c) \/ Shutdown(c)) \/ InitAgain \/ UNCHANGED vars
  PROVE  IInv'
<1>1. /\ UNCHANGED <<count, span, open, started, reported, origin>>
      /\ deaf' = deaf \/ deaf' = deaf \cup open
  BY DEF StopReporter, Shutdown, InitAgain, vars
<1>2. \/ UNCHANGED <<current, disturbed>>
      \/ \E c \in Contexts : current' = [current EXCEPT ![c] = None] /\ disturbed' = disturbed \cup {c}
  BY DEF StopReporter, Shutdown, InitAgain, vars
<1>3. TypeOK'
  <2>1. count \in Nat /\ current' \in [Contexts -> 0..count] /\ disturbed' \in SUBSET Contexts
    <3>1. /\ count \in Nat /\ 0 \in 0..count /\ current \in [Contexts -> 0..count]
          /\ disturbed \in SUBSET Contexts
      BY DEF IInv, TypeOK
    <3>. QED BY <1>2, <3>1 DEF None
  <2>2. /\ sinks' = sinks \/ sinks' = {}
        /\ stops' = stops \/ stops' = stops + 1
        /\ stopping' = stopping \/ stopping' = {} \/ \E c \in Contexts : stopping' = {c}
    BY DEF StopReporter, Shutdown, InitAgain, vars
  <2>3. sinks' \in SUBSET (1..count) /\ deaf' \in SUBSET (1..count)
    BY <1>1, <2>2 DEF IInv, TypeOK
  <2>4. up' \in BOOLEAN /\ stops' \in Nat /\ stopping' \in SUBSET Contexts
    <3>1. up \in BOOLEAN /\ stops \in Nat /\ stopping \in SUBSET Contexts
      BY DEF IInv, TypeOK
    <3>2. stops' \in Nat /\ stopping' \in SUBSET Contexts
      BY <2>2, <3>1
    <3>3. up' = up \/ up' \in BOOLEAN
      BY DEF StopReporter, Shutdown, InitAgain, vars
    <3>. QED BY <3>1, <3>2, <3>3
  <2>5. /\ count' \in Nat /\ span' \in Seq(Span) /\ Len(span') = count'
        /\ \A s \in 1..count' : span'[s].old \in 0..count'
        /\ open' \in SUBSET (1..count') /\ started' \in SUBSET Contexts
        /\ origin' \in [Contexts -> 0..count'] /\ reported' \in SUBSET (1..count')
    BY <1>1 DEF IInv, TypeOK
  <2>6. /\ current' \in [Contexts -> 0..count'] /\ sinks' \in SUBSET (1..count')
        /\ deaf' \in SUBSET (1..count')
    BY <1>1, <2>1, <2>3
  <2>. QED BY <2>1, <2>4, <2>5, <2>6 DEF TypeOK
<1>4. SinksOK'
  BY DEF StopReporter, Shutdown, InitAgain, vars, IInv, SinksOK
<1>5. TraceOK'
  BY <1>1 DEF IInv, TraceOK
<1>6. NestOK'
  <2>1. /\ \A e : EnteredIn(e)' = EnteredIn(e)
        /\ \A e, t : Outside(e, t)' = Outside(e, t)
    BY <1>1 DEF EnteredIn, Outside
  <2>2. ASSUME NEW e \in started' \ disturbed'
        PROVE  /\ current'[e] = Top(e, EnteredIn(e))'
               /\ \A t \in EnteredIn(e)' : span'[t].old = Top(e, Outside(e, t))'
    <3>2. /\ current \in [Contexts -> 0..count] /\ started \in SUBSET Contexts
          /\ e \in started \ disturbed'
      BY <1>1, <2>2 DEF IInv, TypeOK
    <3>1. current'[e] = current[e] /\ e \in started \ disturbed
      <4>1. CASE UNCHANGED <<current, disturbed>>
        BY <3>2, <4>1
      <4>2. ASSUME NEW c \in Contexts, current' = [current EXCEPT ![c] = None],
                   disturbed' = disturbed \cup {c}
            PROVE  current'[e] = current[e] /\ e \in started \ disturbed
        BY <3>2, <4>2
      <4>. QED BY <1>2, <4>1, <4>2
    <3>3. /\ current[e] = Top(e, EnteredIn(e))
          /\ \A s \in EnteredIn(e) : span[s].old = Top(e, Outside(e, s))
      BY <3>1 DEF IInv, NestOK
    <3>. QED BY <1>1, <2>1, <3>1, <3>3 DEF Top
  <2>. QED BY <1>1, <2>2 DEF IInv, NestOK
<1>. QED BY <1>3, <1>4, <1>5, <1>6 DEF IInv

LEMMA SpansInvariant == Spec => []IInv
<1>1. IInv /\ [Next]_vars => IInv'
  BY EnterKinds, LeaveStep, StartStep, ShutdownStep DEF Next
<1>. QED BY InitInv, <1>1, PTL DEF Spec

-----------------------------------------------------------------------------

(* span_registry.py: callbacks and annotations find the sink of an open     *)
(* span until the SDK is shut down, and never that of one that was left,    *)
(* whatever generators, tasks and threads leave in between.                 *)
THEOREM SinksStayOpen == Spec => []SinksAreOpenSpans
<1>1. IInv => SinksAreOpenSpans
  BY DEF IInv, SinksOK, SinksAreOpenSpans
<1>. QED BY <1>1, SpansInvariant, PTL

(* A trace is reported as a whole or not at all: children inherit the draw  *)
(* of the root, over ContextVars, generators and carriers between services. *)
THEOREM TraceIsWhole == Spec => []TraceWholeOrAbsent
<1>1. IInv => TraceWholeOrAbsent
  BY DEF IInv, TypeOK, TraceOK, TraceWholeOrAbsent
<1>. QED BY <1>1, SpansInvariant, PTL

(* tracer.py and the integrations: where no span was left out of order the  *)
(* ContextVar is the innermost span entered in its context and not left, or *)
(* what the context started with.                                           *)
THEOREM InnermostIsCurrent == Spec => []CurrentIsInnermost
<1>1. IInv => CurrentIsInnermost
  BY DEF IInv, NestOK, Top, CurrentIsInnermost
<1>. QED BY <1>1, SpansInvariant, PTL
=============================================================================
