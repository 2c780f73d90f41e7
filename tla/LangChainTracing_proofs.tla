------------------------ MODULE LangChainTracing_proofs -------------------------
(***************************************************************************)
(* What is reported of the calls of a LangChain program, which span its    *)
(* ContextVars show, and what an invocation leaves behind, for any number  *)
(* of contexts and of frames.                                              *)
(***************************************************************************)
EXTENDS LangChainTracing, FiniteSetTheorems, WellFoundedInduction, TLAPS

Kinds == {"scope", "create", "run", "invoke"}
Frame == [kind : Kinds, span : {"tool", "llm", "agent", "none"}, home : Contexts, caller : Nat,
          held : BOOLEAN, own : BOOLEAN, parent : Nat, ctx : Nat, old : Nat, state : Nat, handler : Nat]
Values == 0..Len(frame) \cup {Ambient}

FrameTypes ==
  /\ frame \in Seq(Frame) /\ Len(frame) <= MaxFrames
  /\ live \in SUBSET Frames /\ open \in SUBSET Frames
  /\ started \in SUBSET Contexts
  /\ base \in [Contexts -> 0..Len(frame)]
  /\ current \in [Contexts -> Values]
  /\ origin \in [Contexts -> Values]
  /\ streams \in SUBSET Frames /\ finalized \in SUBSET Frames
  /\ reported \in Seq(0..2) /\ Len(reported) = Len(frame)
  /\ up \in BOOLEAN
  /\ lost \in SUBSET Frames
  /\ disturbed \in SUBSET Contexts

RunTypes ==
  /\ auto \in [Contexts -> 0..Len(frame)]
  /\ depth \in [1..MaxFrames -> Int]
  /\ runs \in [1..MaxFrames -> SUBSET Frames]
  /\ late \in SUBSET Frames

(* A frame is entered by code that runs in its context, and an invocation  *)
(* made the handler and the state that it refers to.  No model call opens  *)
(* a span of its own where the ContextVar shows that of a model call.      *)
EntryOK(f, r) ==
  /\ r.home \in started
  /\ r.old \in Values /\ r.parent \in Values /\ r.ctx \in Values
  /\ r.handler \in 0..f /\ (r.kind = "run" => r.handler # None)
  /\ r.handler # None => frame[r.handler].kind = "invoke"
  /\ r.kind = "invoke" => r.state \in 1..f /\ frame[r.state].kind = "invoke" /\ (r.own => r.state = f /\ r.old = None)
  /\ r.kind # "invoke" => r.state = None
  /\ r.kind \in {"scope", "create"} => r.own
  /\ r.kind = "create" => ~r.held
  /\ r.own /\ r.span = "llm" /\ r.kind # "scope" => ~LogicalLLMActive(r.old)

FramesOK ==
  /\ \A f \in Frames : EntryOK(f, frame[f])
  /\ \A c \in started : base[c] # None => frame[base[c]].home \in started \ {c}

(* Which spans are made current and not undone.                            *)
LiveOK ==
  /\ \A f \in open : frame[f].own
  /\ \A f \in live : frame[f].kind \in {"scope", "create"} =>
       f \in open /\ reported[f] = 0 /\ f \notin streams
  /\ \A f \in Frames : frame[f].kind = "invoke" /\ frame[f].own => (f \in live <=> f \in open)
  /\ \A f \in streams : f \notin live /\ frame[f].kind = "create" /\ (f \notin finalized => reported[f] = 0)
  /\ finalized \subseteq streams

RegisteredOK ==
  \A h \in 1..MaxFrames : \A r \in runs[h] :
    /\ frame[r].kind = "run" /\ frame[r].handler = h
    /\ frame[r].own => r \in open /\ reported[r] = 0

(* A run that another thread will end again was closed, which a report of  *)
(* it may show twice.                                                      *)
HandsOK ==
  /\ raced \subseteq Frames
  /\ hands \subseteq Contexts \X Frames
  /\ \A p \in hands :
       /\ frame[p[2]].kind = "run" /\ p[2] \in raced
       /\ frame[p[2]].handler \in 1..MaxFrames /\ p[2] \notin runs[frame[p[2]].handler]

(* Who has still to report the span of f, unless the code lost it.         *)
Pending(f) ==
  \/ frame[f].kind \in {"scope", "invoke"} /\ f \in live
  \/ frame[f].kind = "create" /\ f \in live \cup lost \cup (streams \ finalized)
  \/ frame[f].kind = "run" /\ (f \in runs[frame[f].handler] \/ f \in lost)

ReportOK ==
  \A f \in Frames : frame[f].own =>
    /\ frame[f].kind # "invoke" /\ f \notin raced => reported[f] <= 1
    /\ up => reported[f] >= 1 \/ Pending(f)

(* The depth of a state counts the invocations that share it.              *)
Inside(s) == {f \in live : frame[f].kind = "invoke" /\ frame[f].state = s}

DepthOK ==
  /\ \A c \in Contexts : auto[c] # None => frame[auto[c]].kind = "invoke"
  /\ \A s \in 1..MaxFrames :
       /\ depth[s] = Cardinality(Inside(s))
       /\ Inside(s) = {} => runs[s] \subseteq late

(* Where the order of resets was kept, each span remembers the one around  *)
(* it, and a context that waits for a model call shows the span of it.     *)
Top(c, S) == IF S = {} THEN origin[c] ELSE Max(S)
Outside(c, f) == {g \in Entered(c) : g < f}

NestIn(c) ==
  /\ current[c] = Top(c, Entered(c))
  /\ \A f \in Entered(c) : frame[f].old = Top(c, Outside(c, f))
  /\ \A f \in live : frame[f].kind = "create" /\ frame[f].home = c => f = Max(Entered(c))

NestOK == \A c \in started \ disturbed : NestIn(c)

FrameInv == FrameTypes /\ FramesOK /\ LiveOK /\ NestOK
RunInv == RunTypes /\ RegisteredOK /\ DepthOK
IInv == FrameInv /\ RunInv /\ HandsOK /\ ReportOK

-----------------------------------------------------------------------------
LEMMA Least ==
  ASSUME NEW T \in SUBSET Nat, T # {}
  PROVE  \E n \in T : \A m \in T : n <= m
<1>. DEFINE L == {ss \in Nat \X Nat : ss[1] < ss[2]}
<1>1. IsWellFoundedOn(L, Nat)
  BY NatLessThanWellFounded DEF OpToRel
<1>2. PICK n \in T : \A m \in T : <<m, n>> \notin L
  BY <1>1, WFMin
<1>3. n \in Nat /\ \A m \in T : m \in Nat /\ ~(m < n)
  BY <1>2
<1>. QED BY <1>3

(* Of some frames one is the innermost.                                    *)
LEMMA Innermost ==
  ASSUME NEW n \in Nat, NEW S \in SUBSET (1..n), S # {}
  PROVE  Max(S) \in S /\ \A s \in S : s <= Max(S)
<1>. DEFINE T == {n - s : s \in S}
<1>1. T \in SUBSET Nat /\ T # {}
  <2>1. \A s \in S : n - s \in Nat
    OBVIOUS
  <2>. QED BY <2>1
<1>2. PICK k \in T : \A m \in T : k <= m
  BY <1>1, Least
<1>3. PICK s \in S : k = n - s
  OBVIOUS
<1>4. \A t \in S : s >= t
  <2>. SUFFICES ASSUME NEW t \in S PROVE s >= t
    OBVIOUS
  <2>1. n - s <= n - t
    BY <1>2, <1>3
  <2>. QED BY <2>1
<1>5. Max(S) \in S /\ \A t \in S : Max(S) >= t
  BY <1>4 DEF Max
<1>. QED BY <1>5

LEMMA MaxOfOne ==
  ASSUME NEW x
  PROVE  x \in Nat => Max({x}) = x
BY DEF Max

-----------------------------------------------------------------------------
(* Entering a frame                                                         *)

LEMMA InitInv == Init => IInv
<1>. SUFFICES ASSUME Init PROVE IInv
  OBVIOUS
<1>. USE DEF Init, FramesInit
<1>1. Frames = {} /\ 0 \in Values /\ Ambient \in Values
  BY DEF Frames, Values
<1>2. FrameTypes
  <2>1. current \in [Contexts -> Values]
    BY <1>1 DEF None
  <2>. QED BY <1>1, <2>1, FramesAssumption DEF FrameTypes, None
<1>3. RunTypes
  BY <1>1 DEF RunTypes, None
<1>4. FramesOK /\ LiveOK /\ ReportOK /\ RegisteredOK
  BY <1>1 DEF FramesOK, LiveOK, ReportOK, RegisteredOK
<1>5. DepthOK
  <2>1. \A s : Inside(s) = {}
    BY DEF Inside
  <2>. QED BY <2>1, FS_EmptySet DEF DepthOK
<1>6. NestOK
  <2>1. \A c : Entered(c) = {}
    BY DEF Entered
  <2>. QED BY <2>1 DEF NestOK, NestIn, Top
<1>7. HandsOK
  BY DEF HandsOK
<1>. QED BY <1>2, <1>3, <1>4, <1>5, <1>6, <1>7 DEF IInv, FrameInv, RunInv

(* No step but the exit of an invocation puts a run into other hands, and  *)
(* none registers an old run again.                                        *)
LEMMA HandsKept ==
  ASSUME HandsOK, hands' \subseteq hands, raced' = raced,
         Frames \subseteq Frames', \A f \in Frames : frame'[f] = frame[f],
         \A h \in 1..MaxFrames : \A f \in Frames : f \in runs'[h] => f \in runs[h]
  PROVE  HandsOK'
<1>1. raced' \subseteq Frames' /\ hands' \subseteq Contexts \X Frames'
  BY DEF HandsOK
<1>2. ASSUME NEW p \in hands'
      PROVE  /\ frame'[p[2]].kind = "run" /\ p[2] \in raced'
             /\ frame'[p[2]].handler \in 1..MaxFrames /\ p[2] \notin runs'[frame'[p[2]].handler]
  <2>1. p \in hands /\ p[2] \in Frames /\ frame'[p[2]] = frame[p[2]]
    BY DEF HandsOK
  <2>. QED BY <2>1 DEF HandsOK
<1>. QED BY <1>1, <1>2 DEF HandsOK

(* A frame that is entered gets the next number, and all others stay.       *)
LEMMA NextFrame ==
  ASSUME FrameTypes, NEW c \in Contexts, NEW r \in Frame, NEW cur \in Nat, Push(c, r, cur)
  PROVE  LET n == Len(frame) + 1
         IN  /\ n \in 1..MaxFrames /\ Len(frame') = n /\ Len(reported') = n
             /\ Frames' = Frames \cup {n} /\ n \notin Frames
             /\ Frames \subseteq 1..MaxFrames /\ \A f \in Frames : f < n
             /\ frame' \in Seq(Frame) /\ reported' \in Seq(0..2)
             /\ \A f \in Frames : frame'[f] = frame[f] /\ reported'[f] = reported[f]
             /\ frame'[n] = r /\ reported'[n] = 0
<1>. DEFINE n == Len(frame) + 1
<1>. USE FramesAssumption DEF FrameTypes, Push
<1>1. n \in Nat /\ n \in 1..MaxFrames /\ Len(frame) \in Nat
  OBVIOUS
<1>2. frame' \in Seq(Frame) /\ Len(frame') = n /\ frame'[n] = r /\ \A f \in 1..Len(frame) : frame'[f] = frame[f]
  OBVIOUS
<1>3. /\ reported' \in Seq(0..2) /\ Len(reported') = n /\ reported'[n] = 0
      /\ \A f \in 1..Len(frame) : reported'[f] = reported[f]
  <2>1. reported' = Append(reported, 0) /\ 0 \in 0..2
    OBVIOUS
  <2>. QED BY <2>1
<1>4. Frames' = Frames \cup {n} /\ n \notin Frames /\ Frames \subseteq 1..MaxFrames /\ \A f \in Frames : f < n
  BY <1>1, <1>2 DEF Frames
<1>. QED BY <1>1, <1>2, <1>3, <1>4 DEF Frames

(* What holds of an older frame still does.                                *)
LEMMA EntryKept ==
  ASSUME FrameTypes, FramesOK, FrameTypes', started \subseteq started', Frames \subseteq Frames',
         \A f \in Frames : frame'[f] = frame[f]
  PROVE  \A f \in Frames : EntryOK(f, frame[f])'
<1>. SUFFICES ASSUME NEW f \in Frames PROVE EntryOK(f, frame[f])'
  OBVIOUS
<1>. PICK r : r = frame[f]
  OBVIOUS
<1>1. EntryOK(f, r) /\ frame'[f] = r /\ f \in Nat
  BY DEF FramesOK, Frames
<1>2. Len(frame) \in Nat /\ Len(frame') \in Nat /\ Len(frame) <= Len(frame') /\ Values \subseteq Values' /\ f <= Len(frame)
  <2>1. Len(frame) \in Nat /\ Len(frame') \in Nat /\ f <= Len(frame)
    BY DEF FrameTypes, Frames
  <2>2. Len(frame) <= Len(frame')
    BY <2>1 DEF Frames
  <2>. QED BY <2>1, <2>2 DEF Values
<1>3. \A k \in 0..f : k # None => k \in Frames /\ frame'[k] = frame[k]
  BY <1>1, <1>2 DEF Frames, None
<1>4. ~LogicalLLMActive(r.old) => ~LogicalLLMActive(r.old)'
  <2>1. r.old \in 0..Len(frame) \cup {Ambient}
    BY <1>1 DEF EntryOK, Values
  <2>2. r.old # None /\ r.old # Ambient => r.old \in Frames /\ frame'[r.old] = frame[r.old]
    BY <1>2, <2>1 DEF Frames, None
  <2>3. SpanKind(r.old)' = IF r.old = Ambient THEN "agent" ELSE frame'[r.old].span
    BY <1>1 DEF SpanKind
  <2>. QED BY <1>1, <2>2 DEF LogicalLLMActive, SpanKind
<1>5. /\ r.handler \in 0..f /\ (r.kind = "run" => r.handler # None)
      /\ r.handler # None => frame'[r.handler].kind = "invoke"
      /\ r.kind = "invoke" => r.state \in 1..f /\ frame'[r.state].kind = "invoke" /\ (r.own => r.state = f)
  <2>1. r.kind = "invoke" => r.state \in 0..f /\ r.state # None
    BY <1>1 DEF EntryOK, None
  <2>. QED BY <1>1, <1>3, <2>1 DEF EntryOK
<1>6. EntryOK(f, r)'
  BY <1>1, <1>2, <1>4, <1>5 DEF EntryOK
<1>7. \A x : x = r => EntryOK(f, x)'
  BY <1>6
<1>. QED BY <1>1, <1>7
(* Entering keeps what is said of the frames, if the new one is in order.   *)
LEMMA PushFrame ==
  ASSUME FrameInv, NEW c \in Contexts, NEW r \in Frame, NEW cur \in Values', NEW n, n = Len(frame) + 1,
         Push(c, r, cur), Running(c), r.home = c, r.old = current[c],
         cur = IF r.own THEN n ELSE current[c],
         EntryOK(n, r)'
  PROVE  FrameInv'
<1>n. Len(frame) \in Nat /\ Ambient \in Nat /\ None \in Nat
  BY FramesAssumption DEF FrameInv, FrameTypes, Ambient, None
<1>0. /\ n \in 1..MaxFrames /\ Len(frame') = n /\ Len(reported') = n
      /\ Frames' = Frames \cup {n} /\ n \notin Frames
      /\ Frames \subseteq 1..MaxFrames /\ \A f \in Frames : f < n
      /\ frame' \in Seq(Frame) /\ reported' \in Seq(0..2)
      /\ \A f \in Frames : frame'[f] = frame[f] /\ reported'[f] = reported[f]
      /\ frame'[n] = r /\ reported'[n] = 0
  <2>1. cur \in Nat
    <3>1. current[c] \in Nat
      BY <1>n DEF FrameInv, FrameTypes, Values
    <3>. QED BY <1>n, <3>1
  <2>. QED BY <2>1, NextFrame DEF FrameInv
<1>f. n \in Nat /\ ~(n < n) /\ \A f \in Frames : f \in Nat /\ f < n /\ ~(n < f)
  <2>1. \A f \in Frames : f \in Nat
    BY DEF Frames
  <2>. QED BY <1>0, <2>1
<1>1. /\ live' = live \cup {n}
      /\ open' = IF r.own THEN open \cup {n} ELSE open
      /\ current' = [current EXCEPT ![c] = cur]
      /\ UNCHANGED <<started, base, streams, finalized, up, origin, lost, disturbed>>
  BY DEF Push
<1>2. /\ live \subseteq Frames /\ open \subseteq Frames /\ streams \subseteq Frames
      /\ finalized \subseteq Frames /\ lost \subseteq Frames
      /\ c \in started /\ started \subseteq Contexts /\ current \in [Contexts -> Values]
  BY DEF FrameInv, FrameTypes, Running
<1>3. FrameTypes'
  <2>1. 0..Len(frame) \subseteq 0..Len(frame') /\ Values \subseteq Values'
    BY <1>0, <1>n DEF Values
  <2>2. Len(frame') <= MaxFrames
    BY <1>0
  <2>3. current' \in [Contexts -> Values'] /\ origin' \in [Contexts -> Values']
    BY <1>1, <2>1 DEF FrameInv, FrameTypes
  <2>4. base' \in [Contexts -> 0..Len(frame')]
    BY <1>1, <2>1 DEF FrameInv, FrameTypes
  <2>5. up' \in BOOLEAN
    BY <1>1 DEF FrameInv, FrameTypes
  <2>6. live' \in SUBSET Frames' /\ open' \in SUBSET Frames' /\ streams' \in SUBSET Frames'
        /\ finalized' \in SUBSET Frames' /\ lost' \in SUBSET Frames'
    BY <1>0, <1>1, <1>2
  <2>7. started' \in SUBSET Contexts /\ disturbed' \in SUBSET Contexts
    BY <1>1 DEF FrameInv, FrameTypes
  <2>. QED BY <1>0, <2>2, <2>3, <2>4, <2>5, <2>6, <2>7 DEF FrameTypes
<1>4. FramesOK'
  <2>1. \A f \in Frames : EntryOK(f, frame[f])'
    BY <1>0, <1>1, <1>3, EntryKept DEF FrameInv
  <2>2. EntryOK(n, frame[n])'
    <3>1. \A x : x = r => EntryOK(n, x)'
      OBVIOUS
    <3>. QED BY <1>0, <3>1
  <2>3. ASSUME NEW d \in started', base'[d] # None
        PROVE  frame'[base'[d]].home \in started' \ {d}
    <3>1. base[d] \in Frames /\ frame[base[d]].home \in started \ {d}
      BY <1>1, <1>n, <2>3 DEF FrameInv, FrameTypes, FramesOK, Frames, None
    <3>. QED BY <1>0, <1>1, <3>1
  <2>. QED BY <1>0, <2>1, <2>2, <2>3 DEF FramesOK
<1>5. r.kind \in {"scope", "create"} => r.own
  BY DEF EntryOK
<1>6. LiveOK'
  <2>1. \A f \in open' : frame'[f].own
    BY <1>0, <1>1, <1>2 DEF FrameInv, LiveOK
  <2>2. \A f \in live' : frame'[f].kind \in {"scope", "create"} =>
          f \in open' /\ reported'[f] = 0 /\ f \notin streams'
    BY <1>0, <1>1, <1>2, <1>5 DEF FrameInv, LiveOK
  <2>3. \A f \in Frames' : frame'[f].kind = "invoke" /\ frame'[f].own => (f \in live' <=> f \in open')
    BY <1>0, <1>1, <1>2 DEF FrameInv, LiveOK
  <2>4. \A f \in streams' : f \notin live' /\ frame'[f].kind = "create" /\ (f \notin finalized' => reported'[f] = 0)
    BY <1>0, <1>1, <1>2 DEF FrameInv, LiveOK
  <2>5. finalized' \subseteq streams'
    BY <1>1 DEF FrameInv, LiveOK
  <2>. QED BY <2>1, <2>2, <2>3, <2>4, <2>5 DEF LiveOK
<1>7. /\ \A d : d # c => Entered(d)' = Entered(d)
      /\ Entered(c)' = IF r.own THEN Entered(c) \cup {n} ELSE Entered(c)
      /\ \A d : Entered(d) \subseteq Frames
  <2>1. \A f \in open : f \in Frames /\ f # n /\ frame'[f] = frame[f]
    BY <1>0, <1>2
  <2>2. \A d : Entered(d)' = {f \in open' : frame'[f].home = d}
    BY DEF Entered
  <2>3. frame'[n].home = c
    BY <1>0
  <2>4. \A d : Entered(d) = {f \in open : frame[f].home = d} /\ Entered(d) \subseteq Frames
    BY <1>2 DEF Entered
  <2>. QED BY <1>1, <2>1, <2>2, <2>3, <2>4
<1>8. \A f \in live : frame[f].kind = "create" => frame[f].home # c
  <2>1. \A f \in live : frame[f].kind = "create" => ~frame[f].held
    BY <1>2 DEF FrameInv, FramesOK, EntryOK
  <2>. QED BY <2>1 DEF Running, Plain
<1>9. ASSUME NEW d \in started' \ disturbed'
      PROVE  NestIn(d)'
  <2>1. NestIn(d) /\ d \in Contexts
    BY <1>1, <1>2 DEF FrameInv, NestOK
  <2>2. CASE d # c \/ ~r.own
    <3>1. Entered(d)' = Entered(d) /\ Entered(d) \subseteq Frames
      BY <1>7, <2>2
    <3>2. current'[d] = current[d] /\ origin'[d] = origin[d]
      BY <1>1, <1>2, <2>1, <2>2
    <3>3. \A f \in Entered(d) : f \in Frames /\ frame'[f] = frame[f] /\ Outside(d, f)' = Outside(d, f)
      BY <1>0, <3>1 DEF Outside
    <3>4. \A f \in Entered(d)' : frame'[f].old = Top(d, Outside(d, f))'
      BY <2>1, <3>1, <3>2, <3>3 DEF NestIn, Top
    <3>5. current'[d] = Top(d, Entered(d))'
      BY <2>1, <3>1, <3>2 DEF NestIn, Top
    <3>6. \A f \in live' : frame'[f].kind = "create" /\ frame'[f].home = d => f = Max(Entered(d)')
      <4>1. r.kind = "create" /\ r.home = d => FALSE
        BY <1>5, <2>2
      <4>. QED BY <1>0, <1>1, <1>2, <2>1, <3>1, <4>1 DEF NestIn
    <3>. QED BY <3>4, <3>5, <3>6 DEF NestIn
  <2>3. CASE d = c /\ r.own
    <3>1. Entered(c)' = Entered(c) \cup {n} /\ Entered(c) \subseteq Frames
      BY <1>7, <2>3
    <3>2. Max(Entered(c)') = n
      <4>1. Entered(c)' \subseteq 1..MaxFrames /\ Entered(c)' # {} /\ MaxFrames \in Nat /\ n \in Entered(c)'
        BY <1>0, <3>1, FramesAssumption
      <4>2. PICK S : S = Entered(c)'
        OBVIOUS
      <4>3. Max(S) \in S /\ \A f \in S : f <= Max(S)
        BY <4>1, <4>2, Innermost
      <4>4. \A f \in S : f \in Nat /\ f <= n
        BY <1>0, <3>1, <4>1, <4>2
      <4>5. Max(S) \in Nat /\ Max(S) <= n /\ n <= Max(S)
        BY <4>1, <4>2, <4>3, <4>4
      <4>. QED BY <4>2, <4>5, <1>0
    <3>3. current'[c] = n /\ origin'[c] = origin[c]
      BY <1>1, <1>2, <2>3
    <3>4. current'[c] = Top(c, Entered(c))'
      BY <3>1, <3>2, <3>3 DEF Top
    <3>5. \A f \in Entered(c) : f \in Frames /\ frame'[f] = frame[f] /\ Outside(c, f)' = Outside(c, f)
      <4>1. \A f \in Entered(c) : f \in Frames /\ ~(n < f)
        BY <1>f, <3>1
      <4>2. \A f : Outside(c, f)' = {g \in Entered(c) \cup {n} : g < f}
        BY <3>1 DEF Outside
      <4>3. ASSUME NEW f \in Entered(c) PROVE {g \in Entered(c) \cup {n} : g < f} = {g \in Entered(c) : g < f}
        BY <4>1
      <4>. QED BY <1>0, <4>1, <4>2, <4>3 DEF Outside
    <3>6. Outside(c, n)' = Entered(c)
      <4>1. ~(n < n) /\ \A f \in Entered(c) : f < n
        BY <1>f, <3>1
      <4>2. Outside(c, n)' = {g \in Entered(c) \cup {n} : g < n}
        BY <3>1 DEF Outside
      <4>. QED BY <4>1, <4>2
    <3>7. frame'[n].old = Top(c, Outside(c, n))'
      <4>1. current[c] = Top(c, Entered(c))
        BY <2>1, <2>3 DEF NestIn
      <4>. QED BY <1>0, <3>3, <3>6, <4>1 DEF Top
    <3>8. \A f \in Entered(c) : frame'[f].old = Top(c, Outside(c, f))'
      BY <2>1, <2>3, <3>3, <3>5 DEF NestIn, Top
    <3>9. \A f \in Entered(c)' : frame'[f].old = Top(c, Outside(c, f))'
      BY <3>1, <3>7, <3>8
    <3>10. \A f \in live' : frame'[f].kind = "create" /\ frame'[f].home = c => f = Max(Entered(c)')
      BY <1>0, <1>1, <1>2, <1>8, <3>2
    <3>11. NestIn(c)'
      BY <3>4, <3>9, <3>10 DEF NestIn
    <3>. QED BY <2>3, <3>11
  <2>. QED BY <2>2, <2>3
<1>10. NestOK'
  BY <1>9 DEF NestOK
<1>. QED BY <1>3, <1>4, <1>6, <1>10 DEF FrameInv
(* Code runs in a frame that exists or in none; a task is started from one *)
(* that was entered elsewhere than in the task.                            *)
LEMMA CallersOf ==
  ASSUME FrameInv, NEW c \in started
  PROVE  /\ Callers(c) \subseteq 0..Len(frame)
         /\ Max(Callers(c) \ Held(c)) \in 0..Len(frame)
         /\ Max(Callers(c) \ Held(c)) # None => frame[Max(Callers(c) \ Held(c))].home \in started
<1>1. /\ c \in Contexts /\ Len(frame) \in Nat /\ base[c] \in 0..Len(frame)
      /\ live \subseteq 1..Len(frame)
      /\ base[c] # None => frame[base[c]].home \in started \ {c}
  BY DEF FrameInv, FrameTypes, FramesOK, Frames
<1>2. Plain(c) \subseteq 1..Len(frame) /\ Held(c) \subseteq 1..Len(frame) /\ Plain(c) \cap Held(c) = {}
  BY <1>1 DEF Plain, Held
<1>3. CASE Plain(c) = {}
  <2>1. Callers(c) = {base[c]} \cup Held(c)
    BY <1>3 DEF Callers
  <2>2. base[c] \notin Held(c)
    BY <1>1, <1>2 DEF Held, None
  <2>3. Callers(c) \ Held(c) = {base[c]} /\ base[c] \in Nat
    BY <1>1, <2>1, <2>2
  <2>4. Max(Callers(c) \ Held(c)) = base[c]
    BY <2>3, MaxOfOne
  <2>. QED BY <1>1, <1>2, <2>1, <2>4
<1>4. CASE Plain(c) # {}
  <2>1. Callers(c) = {Max(Plain(c))} \cup Held(c)
    BY <1>4 DEF Callers
  <2>2. Max(Plain(c)) \in Plain(c)
    BY <1>1, <1>2, <1>4, Innermost
  <2>3. Callers(c) \ Held(c) = {Max(Plain(c))} /\ Max(Plain(c)) \in Nat
    BY <1>1, <1>2, <2>1, <2>2
  <2>4. Max(Callers(c) \ Held(c)) = Max(Plain(c))
    BY <2>3, MaxOfOne
  <2>5. frame[Max(Plain(c))].home = c
    BY <2>2 DEF Plain
  <2>. QED BY <1>1, <1>2, <2>1, <2>2, <2>4, <2>5
<1>. QED BY <1>3, <1>4

(* What a frame must be like to be entered next.                           *)
NewOK(n, c, r) ==
  /\ r \in Frame
  /\ r.home = c /\ r.old = current[c] /\ r.parent \in Values /\ r.ctx \in Values \cup {n}
  /\ \/ r.handler = None /\ r.kind # "run"
     \/ r.handler \in Frames /\ frame[r.handler].kind = "invoke"
     \/ r.handler = n /\ r.kind = "invoke"
  /\ \/ r.kind # "invoke" /\ r.state = None
     \/ r.kind = "invoke" /\ r.state \in Frames /\ frame[r.state].kind = "invoke" /\ ~r.own
     \/ r.kind = "invoke" /\ r.state = n
  /\ r.kind = "invoke" /\ r.own => current[c] = None
  /\ r.kind \in {"scope", "create"} => r.own
  /\ r.kind = "create" => ~r.held
  /\ r.own /\ r.span = "llm" /\ r.kind # "scope" => ~LogicalLLMActive(current[c])

LEMMA EnterFrame ==
  ASSUME FrameInv, NEW c \in Contexts, NEW r, NEW cur, NEW n, n = Len(frame) + 1,
         Push(c, r, cur), Running(c), NewOK(n, c, r),
         cur = IF r.own THEN n ELSE current[c]
  PROVE  FrameInv'
<1>1. /\ r \in Frame /\ c \in started /\ current[c] \in Values /\ Len(frame) \in Nat /\ MaxFrames \in Nat
      /\ Len(frame) <= MaxFrames /\ FrameTypes
  BY FramesAssumption DEF NewOK, FrameInv, FrameTypes, Running
<1>2. n \in Nat /\ current[c] \in Nat /\ cur \in Nat
  BY <1>1 DEF Values, Ambient
<1>3. /\ Len(frame') = n /\ Frames' = Frames \cup {n} /\ frame'[n] = r
      /\ \A f \in Frames : f < n /\ frame'[f] = frame[f]
      /\ started' = started
  BY <1>1, <1>2, NextFrame DEF Push
<1>4. Values \subseteq Values' /\ cur \in Values' /\ n \in Values'
  BY <1>1, <1>2, <1>3 DEF Values
<1>5. ~LogicalLLMActive(r.old) => ~LogicalLLMActive(r.old)'
  <2>1. r.old \in Values
    BY <1>1 DEF NewOK
  <2>2. r.old # None /\ r.old # Ambient => frame'[r.old] = frame[r.old]
    BY <1>1, <1>3, <2>1 DEF Frames, Values, None
  <2>. QED BY <2>2 DEF LogicalLLMActive, SpanKind
<1>6. r.handler \in 0..n /\ (r.kind = "run" => r.handler # None) /\ (r.handler # None => frame'[r.handler].kind = "invoke")
  <2>1. CASE r.handler = None /\ r.kind # "run"
    BY <1>2, <2>1 DEF None
  <2>2. CASE r.handler \in Frames /\ frame[r.handler].kind = "invoke"
    BY <1>1, <1>2, <1>3, <2>2 DEF Frames, None
  <2>3. CASE r.handler = n /\ r.kind = "invoke"
    BY <1>1, <1>2, <1>3, <2>3 DEF None
  <2>. QED BY <2>1, <2>2, <2>3 DEF NewOK
<1>7. /\ r.kind = "invoke" => r.state \in 1..n /\ frame'[r.state].kind = "invoke" /\ (r.own => r.state = n)
      /\ r.kind # "invoke" => r.state = None
  <2>1. CASE r.kind # "invoke" /\ r.state = None
    BY <2>1
  <2>2. CASE r.kind = "invoke" /\ r.state \in Frames /\ frame[r.state].kind = "invoke" /\ ~r.own
    BY <1>1, <1>2, <1>3, <2>2 DEF Frames
  <2>3. CASE r.kind = "invoke" /\ r.state = n
    BY <1>1, <1>2, <1>3, <2>3
  <2>. QED BY <2>1, <2>2, <2>3 DEF NewOK
<1>8. EntryOK(n, r)'
  BY <1>1, <1>3, <1>4, <1>5, <1>6, <1>7 DEF NewOK, EntryOK
<1>9. r.home = c /\ r.old = current[c]
  BY DEF NewOK
<1>. QED BY <1>1, <1>4, <1>8, <1>9, PushFrame

(* A span that is entered has still to be reported.                        *)
LEMMA EnterReport ==
  ASSUME IInv, NEW c \in Contexts, NEW r \in Frame, NEW cur \in Nat, NEW n, n = Len(frame) + 1,
         Push(c, r, cur), \A h \in 1..MaxFrames : runs[h] \subseteq runs'[h],
         r.kind = "run" => n \in runs'[r.handler], raced' = raced
  PROVE  ReportOK'
<1>1. FrameTypes /\ FramesOK /\ ReportOK
  BY DEF IInv, FrameInv
<1>2. /\ Frames' = Frames \cup {n} /\ n \notin Frames /\ frame'[n] = r /\ reported'[n] = 0 /\ n \in 1..MaxFrames
      /\ Frames \subseteq 1..MaxFrames
      /\ \A f \in Frames : f < n /\ frame'[f] = frame[f] /\ reported'[f] = reported[f]
  BY <1>1, NextFrame
<1>3. live' = live \cup {n} /\ UNCHANGED <<streams, finalized, up, lost>>
  BY DEF Push
<1>4. Pending(n)'
  <2>1. r.kind \in Kinds
    BY DEF Frame
  <2>. QED BY <1>2, <1>3, <2>1 DEF Pending, Kinds
<1>5. ASSUME NEW f \in Frames, Pending(f) PROVE Pending(f)'
  <2>1. f \in Frames => frame[f].handler \in 0..f /\ (frame[f].kind = "run" => frame[f].handler # None)
    BY <1>1 DEF FramesOK, EntryOK
  <2>2. frame[f].kind = "run" => frame[f].handler \in 1..MaxFrames
    <3>1. f \in Nat /\ f <= MaxFrames /\ MaxFrames \in Nat
      BY <1>2, FramesAssumption DEF Frames
    <3>. QED BY <2>1, <3>1 DEF None
  <2>. QED BY <1>2, <1>3, <1>5, <2>2 DEF Pending
<1>6. reported'[n] <= 1 /\ Pending(n)'
  BY <1>2, <1>4
<1>7. \A f \in Frames : frame'[f].own =>
        /\ frame'[f].kind # "invoke" /\ f \notin raced' => reported'[f] <= 1
        /\ up' => reported'[f] >= 1 \/ Pending(f)'
  <2>. SUFFICES ASSUME NEW f \in Frames, frame'[f].own
                PROVE  /\ frame'[f].kind # "invoke" /\ f \notin raced' => reported'[f] <= 1
                       /\ up' => reported'[f] >= 1 \/ Pending(f)'
    OBVIOUS
  <2>1. /\ frame[f].kind # "invoke" /\ f \notin raced => reported[f] <= 1
        /\ up => reported[f] >= 1 \/ Pending(f)
    BY <1>1, <1>2 DEF ReportOK
  <2>. QED BY <1>2, <1>3, <1>5, <2>1
<1>. QED BY <1>2, <1>6, <1>7, Zenon DEF ReportOK
(* Entering changes neither what is registered nor what shares a state,    *)
(* but for an invocation that shares one.                                  *)
LEMMA EnterRuns ==
  ASSUME IInv, NEW c \in Contexts, NEW r \in Frame, NEW cur \in Nat, NEW n, n = Len(frame) + 1,
         Push(c, r, cur)
  PROVE  /\ \A h \in 1..MaxFrames : \A q \in runs[h] :
              /\ frame'[q].kind = "run" /\ frame'[q].handler = h
              /\ frame'[q].own => q \in open' /\ reported'[q] = 0
         /\ \A s : /\ r.kind = "invoke" /\ r.state = s => Inside(s)' = Inside(s) \cup {n}
                   /\ r.kind # "invoke" \/ r.state # s => Inside(s)' = Inside(s)
                   /\ n \notin Inside(s) /\ IsFiniteSet(Inside(s))
         /\ \A d \in Contexts : auto[d] \in 0..Len(frame') /\ (auto[d] # None => frame'[auto[d]].kind = "invoke")
         /\ runs \in [1..MaxFrames -> SUBSET Frames'] /\ late \in SUBSET Frames'
<1>1. FrameTypes /\ RunTypes /\ RegisteredOK /\ DepthOK
  BY DEF IInv, FrameInv, RunInv
<1>2. /\ Frames' = Frames \cup {n} /\ n \notin Frames /\ frame'[n] = r /\ Len(frame') = n
      /\ \A f \in Frames : frame'[f] = frame[f] /\ reported'[f] = reported[f]
  BY <1>1, NextFrame
<1>3. live' = live \cup {n} /\ open \subseteq open' /\ live \subseteq Frames /\ Len(frame) \in Nat
  BY <1>1 DEF Push, FrameTypes
<1>4. ASSUME NEW h \in 1..MaxFrames, NEW q \in runs[h]
      PROVE  /\ frame'[q].kind = "run" /\ frame'[q].handler = h
             /\ frame'[q].own => q \in open' /\ reported'[q] = 0
  <2>1. q \in Frames
    BY <1>1 DEF RunTypes
  <2>. QED BY <1>1, <1>2, <1>3, <2>1 DEF RegisteredOK
<1>5. ASSUME NEW s
      PROVE  /\ r.kind = "invoke" /\ r.state = s => Inside(s)' = Inside(s) \cup {n}
             /\ r.kind # "invoke" \/ r.state # s => Inside(s)' = Inside(s)
             /\ n \notin Inside(s) /\ IsFiniteSet(Inside(s))
  <2>1. Inside(s)' = {f \in live \cup {n} : frame'[f].kind = "invoke" /\ frame'[f].state = s}
    BY <1>3 DEF Inside
  <2>2. \A f \in live : f # n /\ frame'[f] = frame[f]
    BY <1>2, <1>3
  <2>3. IsFiniteSet(Inside(s))
    <3>1. Inside(s) \subseteq 1..Len(frame)
      BY <1>3 DEF Inside, Frames
    <3>2. IsFiniteSet(1..Len(frame))
      BY <1>3, FS_Interval
    <3>. QED BY <3>1, <3>2, FS_Subset
  <2>. QED BY <1>2, <2>1, <2>2, <2>3 DEF Inside
<1>6. ASSUME NEW d \in Contexts
      PROVE  auto[d] \in 0..Len(frame') /\ (auto[d] # None => frame'[auto[d]].kind = "invoke")
  <2>1. auto[d] \in 0..Len(frame)
    BY <1>1 DEF RunTypes
  <2>2. auto[d] # None => auto[d] \in Frames
    BY <1>3, <2>1 DEF Frames, None
  <2>. QED BY <1>1, <1>2, <1>3, <2>1, <2>2 DEF DepthOK
<1>7. runs \in [1..MaxFrames -> SUBSET Frames'] /\ late \in SUBSET Frames'
  BY <1>1, <1>2 DEF RunTypes
<1>. QED BY <1>4, <1>5, <1>6, <1>7

LEMMA EnterHands ==
  ASSUME IInv, NEW c \in Contexts, NEW r \in Frame, NEW cur \in Nat, NEW n, n = Len(frame) + 1,
         Push(c, r, cur), UNCHANGED <<hands, raced>>,
         \A h \in 1..MaxFrames : runs'[h] \subseteq runs[h] \cup {n}
  PROVE  HandsOK'
<1>1. FrameTypes /\ HandsOK
  BY DEF IInv, FrameInv
<1>2. Frames \subseteq Frames' /\ n \notin Frames /\ \A f \in Frames : frame'[f] = frame[f]
  BY <1>1, NextFrame
<1>3. \A h \in 1..MaxFrames : \A f \in Frames : f \in runs'[h] => f \in runs[h]
  BY <1>2
<1>. QED BY <1>1, <1>2, <1>3, HandsKept

(* The middleware and the patched client enter frames that LangChain does  *)
(* not know of.                                                            *)
LEMMA EnterScopeRuns ==
  ASSUME IInv, NEW c \in Contexts, NEW r \in Frame, NEW cur \in Nat, NEW n, n = Len(frame) + 1,
         Push(c, r, cur), r.kind \in {"scope", "create"}, UNCHANGED <<auto, depth, runs, late, hands, raced>>
  PROVE  RunInv' /\ ReportOK' /\ HandsOK'
<1>1. RunTypes /\ RegisteredOK /\ DepthOK
  BY DEF IInv, RunInv
<1>2. RunTypes'
  <2>1. auto' \in [Contexts -> 0..Len(frame')]
    BY <1>1, EnterRuns DEF RunTypes
  <2>. QED BY <1>1, <2>1, EnterRuns DEF RunTypes
<1>3. RegisteredOK'
  BY EnterRuns DEF RegisteredOK
<1>4. DepthOK'
  <2>1. \A s : Inside(s)' = Inside(s)
    BY EnterRuns
  <2>2. \A d \in Contexts : auto'[d] # None => frame'[auto'[d]].kind = "invoke"
    BY EnterRuns
  <2>. QED BY <1>1, <2>1, <2>2 DEF DepthOK
<1>5. ReportOK'
  BY EnterReport
<1>6. HandsOK'
  BY EnterHands
<1>. QED BY <1>2, <1>3, <1>4, <1>5, <1>6 DEF RunInv
-----------------------------------------------------------------------------
(* The actions that enter a frame                                           *)

(* A frame that passes its caller's handler on.                             *)
LEMMA NewFrameOK ==
  ASSUME FrameInv, NEW c \in Contexts, Running(c), NEW k \in Callers(c),
         NEW kind \in Kinds, NEW span \in {"tool", "llm", "agent", "none"},
         NEW r, r = NewFrame(c, kind, span, k)
  PROVE  /\ r \in Frame
         /\ r.kind = kind /\ r.span = span /\ r.home = c /\ r.old = current[c]
         /\ r.parent \in Values /\ r.own /\ ~r.held /\ r.state = None
         /\ r.handler = None \/ (r.handler \in Frames /\ frame[r.handler].kind = "invoke")
         /\ r.handler = IF k = None THEN None ELSE frame[k].handler
         /\ r.ctx = Len(frame) + 1
<1>1. /\ c \in started /\ Len(frame) \in Nat /\ current[c] \in Values /\ Values \subseteq Nat
      /\ None \in Nat
  BY FramesAssumption DEF FrameInv, FrameTypes, Running, Values, Ambient, None
<1>2. k \in 0..Len(frame)
  BY <1>1, CallersOf
<1>3. k # None => k \in Frames /\ k <= Len(frame) /\ frame[k].handler \in 0..k
                  /\ (frame[k].handler # None => frame[frame[k].handler].kind = "invoke")
  <2>1. k # None => k \in Frames
    BY <1>1, <1>2 DEF Frames, None
  <2>. QED BY <1>1, <1>2, <2>1 DEF FrameInv, FramesOK, EntryOK
<1>4. PICK h : h = IF k = None THEN None ELSE frame[k].handler
  OBVIOUS
<1>5. h \in Nat /\ (h = None \/ (h \in Frames /\ frame[h].kind = "invoke"))
  BY <1>1, <1>2, <1>3, <1>4 DEF Frames, None
<1>6. r = [kind |-> kind, span |-> span, home |-> c, caller |-> k, held |-> FALSE, own |-> TRUE,
           parent |-> current[c], ctx |-> Len(frame) + 1, old |-> current[c], state |-> None, handler |-> h]
  BY <1>4 DEF NewFrame
<1>7. r \in Frame
  <2>1. k \in Nat /\ Len(frame) + 1 \in Nat
    BY <1>1, <1>2
  <2>4. current[c] \in Nat
    BY <1>1
  <2>2. TRUE \in BOOLEAN /\ FALSE \in BOOLEAN
    OBVIOUS
  <2>3. h \in Nat /\ None \in Nat
    BY <1>1, <1>5
  <2>. QED BY <1>6, <2>1, <2>2, <2>3, <2>4 DEF Frame
<1>. QED BY <1>1, <1>4, <1>5, <1>6, <1>7

LEMMA EnterScopeStep ==
  ASSUME IInv, NEW c \in Contexts, NEW span \in {"tool", "llm"}, EnterScope(c, span),
         UNCHANGED <<auto, depth, runs, late, hands, raced>>
  PROVE  IInv'
<1>1. PICK k \in Callers(c) : Push(c, NewFrame(c, "scope", span, k), Len(frame) + 1)
  BY DEF EnterScope
<1>. PICK n : n = Len(frame) + 1
  OBVIOUS
<1>. PICK r : r = NewFrame(c, "scope", span, k)
  OBVIOUS
<1>2. Running(c) /\ FrameInv /\ n \in Nat
  BY DEF EnterScope, IInv, FrameInv, FrameTypes
<1>3. /\ r \in Frame /\ r.kind = "scope" /\ r.home = c /\ r.old = current[c] /\ r.parent \in Values /\ r.ctx = n
      /\ r.own /\ r.state = None
      /\ r.handler = None \/ (r.handler \in Frames /\ frame[r.handler].kind = "invoke")
  <2>1. "scope" \in Kinds /\ "create" \in Kinds
    BY DEF Kinds
  <2>2. r \in Frame /\ r.ctx = Len(frame) + 1
    BY <1>2, <2>1, NewFrameOK
  <2>. QED BY <1>2, <2>1, <2>2, NewFrameOK
<1>4. Push(c, r, n)
  BY <1>1
<1>5. NewOK(n, c, r)
  BY <1>3 DEF NewOK
<1>6. FrameInv'
  BY <1>2, <1>3, <1>4, <1>5, EnterFrame
<1>7. RunInv' /\ ReportOK' /\ HandsOK'
  BY <1>2, <1>3, <1>4, EnterScopeRuns
<1>. QED BY <1>6, <1>7 DEF IInv

LEMMA CreateStep ==
  ASSUME IInv, NEW c \in Contexts, Create(c), UNCHANGED <<auto, depth, runs, late, hands, raced>>
  PROVE  IInv'
<1>1. PICK k \in Callers(c) : Push(c, NewFrame(c, "create", "llm", k), Len(frame) + 1)
  BY DEF Create
<1>. PICK n : n = Len(frame) + 1
  OBVIOUS
<1>. PICK r : r = NewFrame(c, "create", "llm", k)
  OBVIOUS
<1>2. Running(c) /\ FrameInv /\ n \in Nat /\ ~LogicalLLMActive(current[c])
  BY DEF Create, IInv, FrameInv, FrameTypes
<1>3. /\ r \in Frame /\ r.kind = "create" /\ r.home = c /\ r.old = current[c] /\ r.parent \in Values /\ r.ctx = n
      /\ r.own /\ ~r.held /\ r.state = None
      /\ r.handler = None \/ (r.handler \in Frames /\ frame[r.handler].kind = "invoke")
  <2>1. "scope" \in Kinds /\ "create" \in Kinds
    BY DEF Kinds
  <2>2. r \in Frame /\ r.ctx = Len(frame) + 1
    BY <1>2, <2>1, NewFrameOK
  <2>. QED BY <1>2, <2>1, <2>2, NewFrameOK
<1>4. Push(c, r, n)
  BY <1>1
<1>5. NewOK(n, c, r)
  BY <1>2, <1>3 DEF NewOK
<1>6. FrameInv'
  BY <1>2, <1>3, <1>4, <1>5, EnterFrame
<1>7. RunInv' /\ ReportOK' /\ HandsOK'
  BY <1>2, <1>3, <1>4, EnterScopeRuns
<1>. QED BY <1>6, <1>7 DEF IInv
LEMMA RunFrame ==
  ASSUME NEW e \in Frame, NEW a \in BOOLEAN, NEW b \in BOOLEAN, NEW x \in Nat, NEW y \in Nat
  PROVE  [e EXCEPT !.held = a, !.own = b, !.ctx = x, !.parent = y] \in Frame
BY DEF Frame

LEMMA InvokeFrame ==
  ASSUME NEW e \in Frame, NEW a \in BOOLEAN, NEW b \in BOOLEAN, NEW x \in Nat, NEW y \in Nat
  PROVE  [e EXCEPT !.held = a, !.own = b, !.state = x, !.handler = y] \in Frame
BY DEF Frame

(* A run is registered with its handler, and is late when no invocation    *)
(* has this handler any more.                                              *)
LEMMA RunEntered ==
  ASSUME IInv, NEW c \in Contexts, NEW r \in Frame, NEW cur \in Nat, NEW n, n = Len(frame) + 1,
         Push(c, r, cur), NEW h \in 1..MaxFrames, r.kind = "run", r.handler = h,
         runs' = [runs EXCEPT ![h] = @ \cup {n}],
         late' = IF \E f \in live : frame[f].kind = "invoke" /\ frame[f].state = h THEN late ELSE late \cup {n},
         UNCHANGED <<auto, depth, hands, raced>>
  PROVE  RunInv' /\ ReportOK' /\ HandsOK'
<1>1. RunTypes /\ RegisteredOK /\ DepthOK /\ FrameTypes
  BY DEF IInv, RunInv, FrameInv
<1>2. Frames' = Frames \cup {n} /\ frame'[n] = r /\ reported'[n] = 0
  BY <1>1, NextFrame
<1>3. r.own => n \in open'
  BY DEF Push
<1>4. runs \in [1..MaxFrames -> SUBSET Frames] /\ runs \in [1..MaxFrames -> SUBSET Frames'] /\ late \in SUBSET Frames'
  BY <1>1, <1>2 DEF RunTypes
<1>5. /\ \A g \in 1..MaxFrames : runs'[g] = IF g = h THEN runs[g] \cup {n} ELSE runs[g]
      /\ runs' \in [1..MaxFrames -> SUBSET Frames']
  <2>1. n \in Frames'
    BY <1>2
  <2>. QED BY <1>4, <2>1
<1>6. ReportOK'
  <2>1. \A g \in 1..MaxFrames : runs[g] \subseteq runs'[g]
    BY <1>5
  <2>2. n \in runs'[r.handler]
    BY <1>5
  <2>. QED BY <2>1, <2>2, EnterReport
<1>7. \A g \in 1..MaxFrames : \A q \in runs[g] :
        /\ frame'[q].kind = "run" /\ frame'[q].handler = g
        /\ frame'[q].own => q \in open' /\ reported'[q] = 0
  BY EnterRuns
<1>8. \A s : Inside(s)' = Inside(s)
  <2>1. r.kind # "invoke"
    OBVIOUS
  <2>. QED BY <2>1, EnterRuns
<1>9. \A d \in Contexts : auto[d] \in 0..Len(frame') /\ (auto[d] # None => frame'[auto[d]].kind = "invoke")
  BY EnterRuns
<1>10. RegisteredOK'
  <2>1. /\ frame'[n].kind = "run" /\ frame'[n].handler = h
        /\ frame'[n].own => n \in open' /\ reported'[n] = 0
    BY <1>2, <1>3
  <2>2. \A g \in 1..MaxFrames : \A q \in runs'[g] : q \in runs[g] \/ (g = h /\ q = n)
    BY <1>5
  <2>. QED BY <1>7, <2>1, <2>2 DEF RegisteredOK
<1>11. RunTypes'
  <2>1. late' \in SUBSET Frames'
    BY <1>2, <1>4
  <2>2. auto' \in [Contexts -> 0..Len(frame')]
    BY <1>1, <1>9 DEF RunTypes
  <2>. QED BY <1>1, <1>5, <2>1, <2>2 DEF RunTypes
<1>12. DepthOK'
  <2>1. Inside(h) = {} => n \in late'
    BY DEF Inside
  <2>2. late \subseteq late'
    OBVIOUS
  <2>3. ASSUME NEW s \in 1..MaxFrames
        PROVE  depth'[s] = Cardinality(Inside(s)') /\ (Inside(s)' = {} => runs'[s] \subseteq late')
    BY <1>1, <1>5, <1>8, <2>1, <2>2 DEF DepthOK
  <2>. QED BY <1>9, <2>3 DEF DepthOK
<1>13. HandsOK'
  <2>1. \A g \in 1..MaxFrames : runs'[g] \subseteq runs[g] \cup {n}
    BY <1>5
  <2>. QED BY <2>1, EnterHands
<1>. QED BY <1>6, <1>10, <1>11, <1>12, <1>13 DEF RunInv

LEMMA StartRunStep ==
  ASSUME IInv, NEW c \in Contexts, NEW k \in Callers(c) \ {None}, NEW kind \in {"llm", "none", "tool"},
         StartRun(c, kind, k)
  PROVE  IInv'
<1>n. PICK n : n = Len(frame) + 1
  OBVIOUS
<1>h. PICK h : h = frame[k].handler
  OBVIOUS
<1>q. PICK parent : parent = FindParentContext(c, h, k)
  OBVIOUS
<1>e. PICK e : e = NewFrame(c, "run", kind, k)
  OBVIOUS
<1>o. PICK own : own = ~Virtual(c, kind)
  OBVIOUS
<1>d. PICK held : held = (frame[k].held /\ frame[k].home = c)
  OBVIOUS
<1>x. PICK x : x = IF ~Virtual(c, kind) THEN n ELSE IF kind = "none" THEN parent ELSE current[c]
  OBVIOUS
<1>y. PICK y : y = IF kind = "llm" THEN parent ELSE current[c]
  OBVIOUS
<1>z. PICK cur : cur = IF ~Virtual(c, kind) THEN n ELSE current[c]
  OBVIOUS
<1>0. FrameInv /\ RunInv /\ n \in Nat /\ Values \subseteq Nat
  BY <1>n, FramesAssumption DEF IInv, FrameInv, FrameTypes, Values, Ambient
<1>1. /\ Running(c) /\ h # None /\ current[c] # None /\ up
      /\ Push(c, [e EXCEPT !.held = held, !.own = own, !.ctx = x, !.parent = y], cur)
      /\ runs' = [runs EXCEPT ![h] = @ \cup {n}]
      /\ late' = IF \E f \in live : frame[f].kind = "invoke" /\ frame[f].state = h THEN late ELSE late \cup {n}
      /\ UNCHANGED <<auto, depth, hands, raced>>
  BY <1>n, <1>h, <1>q, <1>e, <1>o, <1>d, <1>x, <1>y, <1>z DEF StartRun
<1>2. current[c] \in Values
  BY <1>0 DEF FrameInv, FrameTypes
<1>3. h \in 1..MaxFrames
  <2>1. c \in started /\ Len(frame) \in Nat
    BY <1>0, <1>1 DEF Running, FrameInv, FrameTypes
  <2>2. k \in 0..Len(frame)
    BY <1>0, <2>1, CallersOf
  <2>3. k \in Frames
    BY <2>1, <2>2 DEF Frames, None
  <2>4. h \in 0..k /\ k <= MaxFrames /\ k \in Nat
    <3>1. EntryOK(k, frame[k])
      BY <1>0, <2>3 DEF FrameInv, FramesOK
    <3>2. h \in 0..k
      BY <1>h, <3>1 DEF EntryOK
    <3>. QED BY <1>0, <2>3, <3>2, FramesAssumption DEF FrameInv, FrameTypes, Frames
  <2>. QED BY <1>1, <2>4, FramesAssumption DEF None
<1>4. parent \in Values
  <2>1. \A q \in runs[h] : q \in Frames /\ frame[q].ctx \in Values
    BY <1>0, <1>3 DEF RunInv, RunTypes, FrameInv, FramesOK, EntryOK
  <2>. QED BY <1>2, <1>q, <2>1 DEF FindParentContext
<1>5. /\ e \in Frame /\ e.kind = "run" /\ e.span = kind /\ e.home = c /\ e.old = current[c] /\ e.state = None
      /\ e.handler = None \/ (e.handler \in Frames /\ frame[e.handler].kind = "invoke")
      /\ e.handler = h
  <2>1. "run" \in Kinds /\ kind \in {"tool", "llm", "agent", "none"}
    BY DEF Kinds
  <2>2. e \in Frame
    BY <1>0, <1>1, <1>e, <2>1, NewFrameOK
  <2>3. e.handler = h
    BY <1>0, <1>1, <1>e, <1>h, <2>1, NewFrameOK
  <2>. QED BY <1>0, <1>1, <1>e, <2>1, <2>2, <2>3, NewFrameOK
<1>6. x \in Nat /\ y \in Nat /\ x \in Values \cup {n} /\ y \in Values /\ cur \in Nat
  BY <1>0, <1>2, <1>4, <1>x, <1>y, <1>z
<1>7. own \in BOOLEAN /\ held \in BOOLEAN
  BY <1>o, <1>d
<1>8. [e EXCEPT !.held = held, !.own = own, !.ctx = x, !.parent = y] \in Frame
  BY <1>5, <1>6, <1>7, RunFrame
<1>9. PICK r \in Frame : r = [e EXCEPT !.held = held, !.own = own, !.ctx = x, !.parent = y]
  BY <1>8
<1>10. /\ r.kind = "run" /\ r.span = kind /\ r.home = c /\ r.old = current[c] /\ r.state = None
       /\ r.handler = h /\ r.ctx = x /\ r.parent = y
  BY <1>5, <1>9 DEF Frame
<1>11. r.own = own
  BY <1>5, <1>9 DEF Frame
<1>12. h \in Frames /\ frame[h].kind = "invoke"
  BY <1>1, <1>5
<1>13. own <=> ~Virtual(c, kind)
  BY <1>o
<1>14. r.own /\ kind = "llm" => ~LogicalLLMActive(current[c])
  BY <1>11, <1>13 DEF Virtual, LogicalLLMActive
<1>15. NewOK(n, c, r)
  BY <1>6, <1>9, <1>10, <1>12, <1>14 DEF NewOK
<1>16. cur = IF r.own THEN n ELSE current[c]
  BY <1>11, <1>13, <1>z
<1>17. Push(c, r, cur)
  BY <1>1, <1>9
<1>18. FrameInv'
  BY <1>0, <1>1, <1>n, <1>15, <1>16, <1>17, EnterFrame
<1>19. RunInv' /\ ReportOK' /\ HandsOK'
  BY <1>1, <1>3, <1>6, <1>9, <1>10, <1>17, <1>n, RunEntered
<1>. QED BY <1>18, <1>19 DEF IInv
(* An invocation is one more that shares its state.                        *)
LEMMA InvokeEntered ==
  ASSUME IInv, NEW c \in Contexts, NEW r \in Frame, NEW cur \in Nat, NEW n, n = Len(frame) + 1,
         Push(c, r, cur), r.kind = "invoke", NEW s, r.state = s,
         s = n \/ (s \in Frames /\ frame[s].kind = "invoke"),
         depth' = Deeper(s), auto' = [auto EXCEPT ![c] = s], UNCHANGED <<runs, late, hands, raced>>
  PROVE  RunInv' /\ ReportOK' /\ HandsOK'
<1>1. RunTypes /\ DepthOK /\ FrameTypes
  BY DEF IInv, RunInv, FrameInv
<1>2. /\ Frames' = Frames \cup {n} /\ Frames \subseteq 1..MaxFrames /\ n \in 1..MaxFrames
      /\ Len(frame') = n /\ frame'[n] = r /\ \A f \in Frames : f < n /\ frame'[f] = frame[f]
  BY <1>1, NextFrame
<1>3. s \in 1..MaxFrames /\ s \in 0..n /\ frame'[s].kind = "invoke"
  <2>1. \A f \in Frames : f \in 1..MaxFrames /\ f \in 0..n
    BY <1>2
  <2>2. n \in 1..MaxFrames /\ n \in 0..n /\ frame'[n].kind = "invoke"
    BY <1>2
  <2>3. s \in Frames => s \in 1..MaxFrames /\ s \in 0..n /\ frame'[s] = frame[s]
    BY <1>2, <2>1
  <2>. QED BY <2>2, <2>3
<1>4. ReportOK'
  <2>1. \A h \in 1..MaxFrames : runs[h] \subseteq runs'[h]
    OBVIOUS
  <2>. QED BY <2>1, EnterReport
<1>5. RegisteredOK'
  BY EnterRuns DEF RegisteredOK
<1>6. \A d \in Contexts : auto[d] \in 0..Len(frame') /\ (auto[d] # None => frame'[auto[d]].kind = "invoke")
  BY EnterRuns
<1>7. /\ auto' \in [Contexts -> 0..Len(frame')]
      /\ \A d \in Contexts : auto'[d] # None => frame'[auto'[d]].kind = "invoke"
  BY <1>1, <1>2, <1>3, <1>6 DEF RunTypes
<1>8. depth' \in [1..MaxFrames -> Int] /\ \A g \in 1..MaxFrames : depth'[g] = IF g = s THEN depth[g] + 1 ELSE depth[g]
  BY <1>1, <1>3 DEF RunTypes, Deeper
<1>9. RunTypes'
  <2>1. runs \in [1..MaxFrames -> SUBSET Frames'] /\ late \in SUBSET Frames'
    BY EnterRuns
  <2>. QED BY <1>7, <1>8, <2>1 DEF RunTypes
<1>10. ASSUME NEW g \in 1..MaxFrames
       PROVE  depth'[g] = Cardinality(Inside(g)') /\ (Inside(g)' = {} => runs'[g] \subseteq late')
  <2>1. depth[g] = Cardinality(Inside(g)) /\ (Inside(g) = {} => runs[g] \subseteq late)
    BY <1>1 DEF DepthOK
  <2>2. n \notin Inside(g) /\ IsFiniteSet(Inside(g))
    BY EnterRuns
  <2>3. CASE g = s
    <3>1. Inside(g)' = Inside(g) \cup {n}
      BY <2>3, EnterRuns
    <3>2. Cardinality(Inside(g) \cup {n}) = Cardinality(Inside(g)) + 1
      BY <2>2, FS_AddElement
    <3>. QED BY <1>8, <2>1, <2>3, <3>1, <3>2
  <2>4. CASE g # s
    <3>1. Inside(g)' = Inside(g)
      BY <2>4, EnterRuns
    <3>. QED BY <1>8, <2>1, <2>4, <3>1
  <2>. QED BY <2>3, <2>4
<1>11. DepthOK'
  BY <1>7, <1>10 DEF DepthOK
<1>12. HandsOK'
  BY EnterHands
<1>. QED BY <1>4, <1>5, <1>9, <1>11, <1>12 DEF RunInv

LEMMA InvokeStep ==
  ASSUME IInv, NEW c \in Contexts, NEW held \in BOOLEAN, Invoke(c, held)
  PROVE  IInv'
<1>n. PICK n : n = Len(frame) + 1
  OBVIOUS
<1>s. PICK s : s = IF auto[c] # None THEN auto[c] ELSE n
  OBVIOUS
<1>o. PICK root : root = (auto[c] = None /\ current[c] = None)
  OBVIOUS
<1>p. PICK span : span = IF auto[c] = None /\ current[c] = None THEN "agent" ELSE "none"
  OBVIOUS
<1>z. PICK cur : cur = IF auto[c] = None /\ current[c] = None THEN n ELSE current[c]
  OBVIOUS
<1>k. PICK k \in Callers(c) :
        Push(c, [NewFrame(c, "invoke", span, k) EXCEPT
                   !.held = held, !.own = root, !.state = s, !.handler = IF @ = None THEN s ELSE @], cur)
  BY <1>n, <1>s, <1>o, <1>p, <1>z DEF Invoke
<1>e. PICK e : e = NewFrame(c, "invoke", span, k)
  OBVIOUS
<1>y. PICK y : y = IF e.handler = None THEN s ELSE e.handler
  OBVIOUS
<1>0. FrameInv /\ RunInv /\ n \in Nat /\ Values \subseteq Nat
  BY <1>n, FramesAssumption DEF IInv, FrameInv, FrameTypes, Values, Ambient
<1>1. Running(c) /\ depth' = Deeper(s) /\ auto' = [auto EXCEPT ![c] = s] /\ UNCHANGED <<runs, late, hands, raced>>
  BY <1>n, <1>s DEF Invoke
<1>2. current[c] \in Values /\ span \in {"tool", "llm", "agent", "none"}
  BY <1>0, <1>p DEF FrameInv, FrameTypes
<1>3. /\ s = n \/ (s \in Frames /\ frame[s].kind = "invoke" /\ auto[c] # None)
      /\ s \in Nat
  <2>1. auto[c] \in 0..Len(frame) /\ Len(frame) \in Nat
    BY <1>0 DEF RunInv, RunTypes, FrameInv, FrameTypes
  <2>2. auto[c] # None => auto[c] \in Frames /\ frame[auto[c]].kind = "invoke"
    BY <1>0, <2>1 DEF RunInv, DepthOK, Frames, None
  <2>. QED BY <1>0, <1>s, <2>1, <2>2
<1>5. /\ e \in Frame /\ e.kind = "invoke" /\ e.span = span /\ e.home = c /\ e.old = current[c]
      /\ e.handler = None \/ (e.handler \in Frames /\ frame[e.handler].kind = "invoke")
      /\ e.parent \in Values /\ e.ctx = n
  <2>1. "invoke" \in Kinds
    BY DEF Kinds
  <2>2. e \in Frame
    BY <1>0, <1>1, <1>2, <1>e, <2>1, NewFrameOK
  <2>3. e.ctx = n
    BY <1>0, <1>1, <1>2, <1>e, <1>n, <2>1, NewFrameOK
  <2>. QED BY <1>0, <1>1, <1>2, <1>e, <2>1, <2>2, <2>3, NewFrameOK
<1>6. y \in Nat /\ cur \in Nat
  <2>1. e.handler \in Nat
    BY <1>5 DEF Frame
  <2>. QED BY <1>0, <1>2, <1>3, <1>y, <1>z, <2>1
<1>7. root \in BOOLEAN
  BY <1>o
<1>8. [e EXCEPT !.held = held, !.own = root, !.state = s, !.handler = y] \in Frame
  BY <1>3, <1>5, <1>6, <1>7, InvokeFrame
<1>9. PICK r \in Frame : r = [e EXCEPT !.held = held, !.own = root, !.state = s, !.handler = y]
  BY <1>8
<1>10. /\ r.kind = "invoke" /\ r.span = span /\ r.home = c /\ r.old = current[c] /\ r.state = s
       /\ r.handler = y /\ r.ctx = n /\ r.parent \in Values
  BY <1>5, <1>9 DEF Frame
<1>11. r.own = root
  BY <1>5, <1>9 DEF Frame
<1>13. root <=> (auto[c] = None /\ current[c] = None)
  BY <1>o
<1>14. r.span # "llm"
  BY <1>10, <1>p
<1>15. NewOK(n, c, r)
  <2>1. r.own => s = n
    BY <1>3, <1>11, <1>13
  <2>2. y = n \/ (y \in Frames /\ frame[y].kind = "invoke")
    BY <1>3, <1>5, <1>y
  <2>3. r.own => current[c] = None
    BY <1>11, <1>13
  <2>. QED BY <1>3, <1>9, <1>10, <1>14, <2>1, <2>2, <2>3 DEF NewOK
<1>16. cur = IF r.own THEN n ELSE current[c]
  BY <1>11, <1>13, <1>z
<1>17. Push(c, r, cur)
  <2>1. r = [NewFrame(c, "invoke", span, k) EXCEPT
               !.held = held, !.own = root, !.state = s, !.handler = IF @ = None THEN s ELSE @]
    BY <1>9, <1>e, <1>y
  <2>. QED BY <1>k, <2>1
<1>18. FrameInv'
  BY <1>0, <1>1, <1>n, <1>15, <1>16, <1>17, EnterFrame
<1>19. RunInv' /\ ReportOK' /\ HandsOK'
  <2>1. s = n \/ (s \in Frames /\ frame[s].kind = "invoke")
    BY <1>3
  <2>2. r \in Frame /\ cur \in Nat /\ r.kind = "invoke" /\ r.state = s
    BY <1>6, <1>10
  <2>. QED BY <1>1, <1>n, <1>17, <2>1, <2>2, InvokeEntered
<1>. QED BY <1>18, <1>19 DEF IInv
-----------------------------------------------------------------------------
(* Leaving a frame                                                          *)

LEMMA SameFrames ==
  ASSUME FrameTypes, FramesOK, UNCHANGED <<frame, started, base>>
  PROVE  FramesOK' /\ Values' = Values /\ Frames' = Frames
<1>1. Values' = Values /\ Frames' = Frames
  BY DEF Values, Frames
<1>2. \A s : LogicalLLMActive(s)' <=> LogicalLLMActive(s)
  BY DEF LogicalLLMActive, SpanKind
<1>3. ASSUME NEW f \in Frames PROVE EntryOK(f, frame[f])'
  <2>r. PICK r : r = frame[f]
    OBVIOUS
  <2>1. EntryOK(f, r)
    BY <2>r DEF FramesOK
  <2>2. EntryOK(f, r)'
    BY <1>1, <1>2, <2>1 DEF EntryOK
  <2>3. \A x : x = r => EntryOK(f, x)'
    BY <2>2
  <2>. QED BY <2>r, <2>3
<1>4. \A d \in started : base[d] # None => frame[base[d]].home \in started \ {d}
  BY DEF FramesOK
<1>. QED BY <1>1, <1>3, <1>4 DEF FramesOK

(* Nothing of a running context waits for a model call.                    *)
LEMMA NoCreateRunning ==
  ASSUME FrameInv, NEW c, Running(c)
  PROVE  \A f \in live : frame[f].kind = "create" => frame[f].home # c
<1>1. \A f \in live : frame[f].kind = "create" => ~frame[f].held
  BY DEF FrameInv, FrameTypes, FramesOK, EntryOK
<1>. QED BY <1>1 DEF Running, Plain

(* A context keeps its order if nothing of it is left, if its innermost    *)
(* span is left and reset, or if it is left as it was at its start.        *)
NoCreateLeft(d) == \A f \in live' : frame[f].kind = "create" => frame[f].home # d

Leaves(d) ==
  \/ d \notin disturbed /\ current'[d] = current[d] /\ Entered(d)' = Entered(d)
  \/ /\ d \notin disturbed
     /\ Entered(d) # {}
     /\ current'[d] = frame[Max(Entered(d))].old
     /\ Entered(d)' = Entered(d) \ {Max(Entered(d))}
     /\ NoCreateLeft(d)
  \/ current'[d] = origin[d] /\ Entered(d)' = {} /\ NoCreateLeft(d)

LEMMA EnteredFrames ==
  ASSUME FrameInv, NEW d
  PROVE  Entered(d) \subseteq 1..Len(frame) /\ Len(frame) \in Nat
<1>1. open \subseteq 1..Len(frame) /\ Len(frame) \in Nat
  BY DEF FrameInv, FrameTypes, Frames
<1>. QED BY <1>1 DEF Entered

LEMMA NestLeave ==
  ASSUME FrameInv, UNCHANGED <<frame, origin, started>>, live' \subseteq live,
         \A d \in started \ disturbed' : Leaves(d)
  PROVE  NestOK'
<1>. SUFFICES ASSUME NEW d \in started \ disturbed' PROVE NestIn(d)'
  BY DEF NestOK
<1>1. d \notin disturbed => NestIn(d)
  BY DEF FrameInv, NestOK
<1>2. Entered(d) \subseteq 1..Len(frame) /\ Len(frame) \in Nat
  BY EnteredFrames
<1>3. CASE d \notin disturbed /\ current'[d] = current[d] /\ Entered(d)' = Entered(d)
  <2>1. \A f : Outside(d, f)' = Outside(d, f)
    BY <1>3 DEF Outside
  <2>. QED BY <1>1, <1>3, <2>1 DEF NestIn, Top
<1>4. CASE /\ d \notin disturbed /\ Entered(d) # {}
           /\ current'[d] = frame[Max(Entered(d))].old
           /\ Entered(d)' = Entered(d) \ {Max(Entered(d))}
           /\ NoCreateLeft(d)
  <2>m. PICK m : m = Max(Entered(d))
    OBVIOUS
  <2>1. m \in Entered(d) /\ \A f \in Entered(d) : f <= m
    BY <1>2, <1>4, <2>m, Innermost
  <2>2. Outside(d, m) = Entered(d) \ {m}
    BY <1>2, <2>1 DEF Outside
  <2>3. \A f \in Entered(d) \ {m} : Outside(d, f)' = Outside(d, f)
    <3>1. \A f \in Entered(d) : ~(m < f)
      BY <1>2, <2>1
    <3>2. \A f : Outside(d, f)' = {g \in Entered(d) \ {m} : g < f}
      BY <1>4, <2>m DEF Outside
    <3>. QED BY <3>1, <3>2 DEF Outside
  <2>4. current'[d] = Top(d, Entered(d))'
    BY <1>1, <1>4, <2>m, <2>1, <2>2 DEF NestIn, Top
  <2>5. \A f \in Entered(d)' : frame'[f].old = Top(d, Outside(d, f))'
    BY <1>1, <1>4, <2>m, <2>3 DEF NestIn, Top
  <2>6. \A f \in live' : frame'[f].kind = "create" /\ frame'[f].home = d => f = Max(Entered(d)')
    BY <1>4 DEF NoCreateLeft
  <2>. QED BY <2>4, <2>5, <2>6 DEF NestIn
<1>5. CASE current'[d] = origin[d] /\ Entered(d)' = {} /\ NoCreateLeft(d)
  <2>1. current'[d] = Top(d, Entered(d))'
    BY <1>5 DEF Top
  <2>2. \A f \in live' : frame'[f].kind = "create" /\ frame'[f].home = d => f = Max(Entered(d)')
    BY <1>5 DEF NoCreateLeft
  <2>. QED BY <1>5, <2>1, <2>2 DEF NestIn
<1>. QED BY <1>3, <1>4, <1>5 DEF Leaves

(* A report counts while the SDK is up.                                    *)
LEMMA ReportCounts ==
  ASSUME FrameTypes, NEW f \in Frames
  PROVE  /\ ReportedWith(f) \in Seq(0..2) /\ Len(ReportedWith(f)) = Len(frame)
         /\ \A g \in Frames \ {f} : ReportedWith(f)[g] = reported[g]
         /\ ~up => ReportedWith(f) = reported
         /\ up => ReportedWith(f)[f] >= 1
         /\ reported[f] = 0 => ReportedWith(f)[f] <= 1
<1>1. reported \in Seq(0..2) /\ Len(reported) = Len(frame) /\ f \in 1..Len(reported) /\ reported[f] \in 0..2
  BY DEF FrameTypes, Frames
<1>2. CASE up /\ reported[f] < 2
  <2>1. ReportedWith(f) = [reported EXCEPT ![f] = reported[f] + 1] /\ reported[f] + 1 \in 0..2
    BY <1>1, <1>2 DEF ReportedWith
  <2>2. ReportedWith(f) \in Seq(0..2) /\ Len(ReportedWith(f)) = Len(reported)
    BY <1>1, <2>1
  <2>3. ReportedWith(f)[f] = reported[f] + 1 /\ \A g \in Frames \ {f} : ReportedWith(f)[g] = reported[g]
    BY <1>1, <2>1 DEF Frames
  <2>. QED BY <1>1, <1>2, <2>2, <2>3
<1>3. CASE ~(up /\ reported[f] < 2)
  BY <1>1, <1>3 DEF ReportedWith
<1>. QED BY <1>2, <1>3
(* A frame of the middleware or of the patched client that is left, or     *)
(* whose stream ends.                                                      *)
LEMMA CallLeft ==
  ASSUME IInv, NEW f \in Frames, frame[f].kind \in {"scope", "create"}, reported[f] = 0,
         UNCHANGED <<frame, started, base, origin, up, auto, depth, runs, late, hands, raced>>,
         live' = live \ {f}, open' \in {open, open \ {f}},
         current' \in [Contexts -> Values], disturbed' \in SUBSET Contexts,
         lost' \in {lost, lost \cup {f}},
         streams' \in {streams, streams \cup {f}}, finalized' \in {finalized, finalized \cup {f}},
         reported' \in {reported, ReportedWith(f)},
         f \in streams' => frame[f].kind = "create" /\ (f \notin finalized' => reported' = reported),
         finalized' \subseteq streams',
         up /\ reported' = reported => frame[f].kind = "create" /\ f \in lost' \cup (streams' \ finalized'),
         NestOK'
  PROVE  IInv'
<1>1. FrameTypes /\ FramesOK /\ LiveOK /\ RunTypes /\ RegisteredOK /\ DepthOK /\ ReportOK
  BY DEF IInv, FrameInv, RunInv
<1>2. FramesOK' /\ Values' = Values /\ Frames' = Frames
  BY <1>1, SameFrames
<1>3. /\ reported' \in Seq(0..2) /\ Len(reported') = Len(frame)
      /\ \A g \in Frames \ {f} : reported'[g] = reported[g]
      /\ reported'[f] <= 1
      /\ up => reported'[f] >= 1 \/ reported' = reported
  <2>1. CASE reported' = reported
    BY <1>1, <2>1 DEF FrameTypes
  <2>2. CASE reported' = ReportedWith(f)
    BY <1>1, <2>2, ReportCounts
  <2>. QED BY <2>1, <2>2
<1>4. FrameTypes'
  <2>1. live' \in SUBSET Frames' /\ open' \in SUBSET Frames' /\ streams' \in SUBSET Frames'
        /\ finalized' \in SUBSET Frames' /\ lost' \in SUBSET Frames'
    BY <1>1, <1>2 DEF FrameTypes
  <2>2. up' \in BOOLEAN
    BY <1>1 DEF FrameTypes
  <2>3. frame' \in Seq(Frame) /\ Len(frame') <= MaxFrames
    BY <1>1 DEF FrameTypes
  <2>4. /\ started' \in SUBSET Contexts /\ base' \in [Contexts -> 0..Len(frame')]
        /\ current' \in [Contexts -> Values'] /\ origin' \in [Contexts -> Values']
    BY <1>1, <1>2 DEF FrameTypes
  <2>5. Len(reported') = Len(frame')
    BY <1>3
  <2>. QED BY <1>3, <2>1, <2>2, <2>3, <2>4, <2>5 DEF FrameTypes
<1>5. LiveOK'
  <2>1. \A g \in open' : frame'[g].own
    BY <1>1 DEF LiveOK
  <2>2. \A g \in live' : frame'[g].kind \in {"scope", "create"} =>
          g \in open' /\ reported'[g] = 0 /\ g \notin streams'
    BY <1>1, <1>3 DEF LiveOK, FrameTypes
  <2>3. \A g \in Frames' : frame'[g].kind = "invoke" /\ frame'[g].own => (g \in live' <=> g \in open')
    BY <1>1, <1>2 DEF LiveOK
  <2>4. \A g \in streams' : g \notin live' /\ frame'[g].kind = "create" /\ (g \notin finalized' => reported'[g] = 0)
    <3>1. ASSUME NEW g \in streams', g # f
          PROVE  g \notin live' /\ frame'[g].kind = "create" /\ (g \notin finalized' => reported'[g] = 0)
      BY <1>1, <1>3, <3>1 DEF LiveOK, FrameTypes
    <3>2. f \in streams' => f \notin live' /\ frame'[f].kind = "create" /\ (f \notin finalized' => reported'[f] = 0)
      OBVIOUS
    <3>. QED BY <3>1, <3>2
  <2>5. finalized' \subseteq streams'
    OBVIOUS
  <2>. QED BY <2>1, <2>2, <2>3, <2>4, <2>5 DEF LiveOK
<1>6. RunInv'
  <2>1. RunTypes'
    BY <1>1, <1>2 DEF RunTypes
  <2>2. \A h \in 1..MaxFrames : \A r \in runs[h] : r \in Frames /\ r # f /\ frame[r].kind = "run"
    BY <1>1 DEF RunTypes, RegisteredOK
  <2>3. RegisteredOK'
    BY <1>1, <1>3, <2>2 DEF RegisteredOK
  <2>4. \A s : Inside(s)' = Inside(s)
    BY DEF Inside
  <2>5. DepthOK'
    BY <1>1, <2>4 DEF DepthOK
  <2>. QED BY <2>1, <2>3, <2>5 DEF RunInv
<1>7. ReportOK'
  <2>1. ASSUME NEW g \in Frames, g # f, Pending(g) PROVE Pending(g)'
    BY <2>1 DEF Pending
  <2>2. up /\ reported' = reported => Pending(f)'
    BY DEF Pending
  <2>3. ASSUME NEW g \in Frames', frame'[g].own
        PROVE  /\ frame'[g].kind # "invoke" /\ g \notin raced' => reported'[g] <= 1
               /\ up' => reported'[g] >= 1 \/ Pending(g)'
    BY <1>1, <1>2, <1>3, <2>1, <2>2, <2>3 DEF ReportOK
  <2>. QED BY <2>3, Zenon DEF ReportOK
<1>8. HandsOK'
  BY <1>2, HandsKept DEF IInv
<1>. QED BY <1>2, <1>4, <1>5, <1>6, <1>7, <1>8 DEF IInv, FrameInv
(* A call that was not made by LangChain, whose span is not yet reported.   *)
LEMMA CallHere ==
  ASSUME IInv, NEW f \in live, frame[f].kind \in {"scope", "create"}
  PROVE  /\ f \in Frames /\ f \in open /\ f \notin streams /\ f \notin finalized /\ reported[f] = 0
         /\ frame[f].old \in Values /\ FrameInv
         /\ current \in [Contexts -> Values] /\ started \subseteq Contexts /\ disturbed \subseteq Contexts
         /\ frame[f].home \in started
         /\ up => ReportedWith(f) # reported
<1>1. FrameInv /\ FrameTypes /\ FramesOK /\ LiveOK
  BY DEF IInv, FrameInv
<1>2. f \in Frames /\ f \in open /\ f \notin streams /\ f \notin finalized /\ reported[f] = 0
  BY <1>1 DEF LiveOK, FrameTypes
<1>3. frame[f].old \in Values /\ frame[f].home \in started
  BY <1>1, <1>2 DEF FramesOK, EntryOK
<1>4. up => ReportedWith(f) # reported
  <2>1. up => ReportedWith(f)[f] >= 1
    BY <1>1, <1>2, ReportCounts
  <2>. QED BY <1>2, <2>1
<1>. QED BY <1>1, <1>2, <1>3, <1>4 DEF FrameTypes

(* The innermost span of a context is undone there.                        *)
LEMMA InnermostLeft ==
  ASSUME NEW c, c \notin disturbed, NEW f \in open, frame[f].home = c, f = Max(Entered(c)),
         frame' = frame, open' = open \ {f}, current'[c] = frame[f].old, NoCreateLeft(c)
  PROVE  Leaves(c)
<1>1. Entered(c) # {} /\ Entered(c)' = Entered(c) \ {f}
  BY DEF Entered
<1>. QED BY <1>1 DEF Leaves

LEMMA LeaveScopeStep ==
  ASSUME IInv, NEW c \in Contexts, NEW f \in live, LeaveScope(c, f), UNCHANGED <<auto, depth, runs, late, hands, raced>>
  PROVE  IInv'
<1>. USE DEF LeaveScope
<1>1. /\ f \in Frames /\ f \in open /\ f \notin streams /\ f \notin finalized /\ reported[f] = 0
      /\ frame[f].old \in Values /\ FrameInv
      /\ current \in [Contexts -> Values] /\ started \subseteq Contexts /\ disturbed \subseteq Contexts
      /\ frame[f].home \in started
      /\ up => ReportedWith(f) # reported
  BY CallHere
<1>2. Running(c)
  BY DEF MayLeave
<1>3. ASSUME NEW d \in started \ disturbed'
      PROVE  Leaves(d)
  <2>1. d \in Contexts /\ d \notin disturbed /\ d \notin Disturbs(c, f)
    BY <1>1
  <2>2. CASE d = c
    <3>1. f = Max(Entered(c)) /\ frame[f].home = c
      BY <2>1, <2>2 DEF Disturbs
    <3>2. NoCreateLeft(c)
      BY <1>1, <1>2, NoCreateRunning DEF NoCreateLeft
    <3>3. current'[c] = frame[f].old
      BY <1>1
    <3>. QED BY <1>1, <2>1, <2>2, <3>1, <3>2, <3>3, InnermostLeft
  <2>3. CASE d # c
    <3>1. frame[f].home # d
      BY <2>1, <2>3 DEF Disturbs
    <3>2. current'[d] = current[d]
      BY <1>1, <2>1, <2>3
    <3>3. Entered(d)' = Entered(d)
      BY <3>1 DEF Entered
    <3>. QED BY <2>1, <3>2, <3>3 DEF Leaves
  <2>. QED BY <2>2, <2>3
<1>4. NestOK'
  BY <1>1, <1>3, NestLeave
<1>5. current' \in [Contexts -> Values] /\ disturbed' \in SUBSET Contexts
  BY <1>1 DEF Disturbs
<1>6. finalized' \subseteq streams'
  BY DEF IInv, FrameInv, LiveOK
<1>. QED BY <1>1, <1>4, <1>5, <1>6, CallLeft

(* The span of a model call in its context, while the order is kept.       *)
LEMMA CreateInnermost ==
  ASSUME FrameInv, NEW c \in Contexts, NEW f \in live, InCreate(c, f),
         UNCHANGED <<frame, started, origin>>, live' = live \ {f}, open' = open \ {f},
         current' = [current EXCEPT ![c] = frame[f].old], disturbed' = disturbed
  PROVE  NestOK'
<1>1. f \in open /\ frame[f].home = c /\ frame[f].kind = "create"
  BY DEF FrameInv, LiveOK, InCreate, Plain
<1>2. current \in [Contexts -> Values] /\ started \subseteq Contexts
  BY DEF FrameInv, FrameTypes
<1>3. ASSUME NEW d \in started \ disturbed'
      PROVE  Leaves(d)
  <2>1. d \in Contexts /\ d \notin disturbed /\ NestIn(d)
    BY <1>2 DEF FrameInv, NestOK
  <2>2. CASE d = c
    <3>1. \A g \in live : frame[g].kind = "create" /\ frame[g].home = c => g = Max(Entered(c))
      BY <2>1, <2>2 DEF NestIn
    <3>2. f = Max(Entered(c))
      BY <1>1, <3>1
    <3>3. NoCreateLeft(c)
      BY <3>1, <3>2 DEF NoCreateLeft
    <3>4. current'[c] = frame[f].old
      BY <1>2
    <3>. QED BY <1>1, <2>1, <2>2, <3>2, <3>3, <3>4, InnermostLeft
  <2>3. CASE d # c
    <3>1. current'[d] = current[d]
      BY <1>2, <2>1, <2>3
    <3>2. Entered(d)' = Entered(d)
      BY <1>1, <2>3 DEF Entered
    <3>. QED BY <2>1, <3>1, <3>2 DEF Leaves
  <2>. QED BY <2>2, <2>3
<1>. QED BY <1>3, NestLeave

LEMMA CreateReturnsStep ==
  ASSUME IInv, NEW c \in Contexts, NEW f \in live, NEW stream \in BOOLEAN, CreateReturns(c, f, stream),
         UNCHANGED <<auto, depth, runs, late, hands, raced>>
  PROVE  IInv'
<1>. USE DEF CreateReturns
<1>0. frame[f].kind = "create"
  BY DEF InCreate
<1>1. /\ f \in Frames /\ f \in open /\ f \notin streams /\ f \notin finalized /\ reported[f] = 0
      /\ frame[f].old \in Values /\ FrameInv
      /\ current \in [Contexts -> Values] /\ started \subseteq Contexts /\ disturbed \subseteq Contexts
      /\ frame[f].home \in started
      /\ up => ReportedWith(f) # reported
  BY <1>0, CallHere
<1>2. NestOK'
  BY <1>1, CreateInnermost
<1>3. current' \in [Contexts -> Values] /\ disturbed' \in SUBSET Contexts
  BY <1>1
<1>4. finalized \subseteq streams
  BY DEF IInv, FrameInv, LiveOK
<1>5. CASE stream
  <2>1. /\ streams' = streams \cup {f} /\ reported' = reported /\ lost' = lost /\ finalized' = finalized
    BY <1>5
  <2>2. finalized' \subseteq streams' /\ f \in streams' \ finalized'
    BY <1>1, <1>4, <2>1
  <2>. QED BY <1>0, <1>1, <1>2, <1>3, <2>1, <2>2, CallLeft
<1>6. CASE ~stream
  <2>1. streams' = streams /\ reported' = ReportedWith(f) /\ lost' \in {lost, lost \cup {f}} /\ finalized' = finalized
    BY <1>6
  <2>2. finalized' \subseteq streams' /\ f \notin streams'
    BY <1>1, <1>4, <2>1
  <2>. QED BY <1>0, <1>1, <1>2, <1>3, <2>1, <2>2, CallLeft
<1>. QED BY <1>5, <1>6

LEMMA CreateRaisesStep ==
  ASSUME IInv, NEW c \in Contexts, NEW f \in live, CreateRaises(c, f), UNCHANGED <<auto, depth, runs, late, hands, raced>>
  PROVE  IInv'
<1>. USE DEF CreateRaises
<1>0. frame[f].kind = "create"
  BY DEF InCreate
<1>1. /\ f \in Frames /\ f \in open /\ f \notin streams /\ f \notin finalized /\ reported[f] = 0
      /\ frame[f].old \in Values /\ FrameInv
      /\ current \in [Contexts -> Values] /\ started \subseteq Contexts /\ disturbed \subseteq Contexts
      /\ frame[f].home \in started
      /\ up => ReportedWith(f) # reported
  BY <1>0, CallHere
<1>2. NestOK'
  BY <1>1, CreateInnermost
<1>3. current' \in [Contexts -> Values] /\ disturbed' \in SUBSET Contexts
  BY <1>1
<1>4. finalized' \subseteq streams' /\ f \notin streams' /\ lost' \in {lost, lost \cup {f}}
  BY <1>1 DEF IInv, FrameInv, LiveOK
<1>. QED BY <1>0, <1>1, <1>2, <1>3, <1>4, CallLeft

LEMMA CreateCancelledStep ==
  ASSUME IInv, NEW c \in Contexts, NEW f \in live, CreateCancelled(c, f), UNCHANGED <<auto, depth, runs, late, hands, raced>>
  PROVE  IInv'
<1>. USE DEF CreateCancelled
<1>0. frame[f].kind = "create"
  BY DEF InCreate
<1>1. /\ f \in Frames /\ f \in open /\ f \notin streams /\ f \notin finalized /\ reported[f] = 0
      /\ frame[f].old \in Values /\ FrameInv
      /\ current \in [Contexts -> Values] /\ started \subseteq Contexts /\ disturbed \subseteq Contexts
      /\ frame[f].home \in started
      /\ up => ReportedWith(f) # reported
  BY <1>0, CallHere
<1>2. NestOK'
  <2>1. \A d \in started \ disturbed' : Leaves(d)
    BY DEF Leaves, Entered
  <2>. QED BY <1>1, <2>1, NestLeave
<1>3. finalized' \subseteq streams' /\ f \notin streams' /\ disturbed' \in SUBSET Contexts
  BY <1>1 DEF IInv, FrameInv, LiveOK
<1>. QED BY <1>0, <1>1, <1>2, <1>3, CallLeft

LEMMA StreamEndsStep ==
  ASSUME IInv, NEW f \in streams, StreamEnds(f), UNCHANGED <<auto, depth, runs, late, hands, raced>>
  PROVE  IInv'
<1>. USE DEF StreamEnds
<1>1. FrameInv /\ FrameTypes /\ LiveOK
  BY DEF IInv, FrameInv
<1>2. /\ f \in Frames /\ f \notin live /\ frame[f].kind = "create" /\ reported[f] = 0
      /\ current \in [Contexts -> Values] /\ disturbed \in SUBSET Contexts
  BY <1>1 DEF LiveOK, FrameTypes, MayFinalize
<1>3. live' = live \ {f}
  BY <1>2
<1>4. NestOK'
  <2>1. \A d \in started \ disturbed' : Leaves(d)
    BY DEF Leaves, Entered
  <2>. QED BY <1>1, <2>1, NestLeave
<1>5. up => reported' # reported
  <2>1. up => ReportedWith(f)[f] >= 1
    BY <1>1, <1>2, ReportCounts
  <2>. QED BY <1>2, <2>1
<1>6. finalized' \subseteq streams' /\ f \in finalized' /\ lost' \in {lost, lost \cup {f}}
  BY <1>1 DEF LiveOK
<1>7. /\ current' \in [Contexts -> Values] /\ disturbed' \in SUBSET Contexts
      /\ open' = open /\ streams' = streams /\ finalized' = finalized \cup {f} /\ reported' = ReportedWith(f)
  BY <1>2
<1>. QED BY <1>2, <1>3, <1>4, <1>5, <1>6, <1>7, CallLeft
(* A context that is started has entered nothing.                          *)
LEMMA NestStart ==
  ASSUME FrameInv, NEW d, d \notin started, started' = started \cup {d},
         UNCHANGED <<frame, live, open, disturbed>>,
         current'[d] = origin'[d],
         \A e \in started : current'[e] = current[e] /\ origin'[e] = origin[e]
  PROVE  NestOK'
<1>1. \A f \in Frames : frame[f].home # d
  BY DEF FrameInv, FramesOK, EntryOK
<1>2. live \subseteq Frames /\ open \subseteq Frames
  BY DEF FrameInv, FrameTypes
<1>3. \A e : Entered(e)' = Entered(e)
  BY DEF Entered
<1>4. \A e : \A f : Outside(e, f)' = Outside(e, f)
  BY <1>3 DEF Outside
<1>5. ASSUME NEW e \in started \ disturbed PROVE NestIn(e)'
  <2>1. NestIn(e) /\ current'[e] = current[e] /\ origin'[e] = origin[e]
    BY DEF FrameInv, NestOK
  <2>. QED BY <1>3, <1>4, <2>1 DEF NestIn, Top
<1>6. NestIn(d)'
  <2>1. Entered(d)' = {}
    BY <1>1, <1>2, <1>3 DEF Entered
  <2>2. current'[d] = Top(d, Entered(d))'
    BY <2>1 DEF Top
  <2>3. \A f \in live' : frame'[f].kind = "create" /\ frame'[f].home = d => f = Max(Entered(d)')
    BY <1>1, <1>2
  <2>. QED BY <2>1, <2>2, <2>3 DEF NestIn
<1>. QED BY <1>5, <1>6 DEF NestOK

LEMMA StartTaskStep ==
  ASSUME IInv, NEW c \in Contexts, NEW d \in Contexts, NEW copied \in BOOLEAN, StartTask(c, d, copied)
  PROVE  IInv'
<1>. USE DEF StartTask, StartContext
<1>1. FrameInv /\ FrameTypes /\ FramesOK /\ LiveOK /\ RunTypes /\ RegisteredOK /\ DepthOK /\ ReportOK
  BY DEF IInv, FrameInv, RunInv
<1>2. c \in started /\ d \notin started /\ started \subseteq Contexts /\ Frames' = Frames /\ Values' = Values
  BY <1>1 DEF Running, FrameTypes, Frames, Values
<1>3. PICK k : k = IF copied THEN Max(Callers(c) \ Held(c)) ELSE None
  OBVIOUS
<1>4. k \in 0..Len(frame) /\ (k # None => frame[k].home \in started)
  <2>1. Len(frame) \in Nat
    BY <1>1 DEF FrameTypes
  <2>2. /\ Max(Callers(c) \ Held(c)) \in 0..Len(frame)
        /\ Max(Callers(c) \ Held(c)) # None => frame[Max(Callers(c) \ Held(c))].home \in started
    BY <1>1, <1>2, CallersOf
  <2>. QED BY <1>3, <2>1, <2>2 DEF None
<1>5. PICK v : v = IF copied THEN current[c] ELSE None
  OBVIOUS
<1>6. v \in Values
  BY <1>1, <1>5 DEF FrameTypes, Values, None
<1>7. /\ base' = [base EXCEPT ![d] = k] /\ current' = [current EXCEPT ![d] = v] /\ origin' = [origin EXCEPT ![d] = v]
      /\ base \in [Contexts -> 0..Len(frame)] /\ current \in [Contexts -> Values] /\ origin \in [Contexts -> Values]
  BY <1>1, <1>3, <1>5 DEF FrameTypes
<1>8. FrameTypes'
  <2>1. /\ base' \in [Contexts -> 0..Len(frame')] /\ current' \in [Contexts -> Values'] /\ origin' \in [Contexts -> Values']
        /\ started' \in SUBSET Contexts
    BY <1>2, <1>4, <1>6, <1>7
  <2>. QED BY <1>1, <1>2, <2>1 DEF FrameTypes
<1>9. FramesOK'
  <2>1. \A f \in Frames : EntryOK(f, frame[f])'
    BY <1>1, <1>2, <1>8, EntryKept
  <2>2. ASSUME NEW e \in started', base'[e] # None
        PROVE  frame'[base'[e]].home \in started' \ {e}
    <3>1. CASE e = d
      BY <1>2, <1>4, <1>7, <2>2, <3>1
    <3>2. CASE e # d
      BY <1>1, <1>2, <1>7, <2>2, <3>2 DEF FramesOK
    <3>. QED BY <3>1, <3>2
  <2>. QED BY <1>2, <2>1, <2>2 DEF FramesOK
<1>10. LiveOK'
  BY <1>1, <1>2 DEF LiveOK
<1>11. NestOK'
  BY <1>1, <1>2, <1>7, NestStart
<1>12. auto' \in [Contexts -> 0..Len(frame)] /\ \A e \in Contexts : auto'[e] # None => frame[auto'[e]].kind = "invoke"
  <2>1. auto \in [Contexts -> 0..Len(frame)] /\ Len(frame) \in Nat
    BY <1>1 DEF RunTypes, FrameTypes
  <2>2. PICK a : a = IF copied THEN auto[c] ELSE None
    OBVIOUS
  <2>3. a \in 0..Len(frame) /\ (a # None => frame[a].kind = "invoke")
    BY <1>1, <2>1, <2>2 DEF DepthOK, None
  <2>4. auto' = [auto EXCEPT ![d] = a]
    BY <2>2
  <2>. QED BY <1>1, <2>1, <2>3, <2>4 DEF DepthOK
<1>13. RunInv'
  <2>1. RunTypes'
    BY <1>1, <1>2, <1>12 DEF RunTypes
  <2>2. RegisteredOK'
    BY <1>1 DEF RegisteredOK
  <2>3. \A s : Inside(s)' = Inside(s)
    BY DEF Inside
  <2>4. DepthOK'
    BY <1>1, <1>12, <2>3 DEF DepthOK
  <2>. QED BY <2>1, <2>2, <2>4 DEF RunInv
<1>14. ReportOK'
  BY <1>1, <1>2 DEF ReportOK, Pending
<1>15. HandsOK'
  BY <1>2, HandsKept DEF IInv
<1>. QED BY <1>8, <1>9, <1>10, <1>11, <1>13, <1>14, <1>15 DEF IInv, FrameInv

LEMMA ShutdownStep ==
  ASSUME IInv, NEW c \in Contexts, ShutdownAll(c)
  PROVE  IInv'
<1>. USE DEF ShutdownAll, Shutdown
<1>1. FrameInv /\ FrameTypes /\ FramesOK /\ LiveOK /\ RunTypes /\ RegisteredOK /\ DepthOK /\ ReportOK
  BY DEF IInv, FrameInv, RunInv
<1>2. FramesOK' /\ Values' = Values /\ Frames' = Frames
  BY <1>1, SameFrames
<1>3. FrameTypes'
  <2>1. current' \in [Contexts -> Values']
    BY <1>1, <1>2 DEF FrameTypes, Values, None
  <2>2. disturbed' \in SUBSET Contexts /\ up' \in BOOLEAN
    BY <1>1 DEF FrameTypes
  <2>. QED BY <1>1, <1>2, <2>1, <2>2 DEF FrameTypes
<1>4. LiveOK'
  BY <1>1, <1>2 DEF LiveOK
<1>5. NestOK'
  <2>1. current \in [Contexts -> Values] /\ started \subseteq Contexts
    BY <1>1 DEF FrameTypes
  <2>2. \A d \in started \ disturbed' : Leaves(d)
    BY <2>1 DEF Leaves, Entered
  <2>. QED BY <1>1, <2>2, NestLeave
<1>6. RunInv'
  <2>1. auto' \in [Contexts -> 0..Len(frame')]
    BY <1>1 DEF RunTypes, FrameTypes, None
  <2>2. RunTypes'
    BY <1>1, <1>2, <2>1 DEF RunTypes
  <2>3. RegisteredOK'
    BY <1>1 DEF RegisteredOK
  <2>4. \A s : Inside(s)' = Inside(s)
    BY DEF Inside
  <2>5. \A d \in Contexts : auto'[d] # None => frame'[auto'[d]].kind = "invoke"
    BY <1>1 DEF DepthOK, RunTypes
  <2>6. DepthOK'
    BY <1>1, <2>4, <2>5 DEF DepthOK
  <2>. QED BY <2>2, <2>3, <2>6 DEF RunInv
<1>7. ReportOK'
  BY <1>1, <1>2 DEF ReportOK
<1>8. HandsOK'
  BY <1>2, HandsKept DEF IInv
<1>. QED BY <1>2, <1>3, <1>4, <1>5, <1>6, <1>7, <1>8 DEF IInv, FrameInv

-----------------------------------------------------------------------------
(* The end of a run                                                         *)

LEMMA EndRunNest ==
  ASSUME IInv, NEW c \in Contexts, NEW r \in live, NEW callback, EndRun(c, r, callback)
  PROVE  NestOK'
<1>. USE DEF EndRun
<1>1. FrameInv /\ current \in [Contexts -> Values] /\ started \subseteq Contexts /\ frame[r].kind = "run"
  BY DEF IInv, FrameInv, FrameTypes
<1>2. Running(c)
  BY DEF MayLeave
<1>3. EndsSpan(c, r, callback) => r \in open
  <2>1. r \in Frames /\ frame[r].handler \in 0..r /\ frame[r].handler # None
    BY <1>1 DEF FrameInv, FrameTypes, FramesOK, EntryOK
  <2>2. frame[r].handler \in 1..MaxFrames
    BY <1>1, <2>1, FramesAssumption DEF FrameInv, FrameTypes, Frames, None
  <2>. QED BY <2>2 DEF EndsSpan, Heard, Registered, IInv, RunInv, RegisteredOK
<1>4. ASSUME NEW d \in started \ disturbed'
      PROVE  Leaves(d)
  <2>1. d \in Contexts /\ d \notin disturbed
    BY <1>1
  <2>2. CASE ~(EndsSpan(c, r, callback) /\ callback = "inline")
    BY <2>1, <2>2 DEF Leaves, Entered
  <2>3. CASE EndsSpan(c, r, callback) /\ callback = "inline"
    <3>1. d \notin Disturbs(c, r) /\ open' = open \ {r} /\ current' = [current EXCEPT ![c] = Restored(c, r)]
      BY <2>3
    <3>2. CASE d = c
      <4>1. r = Max(Entered(c)) /\ frame[r].home = c
        BY <3>1, <3>2 DEF Disturbs
      <4>2. NoCreateLeft(c)
        BY <1>1, <1>2, NoCreateRunning DEF NoCreateLeft
      <4>3. current'[c] = frame[r].old
        BY <1>1, <3>1, <4>1 DEF Restored
      <4>. QED BY <1>3, <2>1, <2>3, <3>1, <3>2, <4>1, <4>2, <4>3, InnermostLeft
    <3>3. CASE d # c
      <4>1. frame[r].home # d
        BY <3>1, <3>3 DEF Disturbs
      <4>2. current'[d] = current[d] /\ Entered(d)' = Entered(d)
        BY <1>1, <2>1, <3>1, <3>3, <4>1 DEF Entered
      <4>. QED BY <2>1, <4>2 DEF Leaves
    <3>. QED BY <3>2, <3>3
  <2>. QED BY <2>2, <2>3
<1>. QED BY <1>1, <1>4, NestLeave

LEMMA EndRunStep ==
  ASSUME IInv, NEW c \in Contexts, NEW r \in live, NEW callback, EndRun(c, r, callback)
  PROVE  IInv'
<1>. USE DEF EndRun
<1>1. FrameInv /\ FrameTypes /\ FramesOK /\ LiveOK /\ RunTypes /\ RegisteredOK /\ DepthOK /\ ReportOK
  BY DEF IInv, FrameInv, RunInv
<1>2. FramesOK' /\ Values' = Values /\ Frames' = Frames
  BY <1>1, SameFrames
<1>h. PICK h : h = frame[r].handler
  OBVIOUS
<1>3. r \in Frames /\ frame[r].kind = "run" /\ h \in 1..MaxFrames
  <2>1. r \in Frames /\ frame[r].handler \in 0..r /\ frame[r].handler # None
    BY <1>1 DEF FrameTypes, FramesOK, EntryOK
  <2>. QED BY <1>1, <1>h, <2>1, FramesAssumption DEF FrameTypes, Frames, None
<1>4. Heard(c, r, callback) => up /\ r \in runs[h]
  BY <1>h DEF Heard, Registered
<1>5. EndsSpan(c, r, callback) => up /\ r \in open /\ reported[r] = 0 /\ frame[r].own
  BY <1>1, <1>3, <1>4 DEF EndsSpan, RegisteredOK
<1>6. /\ reported' \in Seq(0..2) /\ Len(reported') = Len(frame)
      /\ \A g \in Frames \ {r} : reported'[g] = reported[g]
      /\ EndsSpan(c, r, callback) => reported'[r] = 1
      /\ ~EndsSpan(c, r, callback) => reported' = reported
  <2>1. CASE EndsSpan(c, r, callback)
    <3>1. reported' = ReportedWith(r) /\ up /\ reported[r] = 0
      BY <1>5, <2>1
    <3>2. ReportedWith(r) = [reported EXCEPT ![r] = reported[r] + 1]
      BY <3>1 DEF ReportedWith
    <3>3. reported \in Seq(0..2) /\ Len(reported) = Len(frame) /\ r \in 1..Len(reported)
      BY <1>1, <1>3 DEF FrameTypes, Frames
    <3>4. reported'[r] = 1
      BY <3>1, <3>2, <3>3
    <3>. QED BY <1>1, <1>3, <2>1, <3>1, <3>4, ReportCounts
  <2>2. CASE ~EndsSpan(c, r, callback)
    BY <1>1, <2>2 DEF FrameTypes
  <2>. QED BY <2>1, <2>2
<1>7. open' = open \/ open' = open \ {r}
  OBVIOUS
<1>8. FrameTypes'
  <2>1. Restored(c, r) \in Values
    BY <1>1, <1>3 DEF Restored, FramesOK, EntryOK
  <2>2. current' \in [Contexts -> Values']
    BY <1>1, <1>2, <2>1 DEF FrameTypes
  <2>3. disturbed' \in SUBSET Contexts
    <3>1. frame[r].home \in Contexts
      BY <1>1, <1>3 DEF FramesOK, EntryOK, FrameTypes
    <3>. QED BY <1>1, <3>1 DEF FrameTypes, Disturbs
  <2>4. live' \in SUBSET Frames' /\ open' \in SUBSET Frames'
    BY <1>1, <1>2, <1>7 DEF FrameTypes
  <2>5. Len(reported') = Len(frame')
    BY <1>6
  <2>. QED BY <1>1, <1>2, <1>6, <2>2, <2>3, <2>4, <2>5 DEF FrameTypes
<1>9. LiveOK'
  <2>1. \A g \in open' : frame'[g].own
    BY <1>1, <1>7 DEF LiveOK
  <2>2. \A g \in live' : frame'[g].kind \in {"scope", "create"} =>
          g \in open' /\ reported'[g] = 0 /\ g \notin streams'
    BY <1>1, <1>6, <1>7 DEF LiveOK, FrameTypes
  <2>3. \A g \in Frames' : frame'[g].kind = "invoke" /\ frame'[g].own => (g \in live' <=> g \in open')
    BY <1>1, <1>2, <1>3, <1>7 DEF LiveOK
  <2>4. \A g \in streams' : g \notin live' /\ frame'[g].kind = "create" /\ (g \notin finalized' => reported'[g] = 0)
    BY <1>1, <1>3, <1>6 DEF LiveOK, FrameTypes
  <2>5. finalized' \subseteq streams'
    BY <1>1 DEF LiveOK
  <2>. QED BY <2>1, <2>2, <2>3, <2>4, <2>5 DEF LiveOK
<1>10. /\ runs' \in [1..MaxFrames -> SUBSET Frames]
       /\ \A g \in 1..MaxFrames : runs'[g] \subseteq runs[g] /\ runs[g] \subseteq runs'[g] \cup {r}
       /\ Heard(c, r, callback) => r \notin runs'[h]
       /\ ~Heard(c, r, callback) => runs' = runs
  <2>1. Heard(c, r, callback) => runs' = [runs EXCEPT ![h] = runs[h] \ {r}]
    BY <1>h
  <2>2. ~Heard(c, r, callback) => runs' = runs
    OBVIOUS
  <2>3. runs \in [1..MaxFrames -> SUBSET Frames]
    BY <1>1 DEF RunTypes
  <2>. QED BY <1>3, <2>1, <2>2, <2>3
<1>11. RunInv'
  <2>1. RunTypes'
    BY <1>1, <1>2, <1>10 DEF RunTypes
  <2>2. ASSUME NEW g \in 1..MaxFrames, NEW q \in runs'[g]
        PROVE  /\ frame'[q].kind = "run" /\ frame'[q].handler = g
               /\ frame'[q].own => q \in open' /\ reported'[q] = 0
    <3>1. q \in runs[g] /\ q \in Frames
      BY <1>10
    <3>2. frame[q].kind = "run" /\ frame[q].handler = g /\ (frame[q].own => q \in open /\ reported[q] = 0)
      BY <1>1, <3>1 DEF RegisteredOK
    <3>3. CASE q # r
      BY <1>6, <1>7, <3>1, <3>2, <3>3
    <3>4. CASE q = r
      <4>1. g = h
        BY <1>h, <3>2, <3>4
      <4>2. ~Heard(c, r, callback)
        BY <1>10, <3>4, <4>1
      <4>3. open' = open /\ reported' = reported
        BY <4>2 DEF EndsSpan
      <4>. QED BY <3>2, <4>3
    <3>. QED BY <3>3, <3>4
  <2>3. RegisteredOK'
    BY <2>2 DEF RegisteredOK
  <2>4. \A t : Inside(t)' = Inside(t)
    BY <1>3 DEF Inside
  <2>5. DepthOK'
    <3>1. ASSUME NEW t \in 1..MaxFrames
          PROVE  depth'[t] = Cardinality(Inside(t)') /\ (Inside(t)' = {} => runs'[t] \subseteq late')
      BY <1>1, <1>10, <2>4 DEF DepthOK
    <3>2. \A d \in Contexts : auto'[d] # None => frame'[auto'[d]].kind = "invoke"
      BY <1>1 DEF DepthOK
    <3>. QED BY <3>1, <3>2 DEF DepthOK
  <2>. QED BY <2>1, <2>3, <2>5 DEF RunInv
<1>12. ReportOK'
  <2>1. ASSUME NEW g \in Frames, g # r, Pending(g) PROVE Pending(g)'
    <3>1. CASE frame[g].kind = "run"
      <4>1. frame[g].handler \in 0..g /\ frame[g].handler # None
        BY <1>1, <3>1 DEF FramesOK, EntryOK
      <4>2. frame[g].handler \in 1..MaxFrames
        BY <1>1, <4>1, FramesAssumption DEF FrameTypes, Frames, None
      <4>3. g \in runs[frame[g].handler] \/ g \in lost
        BY <2>1, <3>1 DEF Pending
      <4>. QED BY <1>10, <2>1, <3>1, <4>2, <4>3 DEF Pending
    <3>2. CASE frame[g].kind # "run"
      BY <2>1, <3>2 DEF Pending
    <3>. QED BY <3>1, <3>2
  <2>2. ASSUME frame[r].own, ~EndsSpan(c, r, callback), Pending(r) PROVE Pending(r)'
    <3>1. ~Heard(c, r, callback)
      BY <2>2 DEF EndsSpan
    <3>2. r \in runs[h] \/ r \in lost
      BY <1>3, <1>h, <2>2 DEF Pending
    <3>. QED BY <1>3, <1>10, <1>h, <3>1, <3>2 DEF Pending
  <2>3. ASSUME NEW g \in Frames', frame'[g].own
        PROVE  /\ frame'[g].kind # "invoke" /\ g \notin raced' => reported'[g] <= 1
               /\ up' => reported'[g] >= 1 \/ Pending(g)'
    <3>1. g \in Frames /\ frame[g].own /\ up' = up
      BY <1>2, <2>3
    <3>2. /\ frame[g].kind # "invoke" /\ g \notin raced => reported[g] <= 1
          /\ up => reported[g] >= 1 \/ Pending(g)
      BY <1>1, <3>1 DEF ReportOK
    <3>3. CASE g # r
      BY <1>6, <2>1, <3>1, <3>2, <3>3
    <3>4. CASE g = r /\ EndsSpan(c, r, callback)
      BY <1>6, <3>4
    <3>5. CASE g = r /\ ~EndsSpan(c, r, callback)
      <4>1. up => reported[g] >= 1 \/ Pending(g)'
        BY <2>2, <3>1, <3>2, <3>5
      <4>. QED BY <1>6, <3>1, <3>2, <3>5, <4>1
    <3>. QED BY <3>3, <3>4, <3>5
  <2>. QED BY <2>3, Zenon DEF ReportOK
<1>13. NestOK'
  BY EndRunNest
<1>14. HandsOK'
  <2>1. \A g \in 1..MaxFrames : \A q \in Frames : q \in runs'[g] => q \in runs[g]
    BY <1>10
  <2>. QED BY <1>2, <2>1, HandsKept DEF IInv
<1>. QED BY <1>2, <1>8, <1>9, <1>11, <1>12, <1>13, <1>14 DEF IInv, FrameInv
-----------------------------------------------------------------------------
(* The exit of an invocation                                                *)

(* The state of an invocation is the frame that made it.                    *)
LEMMA StateOf ==
  ASSUME IInv, NEW f \in live, frame[f].kind = "invoke", NEW s, s = frame[f].state
  PROVE  /\ f \in Frames /\ s \in Frames /\ s \in 1..MaxFrames /\ frame[s].kind = "invoke"
         /\ frame[f].own => s = f /\ frame[f].old = None
         /\ frame[s].own => frame[s].state = s /\ (s \in live <=> s \in open)
         /\ s \in open => frame[s].own
<1>1. FrameTypes /\ FramesOK /\ LiveOK
  BY DEF IInv, FrameInv
<1>2. f \in Frames /\ Len(frame) \in Nat /\ Len(frame) <= MaxFrames /\ MaxFrames \in Nat
  BY <1>1, FramesAssumption DEF FrameTypes
<1>3. s \in 1..f /\ frame[s].kind = "invoke" /\ (frame[f].own => s = f /\ frame[f].old = None)
  BY <1>1, <1>2 DEF FramesOK, EntryOK
<1>4. s \in Frames /\ s \in 1..MaxFrames
  BY <1>2, <1>3 DEF Frames
<1>5. frame[s].own => frame[s].state = s /\ (s \in live <=> s \in open)
  BY <1>1, <1>3, <1>4 DEF LiveOK, FramesOK, EntryOK
<1>6. s \in open => frame[s].own
  BY <1>1 DEF LiveOK
<1>. QED BY <1>2, <1>3, <1>4, <1>5, <1>6

(* Who is still inside when an invocation is left.                         *)
LEMMA InsideLeft ==
  ASSUME IInv, NEW f \in live, frame[f].kind = "invoke", NEW s, s = frame[f].state
  PROVE  /\ Cardinality(Inside(s) \ {f}) = depth[s] - 1
         /\ depth[s] > 1 => Inside(s) \ {f} # {}
         /\ depth[s] <= 1 /\ s # f => s \notin open
<1>1. FrameTypes /\ RunTypes /\ DepthOK /\ s \in 1..MaxFrames
  BY StateOf DEF IInv, FrameInv, RunInv
<1>2. f \in Inside(s) /\ IsFiniteSet(Inside(s))
  <2>1. Inside(s) \subseteq 1..Len(frame)
    BY <1>1 DEF Inside, Frames, FrameTypes
  <2>2. IsFiniteSet(1..Len(frame))
    BY <1>1, FS_Interval DEF FrameTypes
  <2>3. IsFiniteSet(Inside(s))
    BY <2>1, <2>2, FS_Subset
  <2>. QED BY <2>3 DEF Inside
<1>3. depth[s] = Cardinality(Inside(s)) /\ depth[s] \in Int
  BY <1>1 DEF DepthOK, RunTypes
<1>4. Cardinality(Inside(s) \ {f}) = depth[s] - 1 /\ IsFiniteSet(Inside(s) \ {f})
  BY <1>2, <1>3, FS_RemoveElement
<1>5. depth[s] > 1 => Inside(s) \ {f} # {}
  BY <1>3, <1>4, FS_EmptySet
<1>6. depth[s] <= 1 => Inside(s) \ {f} = {}
  <2>1. Cardinality(Inside(s) \ {f}) \in Nat
    BY <1>4, FS_CardinalityType
  <2>2. depth[s] <= 1 => Cardinality(Inside(s) \ {f}) = 0
    BY <1>3, <1>4, <2>1
  <2>. QED BY <1>4, <2>2, FS_EmptySet
<1>7. depth[s] <= 1 /\ s # f => s \notin open
  <2>. SUFFICES ASSUME depth[s] <= 1, s # f, s \in open PROVE FALSE
    OBVIOUS
  <2>1. s \in live /\ frame[s].state = s /\ frame[s].kind = "invoke"
    BY StateOf
  <2>2. s \in Inside(s)
    BY <2>1 DEF Inside
  <2>. QED BY <1>6, <2>2
<1>. QED BY <1>4, <1>5, <1>7

(* The runs that close_open_runs ends.                                     *)
LEMMA RunsToClose ==
  ASSUME IInv, NEW s \in Frames, frame[s].kind = "invoke", NEW q \in OwnRuns(s)
  PROVE  /\ q \in Frames /\ q > s /\ frame[q].kind = "run" /\ frame[q].own /\ q \in runs[s]
         /\ q \in open /\ reported[q] = 0
         /\ frame[q].home \in Contexts /\ frame[q].old \in Values /\ frame[q].parent \in Values
<1>1. FrameTypes /\ FramesOK /\ RunTypes /\ RegisteredOK
  BY DEF IInv, FrameInv, RunInv
<1>2. s \in 1..MaxFrames
  BY <1>1, FramesAssumption DEF FrameTypes, Frames
<1>3. q \in runs[s] /\ frame[q].own /\ q \in Frames
  BY <1>1, <1>2 DEF OwnRuns, RunTypes
<1>4. frame[q].kind = "run" /\ frame[q].handler = s /\ q \in open /\ reported[q] = 0
  BY <1>1, <1>2, <1>3 DEF RegisteredOK
<1>5. s \in 0..q /\ s # q /\ frame[q].home \in started /\ frame[q].old \in Values /\ frame[q].parent \in Values
  BY <1>1, <1>3, <1>4 DEF FramesOK, EntryOK
<1>6. frame[q].home \in Contexts
  BY <1>1, <1>5 DEF FrameTypes
<1>7. q > s
  BY <1>3, <1>5 DEF Frames
<1>. QED BY <1>3, <1>4, <1>5, <1>6, <1>7

(* The exit of f from the state s, by which the runs T of a snapshot close. *)
Exits(c, f, s, T, closes, cut, taken) ==
  /\ frame[f].kind = "invoke" /\ s = frame[f].state
  /\ closes = Closes(f, depth[s]) /\ T = Snapshot(s, cut)
  /\ taken \subseteq MayTakeUp(c, f, T)
  /\ CloseWhen(c, f, closes, cut, taken)

LEMMA CloseNest ==
  ASSUME IInv, NEW c \in Contexts, NEW f \in live, NEW s, NEW T, NEW closes, NEW cut, NEW taken,
         Exits(c, f, s, T, closes, cut, taken)
  PROVE  NestOK'
<1>s. s = frame[f].state /\ T = Snapshot(s, cut)
  BY DEF Exits
<1>k. closes = (frame[f].own \/ depth[s] <= 1)
  BY <1>s DEF Exits, Closes
<1>l. PICK left : left = Entered(c) \ ({f} \cup T)
  OBVIOUS
<1>w. PICK worse : worse = IF closes THEN disturbed \cup ClosingDisturbs(c, T) ELSE disturbed
  OBVIOUS
<1>1. frame[f].kind = "invoke" /\ CloseWhen(c, f, closes, cut, taken)
  BY DEF Exits
<1>2. /\ f \in Frames /\ s \in Frames /\ frame[s].kind = "invoke"
      /\ frame[f].own => s = f /\ frame[f].old = None
      /\ depth[s] <= 1 /\ s # f => s \notin open
      /\ \A q \in T : q \in Frames /\ q > s /\ q \in open
  <2>0. frame[f].kind = "invoke"
    BY <1>1
  <2>1. /\ f \in Frames /\ s \in Frames /\ frame[s].kind = "invoke"
        /\ frame[f].own => s = f /\ frame[f].old = None
    BY <2>0, <1>s, StateOf
  <2>2. depth[s] <= 1 /\ s # f => s \notin open
    BY <2>0, <1>s, InsideLeft
  <2>3. \A q \in T : q \in Frames /\ q > s /\ q \in open
    BY <1>s, <2>1, RunsToClose DEF Snapshot
  <2>. QED BY <2>1, <2>2, <2>3
<1>3. FrameInv /\ current \in [Contexts -> Values] /\ started \subseteq Contexts /\ Running(c)
  <2>1. MayLeave(c, f)
    BY <1>1 DEF CloseWhen
  <2>2. Running(c)
    BY <2>1 DEF MayLeave
  <2>. QED BY <2>2 DEF IInv, FrameInv, FrameTypes
<1>4. NoCreateLeft(c) /\ live' \subseteq live /\ UNCHANGED <<frame, origin, started>>
  <2>1. live' = live \ {f} /\ UNCHANGED <<frame, origin, started>>
    BY <1>1 DEF CloseWhen
  <2>. QED BY <1>3, <2>1, NoCreateRunning DEF NoCreateLeft
<1>5. PICK first : first = (closes /\ frame[s].own /\ s = f /\ c = frame[f].home)
  OBVIOUS
<1>6. /\ open' = IF closes THEN open \ (T \cup {s}) ELSE open
      /\ current' = [current EXCEPT ![c] =
                       CASE first  -> frame[f].old
                         [] closes /\ ~first -> AfterClosing(c, T)
                         [] OTHER  -> current[c]]
      /\ disturbed' = IF first /\ left = {} /\ origin[c] = None THEN worse \ {c}
                      ELSE IF frame[f].own /\ (c # frame[f].home \/ left # {})
                           THEN worse \cup {c, frame[f].home} ELSE worse
  BY <1>1, <1>s, <1>l, <1>w, <1>5 DEF CloseWhen
<1>7. CASE ~closes
  <2>1. ~first /\ ~frame[f].own /\ worse = disturbed
    BY <1>5, <1>7, <1>k, <1>w
  <2>2. open' = open /\ current' = current /\ disturbed' = disturbed
    BY <1>3, <1>6, <1>7, <2>1
  <2>3. \A d \in started \ disturbed' : Leaves(d)
    BY <1>4, <2>2 DEF Leaves, Entered
  <2>. QED BY <1>3, <1>4, <2>3, NestLeave
<1>8. CASE closes
  <2>1. /\ open' = open \ (T \cup {s})
        /\ current' = [current EXCEPT ![c] = IF first THEN frame[f].old ELSE AfterClosing(c, T)]
        /\ first = (frame[s].own /\ s = f /\ c = frame[f].home)
        /\ worse = disturbed \cup ClosingDisturbs(c, T)
    <3>1. open' = open \ (T \cup {s})
      BY <1>6, <1>8
    <3>2. current' = [current EXCEPT ![c] = IF first THEN frame[f].old ELSE AfterClosing(c, T)]
      <4>1. CASE first
        BY <1>6, <1>8, <4>1
      <4>2. CASE ~first
        BY <1>6, <1>8, <4>2
      <4>. QED BY <4>1, <4>2
    <3>3. first = (frame[s].own /\ s = f /\ c = frame[f].home)
      BY <1>5, <1>8
    <3>. QED BY <1>8, <1>w, <3>1, <3>2, <3>3
  <2>2. s # f => s \notin open /\ ~frame[f].own
    BY <1>2, <1>8, <1>k
  <2>3. s \in open => frame[s].own
    BY <1>3 DEF FrameInv, LiveOK
  <2>4. ASSUME NEW d \in started \ disturbed', d # c PROVE Leaves(d)
    <3>1. d \in Contexts /\ d \notin worse /\ (frame[f].own => frame[f].home # d)
      BY <1>3, <1>6, <2>1, <2>4
    <3>2. d \notin disturbed /\ \A q \in T : frame[q].home # d
      <4>1. d \notin ClosingDisturbs(c, T)
        BY <2>1, <3>1
      <4>2. ASSUME NEW q \in T, T = {q}, Disturbs(c, q) = {} PROVE frame[q].home = c
        BY <4>2 DEF Disturbs
      <4>. QED BY <2>1, <2>4, <3>1, <4>1, <4>2 DEF ClosingDisturbs
    <3>3. s \in open => frame[s].home # d
      BY <2>2, <2>3, <3>1
    <3>4. Entered(d)' = Entered(d)
      BY <1>4, <2>1, <3>2, <3>3 DEF Entered
    <3>5. current'[d] = current[d]
      BY <1>3, <2>1, <2>4, <3>1
    <3>. QED BY <3>2, <3>4, <3>5 DEF Leaves
  <2>5. ASSUME c \in started \ disturbed', ~first PROVE Leaves(c)
    <3>1. c \notin worse /\ ~(frame[f].own /\ (c # frame[f].home \/ left # {}))
      BY <1>6, <2>5
    <3>2. ~frame[f].own
      BY <1>2, <2>1, <2>5, <3>1
    <3>3. s \notin open
      BY <2>2, <2>3, <3>2
    <3>4. open' = open \ T /\ current'[c] = AfterClosing(c, T) /\ c \notin disturbed /\ c \notin ClosingDisturbs(c, T)
      BY <1>3, <2>1, <2>5, <3>1, <3>3
    <3>5. CASE T = {}
      BY <1>4, <3>4, <3>5 DEF Leaves, AfterClosing, Entered
    <3>6. CASE T # {}
      <4>1. PICK r \in T : T = {r} /\ Disturbs(c, r) = {}
        BY <3>4, <3>6 DEF ClosingDisturbs
      <4>2. r = Max(Entered(c)) /\ frame[r].home = c /\ r \in open /\ r \in Nat
        BY <1>2, <4>1 DEF Disturbs, Frames
      <4>3. Max({r}) = r
        BY <4>2, MaxOfOne
      <4>4. current'[c] = frame[r].old
        BY <3>4, <3>6, <4>1, <4>2, <4>3 DEF AfterClosing, Restored
      <4>5. open' = open \ {r}
        BY <3>4, <4>1
      <4>. QED BY <1>4, <3>4, <4>2, <4>4, <4>5, InnermostLeft
    <3>. QED BY <3>5, <3>6
  <2>6. ASSUME c \in started \ disturbed', first PROVE Leaves(c)
    <3>1. frame[f].own /\ s = f /\ c = frame[f].home /\ frame[f].old = None /\ current'[c] = None
      BY <1>2, <1>3, <2>1, <2>6
    <3>2. left = {}
      BY <1>6, <2>6, <3>1
    <3>3. Entered(c) \subseteq {f} \cup T
      BY <1>l, <3>2
    <3>4. Entered(c)' = {}
      BY <1>4, <2>1, <3>1, <3>3 DEF Entered
    <3>5. origin[c] = None
      <4>. SUFFICES ASSUME origin[c] # None PROVE FALSE
        OBVIOUS
      <4>1. c \notin disturbed
        BY <1>6, <2>1, <2>6, <3>1, <3>2
      <4>2. NestIn(c)
        BY <1>3, <2>6, <4>1 DEF FrameInv, NestOK
      <4>3. f \in Entered(c)
        BY <1>1, <1>2, <1>3, <3>1 DEF FrameInv, LiveOK, Entered
      <4>4. Outside(c, f) = {}
        <5>1. \A q \in T : ~(q < f)
          BY <1>2, <3>1 DEF Frames
        <5>2. ~(f < f)
          BY <1>2 DEF Frames
        <5>. QED BY <3>3, <5>1, <5>2 DEF Outside
      <4>. QED BY <3>1, <4>2, <4>3, <4>4 DEF NestIn, Top
    <3>. QED BY <1>4, <3>1, <3>4, <3>5 DEF Leaves
  <2>7. \A d \in started \ disturbed' : Leaves(d)
    BY <2>4, <2>5, <2>6
  <2>. QED BY <1>3, <1>4, <2>7, NestLeave
<1>. QED BY <1>7, <1>8
(* Each run that is closed is reported once, and a root at least once.      *)
LEMMA ClosingCounts ==
  ASSUME IInv, NEW s \in Frames, frame[s].kind = "invoke", NEW T \in SUBSET OwnRuns(s)
  PROVE  /\ ReportedClosing(T) \in Seq(0..2) /\ Len(ReportedClosing(T)) = Len(frame)
         /\ \A g \in Frames \ T : ReportedClosing(T)[g] = reported[g]
         /\ \A q \in T : ReportedClosing(T)[q] = IF up THEN 1 ELSE 0
<1>1. reported \in [1..Len(frame) -> 0..2] /\ Len(frame) \in Nat
  BY DEF IInv, FrameInv, FrameTypes
<1>2. ReportedClosing(T) \in [1..Len(frame) -> 0..2]
  <2>1. ASSUME NEW f \in 1..Len(frame)
        PROVE  (IF up /\ reported[f] < 2 /\ f \in T THEN reported[f] + 1 ELSE reported[f]) \in 0..2
    <3>1. reported[f] \in 0..2
      BY <1>1
    <3>. QED BY <3>1
  <2>. QED BY <2>1 DEF ReportedClosing, Frames
<1>3. ReportedClosing(T) \in Seq(0..2) /\ Len(ReportedClosing(T)) = Len(frame)
  BY <1>1, <1>2
<1>4. \A g \in Frames \ T : ReportedClosing(T)[g] = reported[g]
  BY DEF ReportedClosing
<1>5. \A q \in T : ReportedClosing(T)[q] = IF up THEN 1 ELSE 0
  <2>1. \A q \in T : q \in Frames /\ reported[q] = 0
    BY RunsToClose
  <2>. QED BY <2>1 DEF ReportedClosing
<1>. QED BY <1>3, <1>4, <1>5

ClosingReports(s, T, closes) ==
  /\ reported' \in Seq(0..2) /\ Len(reported') = Len(frame)
  /\ ~closes => reported' = reported
  /\ \A g \in Frames : g \notin T /\ g # s => reported'[g] = reported[g]
  /\ closes => \A q \in T : reported'[q] = IF up THEN 1 ELSE 0
  /\ closes /\ frame[s].own /\ up => reported'[s] >= 1

LEMMA CloseReports ==
  ASSUME IInv, NEW c \in Contexts, NEW f \in live, NEW s, NEW T, NEW closes, NEW cut, NEW taken,
         Exits(c, f, s, T, closes, cut, taken)
  PROVE  ClosingReports(s, T, closes)
<1>s. /\ s = frame[f].state /\ T = Snapshot(s, cut) /\ frame[f].kind = "invoke" /\ closes \in BOOLEAN
      /\ CloseWhen(c, f, closes, cut, taken)
  BY DEF Exits, Closes
<1>0. T \subseteq OwnRuns(s)
  BY <1>s DEF Snapshot
<1>1. reported \in Seq(0..2) /\ Len(reported) = Len(frame) /\ Len(frame) \in Nat
  BY DEF IInv, FrameInv, FrameTypes
<1>2. s \in Frames /\ frame[s].kind = "invoke"
  BY <1>s, StateOf
<1>3. s \notin T
  BY <1>0, <1>2, RunsToClose
<1>p. PICK p : p = ReportedClosing(T)
  OBVIOUS
<1>4. /\ p \in Seq(0..2) /\ Len(p) = Len(frame) /\ p[s] = reported[s]
      /\ \A g \in Frames \ T : p[g] = reported[g]
      /\ \A q \in T : p[q] = IF up THEN 1 ELSE 0
  <2>1. p \in Seq(0..2) /\ Len(p) = Len(frame)
    BY <1>0, <1>2, <1>p, ClosingCounts
  <2>2. \A g \in Frames \ T : p[g] = reported[g]
    BY <1>0, <1>2, <1>p, ClosingCounts
  <2>3. \A q \in T : p[q] = IF up THEN 1 ELSE 0
    BY <1>0, <1>2, <1>p, ClosingCounts
  <2>. QED BY <1>2, <1>3, <2>1, <2>2, <2>3
<1>5. reported' = IF ~closes THEN reported
                  ELSE IF frame[s].own /\ up /\ reported[s] < 2 THEN [p EXCEPT ![s] = @ + 1] ELSE p
  <2>1. reported' = IF ~closes THEN reported
                    ELSE IF (closes /\ frame[s].own) /\ up /\ reported[s] < 2 THEN [p EXCEPT ![s] = @ + 1] ELSE p
    BY <1>s, <1>p DEF CloseWhen
  <2>2. CASE closes
    BY <2>1, <2>2
  <2>3. CASE ~closes
    BY <2>1, <2>3
  <2>. QED BY <1>s, <2>2, <2>3
<1>6. CASE ~closes
  BY <1>1, <1>5, <1>6 DEF ClosingReports
<1>7. CASE closes /\ frame[s].own /\ up /\ reported[s] < 2
  <2>1. reported' = [p EXCEPT ![s] = p[s] + 1]
    BY <1>5, <1>7
  <2>2. s \in 1..Len(p) /\ p[s] + 1 \in 0..2
    BY <1>1, <1>2, <1>4, <1>7 DEF Frames
  <2>3. reported' \in Seq(0..2) /\ Len(reported') = Len(frame) /\ reported'[s] >= 1
    BY <1>4, <2>1, <2>2
  <2>4. \A g : g \in Frames /\ g # s => reported'[g] = p[g]
    BY <1>4, <2>1 DEF Frames
  <2>5. T \subseteq Frames
    BY <1>0, <1>2, RunsToClose
  <2>. QED BY <1>3, <1>4, <1>7, <2>3, <2>4, <2>5 DEF ClosingReports
<1>8. CASE closes /\ ~(frame[s].own /\ up /\ reported[s] < 2)
  <2>1. reported' = p
    BY <1>5, <1>8
  <2>2. reported[s] \in 0..2
    BY <1>1, <1>2 DEF Frames
  <2>. QED BY <1>4, <1>8, <2>1, <2>2 DEF ClosingReports
<1>. QED BY <1>6, <1>7, <1>8 DEF ClosingReports

(* The registries and the depths that an exit leaves.                      *)
LEMMA CloseRuns ==
  ASSUME IInv, NEW c \in Contexts, NEW f \in live, NEW s, NEW T, NEW closes, NEW cut, NEW taken,
         Exits(c, f, s, T, closes, cut, taken)
  PROVE  RunInv'
<1>s. s = frame[f].state /\ T = Snapshot(s, cut)
  BY DEF Exits
<1>k. closes = (frame[f].own \/ depth[s] <= 1)
  BY <1>s DEF Exits, Closes
<1>1. frame[f].kind = "invoke" /\ CloseWhen(c, f, closes, cut, taken) /\ closes \in BOOLEAN
  BY <1>k DEF Exits
<1>r. ClosingReports(s, T, closes)
  BY CloseReports
<1>2. FrameTypes /\ RunTypes /\ RegisteredOK /\ DepthOK
  BY DEF IInv, FrameInv, RunInv
<1>3. f \in Frames /\ s \in Frames /\ s \in 1..MaxFrames /\ frame[s].kind = "invoke"
  BY <1>1, <1>s, StateOf
<1>4. /\ live' = live \ {f} /\ depth' = [depth EXCEPT ![s] = depth[s] - 1]
      /\ runs' = IF closes THEN [runs EXCEPT ![s] = {}] ELSE runs
      /\ auto' = IF closes THEN [auto EXCEPT ![c] = None] ELSE auto
      /\ open' = IF closes THEN open \ (T \cup {s}) ELSE open
      /\ UNCHANGED <<frame, late>>
  BY <1>1, <1>s DEF CloseWhen
<1>5. Frames' = Frames
  BY <1>4 DEF Frames
<1>6. /\ runs' \in [1..MaxFrames -> SUBSET Frames]
      /\ \A g \in 1..MaxFrames : runs'[g] = IF closes /\ g = s THEN {} ELSE runs[g]
  <2>1. runs \in [1..MaxFrames -> SUBSET Frames]
    BY <1>2 DEF RunTypes
  <2>2. CASE closes
    BY <1>4, <2>1, <2>2
  <2>3. CASE ~closes
    BY <1>4, <2>1, <2>3
  <2>. QED BY <2>2, <2>3
<1>7. auto' \in [Contexts -> 0..Len(frame)] /\ \A d \in Contexts : auto'[d] # None => frame[auto'[d]].kind = "invoke"
  <2>1. auto \in [Contexts -> 0..Len(frame)] /\ Len(frame) \in Nat
    BY <1>2 DEF RunTypes, FrameTypes
  <2>2. CASE closes
    <3>1. auto' = [auto EXCEPT ![c] = None] /\ None \in 0..Len(frame)
      BY <1>4, <2>1, <2>2 DEF None
    <3>2. \A d \in Contexts : auto[d] # None => frame[auto[d]].kind = "invoke"
      BY <1>2 DEF DepthOK
    <3>. QED BY <2>1, <3>1, <3>2
  <2>3. CASE ~closes
    <3>1. auto' = auto
      BY <1>4, <2>3
    <3>2. \A d \in Contexts : auto[d] # None => frame[auto[d]].kind = "invoke"
      BY <1>2 DEF DepthOK
    <3>. QED BY <2>1, <3>1, <3>2
  <2>. QED BY <2>2, <2>3
<1>8. depth' \in [1..MaxFrames -> Int] /\ \A g \in 1..MaxFrames : depth'[g] = IF g = s THEN depth[g] - 1 ELSE depth[g]
  <2>1. depth \in [1..MaxFrames -> Int] /\ depth' = [depth EXCEPT ![s] = depth[s] - 1]
    BY <1>2, <1>4 DEF RunTypes
  <2>2. depth[s] - 1 \in Int
    BY <1>3, <2>1
  <2>. QED BY <1>3, <2>1, <2>2
<1>9. RunTypes'
  BY <1>2, <1>4, <1>5, <1>6, <1>7, <1>8 DEF RunTypes
<1>10. ASSUME NEW g \in 1..MaxFrames, NEW q \in runs'[g]
       PROVE  /\ frame'[q].kind = "run" /\ frame'[q].handler = g
              /\ frame'[q].own => q \in open' /\ reported'[q] = 0
  <2>1. q \in runs[g] /\ ~(closes /\ g = s) /\ q \in Frames
    BY <1>6
  <2>2. frame[q].kind = "run" /\ frame[q].handler = g /\ (frame[q].own => q \in open /\ reported[q] = 0)
    BY <1>2, <2>1 DEF RegisteredOK
  <2>3. CASE closes
    <3>1. q # s
      BY <1>3, <2>2
    <3>2. q \notin T
      BY <1>s, <1>2, <1>3, <2>1, <2>2, <2>3 DEF Snapshot, OwnRuns, RegisteredOK
    <3>3. reported'[q] = reported[q]
      BY <1>r, <2>1, <3>1, <3>2 DEF ClosingReports
    <3>. QED BY <1>4, <2>2, <2>3, <3>1, <3>2, <3>3
  <2>4. CASE ~closes
    <3>1. reported' = reported
      BY <1>r, <2>4 DEF ClosingReports
    <3>. QED BY <1>4, <2>2, <2>4, <3>1
  <2>. QED BY <2>3, <2>4
<1>11. RegisteredOK'
  BY <1>10 DEF RegisteredOK
<1>12. ASSUME NEW g \in 1..MaxFrames
       PROVE  depth'[g] = Cardinality(Inside(g)') /\ (Inside(g)' = {} => runs'[g] \subseteq late')
  <2>1. depth[g] = Cardinality(Inside(g)) /\ (Inside(g) = {} => runs[g] \subseteq late)
    BY <1>2 DEF DepthOK
  <2>2. CASE g # s
    <3>1. Inside(g)' = Inside(g)
      BY <1>4, <1>s, <2>2 DEF Inside
    <3>. QED BY <1>4, <1>6, <1>8, <2>1, <2>2, <3>1
  <2>3. CASE g = s
    <3>0. g = frame[f].state /\ frame[f].kind = "invoke"
      BY <1>1, <1>s, <2>3
    <3>1. Inside(g)' = Inside(g) \ {f}
      BY <1>4 DEF Inside
    <3>2. Cardinality(Inside(g) \ {f}) = depth[g] - 1
      BY <3>0, InsideLeft
    <3>3. ~closes => Inside(g) \ {f} # {}
      <4>1. ~closes => depth[g] > 1
        <5>1. ~closes => ~(depth[s] <= 1)
          BY <1>k
        <5>2. depth[g] \in Int
          BY <1>2 DEF RunTypes
        <5>. QED BY <2>3, <5>1, <5>2
      <4>. QED BY <3>0, <4>1, InsideLeft
    <3>4. closes => runs'[g] = {}
      BY <1>6, <2>3
    <3>. QED BY <1>8, <2>3, <3>1, <3>2, <3>3, <3>4
  <2>. QED BY <2>2, <2>3
<1>13. DepthOK'
  BY <1>4, <1>7, <1>12 DEF DepthOK
<1>. QED BY <1>9, <1>11, <1>13 DEF RunInv

LEMMA CloseLive ==
  ASSUME IInv, NEW c \in Contexts, NEW f \in live, NEW s, NEW T, NEW closes, NEW cut, NEW taken,
         Exits(c, f, s, T, closes, cut, taken)
  PROVE  FrameInv'
<1>s. s = frame[f].state /\ T = Snapshot(s, cut)
  BY DEF Exits
<1>k. closes = (frame[f].own \/ depth[s] <= 1)
  BY <1>s DEF Exits, Closes
<1>1. frame[f].kind = "invoke" /\ CloseWhen(c, f, closes, cut, taken) /\ closes \in BOOLEAN
  BY <1>k DEF Exits
<1>r. ClosingReports(s, T, closes)
  BY CloseReports
<1>2. FrameTypes /\ FramesOK /\ LiveOK
  BY DEF IInv, FrameInv
<1>3. /\ f \in Frames /\ s \in Frames /\ frame[s].kind = "invoke" /\ (frame[f].own => s = f)
      /\ depth[s] <= 1 /\ s # f => s \notin open
  <2>1. f \in Frames /\ s \in Frames /\ frame[s].kind = "invoke" /\ (frame[f].own => s = f)
    BY <1>1, <1>s, StateOf
  <2>. QED BY <1>1, <1>s, <2>1, InsideLeft
<1>4. \A q \in T : frame[q].kind = "run" /\ frame[q].home \in Contexts /\ frame[q].old \in Values
                  /\ frame[q].parent \in Values /\ q \in Frames
  BY <1>s, <1>3, RunsToClose DEF Snapshot
<1>5. /\ live' = live \ {f}
      /\ open' = IF closes THEN open \ (T \cup {s}) ELSE open
      /\ lost' = IF closes THEN lost \cup (OwnRuns(s) \ T) ELSE lost
      /\ UNCHANGED <<frame, started, base, streams, finalized, up, origin>>
  BY <1>1, <1>s DEF CloseWhen
<1>6. FramesOK' /\ Values' = Values /\ Frames' = Frames
  BY <1>2, <1>5, SameFrames
<1>7. /\ reported' \in Seq(0..2) /\ Len(reported') = Len(frame)
      /\ \A g \in Frames : g \notin T /\ g # s => reported'[g] = reported[g]
  BY <1>r DEF ClosingReports
<1>8. LiveOK'
  <2>1. \A g \in open' : frame'[g].own
    BY <1>2, <1>5 DEF LiveOK
  <2>2. \A g \in live' : frame'[g].kind \in {"scope", "create"} =>
          g \in open' /\ reported'[g] = 0 /\ g \notin streams'
    BY <1>2, <1>3, <1>4, <1>5, <1>7 DEF LiveOK, FrameTypes
  <2>3. \A g \in Frames' : frame'[g].kind = "invoke" /\ frame'[g].own => (g \in live' <=> g \in open')
    <3>1. ASSUME NEW g \in Frames, frame[g].kind = "invoke", frame[g].own
          PROVE  g \in live' <=> g \in open'
      <4>1. g \in live <=> g \in open
        BY <1>2, <3>1 DEF LiveOK
      <4>2. g \notin T
        BY <1>4, <3>1
      <4>3. g = f => s = f /\ closes
        BY <1>3, <1>k, <3>1
      <4>4. g = s /\ closes /\ s # f => s \notin open
        BY <1>3, <1>k
      <4>. QED BY <1>5, <4>1, <4>2, <4>3, <4>4
    <3>. QED BY <1>5, <1>6, <3>1
  <2>4. \A g \in streams' : g \notin live' /\ frame'[g].kind = "create" /\ (g \notin finalized' => reported'[g] = 0)
    BY <1>2, <1>3, <1>4, <1>5, <1>7 DEF LiveOK, FrameTypes
  <2>5. finalized' \subseteq streams'
    BY <1>2, <1>5 DEF LiveOK
  <2>. QED BY <2>1, <2>2, <2>3, <2>4, <2>5 DEF LiveOK
<1>9. FrameTypes'
  <2>1. live' \in SUBSET Frames' /\ open' \in SUBSET Frames' /\ lost' \in SUBSET Frames'
    <3>1. OwnRuns(s) \subseteq Frames
      BY <1>3, RunsToClose
    <3>. QED BY <1>2, <1>5, <1>6, <3>1 DEF FrameTypes
  <2>2. current' \in [Contexts -> Values']
    <3>1. current \in [Contexts -> Values] /\ frame[f].old \in Values
      BY <1>2, <1>3 DEF FrameTypes, FramesOK, EntryOK
    <3>2. AfterClosing(c, T) \in Values
      <4>1. CASE T = {}
        BY <3>1, <4>1 DEF AfterClosing
      <4>2. CASE T # {}
        <5>1. T \subseteq 1..Len(frame) /\ Len(frame) \in Nat
          BY <1>2, <1>4 DEF FrameTypes, Frames
        <5>2. Max(T) \in T
          BY <4>2, <5>1, Innermost
        <5>. QED BY <1>4, <4>2, <5>2 DEF AfterClosing, Restored
      <4>. QED BY <4>1, <4>2
    <3>3. \E v \in Values : current' = [current EXCEPT ![c] = v]
      <4>1. current[c] \in Values
        BY <3>1
      <4>2. PICK v : v = CASE closes /\ frame[s].own /\ s = f /\ c = frame[f].home -> frame[f].old
                           [] closes /\ ~(closes /\ frame[s].own /\ s = f /\ c = frame[f].home) -> AfterClosing(c, T)
                           [] OTHER -> current[c]
        OBVIOUS
      <4>3. v \in Values
        BY <3>1, <3>2, <4>1, <4>2
      <4>4. current' = [current EXCEPT ![c] = v]
        BY <1>1, <1>s, <4>2 DEF CloseWhen
      <4>. QED BY <4>3, <4>4
    <3>. QED BY <1>6, <3>1, <3>3
  <2>3. disturbed' \in SUBSET Contexts
    <3>1. disturbed \subseteq Contexts /\ frame[f].home \in Contexts
      BY <1>2, <1>3 DEF FrameTypes, FramesOK, EntryOK
    <3>2. ClosingDisturbs(c, T) \subseteq Contexts
      BY <1>4 DEF ClosingDisturbs
    <3>w. PICK worse : worse = IF closes THEN disturbed \cup ClosingDisturbs(c, T) ELSE disturbed
      OBVIOUS
    <3>3. worse \subseteq Contexts
      BY <3>1, <3>2, <3>w
    <3>4. \/ disturbed' = worse \/ disturbed' = worse \ {c} \/ disturbed' = worse \cup {c, frame[f].home}
      BY <1>1, <1>s, <3>w DEF CloseWhen
    <3>. QED BY <3>1, <3>3, <3>4
  <2>4. Len(reported') = Len(frame')
    BY <1>5, <1>7
  <2>. QED BY <1>2, <1>5, <1>6, <1>7, <2>1, <2>2, <2>3, <2>4 DEF FrameTypes
<1>10. NestOK'
  BY CloseNest
<1>. QED BY <1>6, <1>8, <1>9, <1>10 DEF FrameInv

(* What another thread has in its hands is no longer registered.           *)
LEMMA CloseHands ==
  ASSUME IInv, NEW c \in Contexts, NEW f \in live, NEW s, NEW T, NEW closes, NEW cut, NEW taken,
         Exits(c, f, s, T, closes, cut, taken)
  PROVE  HandsOK'
<1>s. s = frame[f].state /\ T = Snapshot(s, cut) /\ closes \in BOOLEAN
  BY DEF Exits, Closes
<1>1. FrameTypes /\ RunTypes /\ RegisteredOK /\ HandsOK
  BY DEF IInv, FrameInv, RunInv
<1>2. s \in Frames /\ s \in 1..MaxFrames /\ frame[s].kind = "invoke"
  BY <1>s, StateOf DEF Exits
<1>3. /\ runs' = IF closes THEN [runs EXCEPT ![s] = {}] ELSE runs
      /\ hands' = IF closes THEN hands \cup taken ELSE hands
      /\ raced' = IF closes THEN raced \cup {h[2] : h \in taken} ELSE raced
      /\ frame' = frame
  BY <1>s DEF Exits, CloseWhen
<1>4. Frames' = Frames /\ \A g \in 1..MaxFrames : runs'[g] = IF closes /\ g = s THEN {} ELSE runs[g]
  <2>1. runs \in [1..MaxFrames -> SUBSET Frames]
    BY <1>1 DEF RunTypes
  <2>. QED BY <1>3, <2>1 DEF Frames
<1>5. \A p \in taken : p \in Contexts \X Frames /\ frame[p[2]].kind = "run" /\ frame[p[2]].handler = s
  <2>1. taken \subseteq (started \ {c}) \X T /\ started \subseteq Contexts
    BY <1>1 DEF Exits, MayTakeUp, FrameTypes
  <2>2. \A q \in T : q \in Frames /\ frame[q].kind = "run" /\ frame[q].handler = s
    BY <1>1, <1>2, <1>s, RunsToClose DEF Snapshot, OwnRuns, RegisteredOK
  <2>. QED BY <2>1, <2>2
<1>6. raced' \subseteq Frames' /\ hands' \subseteq Contexts \X Frames'
  BY <1>1, <1>3, <1>4, <1>5 DEF HandsOK
<1>7. ASSUME NEW p \in hands'
      PROVE  /\ frame'[p[2]].kind = "run" /\ p[2] \in raced'
             /\ frame'[p[2]].handler \in 1..MaxFrames /\ p[2] \notin runs'[frame'[p[2]].handler]
  <2>1. CASE p \in hands
    BY <1>1, <1>3, <1>4, <2>1 DEF HandsOK
  <2>2. CASE p \notin hands
    <3>1. closes /\ p \in taken
      BY <1>3, <2>2
    <3>. QED BY <1>2, <1>3, <1>4, <1>5, <3>1
  <2>. QED BY <2>1, <2>2
<1>. QED BY <1>6, <1>7 DEF HandsOK

LEMMA CloseStep ==
  ASSUME IInv, NEW c \in Contexts, NEW f \in live, NEW s, NEW T, NEW closes, NEW cut, NEW taken,
         Exits(c, f, s, T, closes, cut, taken)
  PROVE  IInv'
<1>s. s = frame[f].state /\ T = Snapshot(s, cut)
  BY DEF Exits
<1>k. closes = (frame[f].own \/ depth[s] <= 1)
  BY <1>s DEF Exits, Closes
<1>1. frame[f].kind = "invoke" /\ CloseWhen(c, f, closes, cut, taken) /\ closes \in BOOLEAN
  BY <1>k DEF Exits
<1>r. ClosingReports(s, T, closes)
  BY CloseReports
<1>2. FrameTypes /\ FramesOK /\ RunTypes /\ ReportOK
  BY DEF IInv, FrameInv, RunInv
<1>3. s \in Frames /\ frame[s].kind = "invoke" /\ (frame[f].own => s = f)
  BY <1>1, <1>s, StateOf
<1>4. \A q \in T : frame[q].kind = "run" /\ frame[q].own /\ q \in runs[s]
  BY <1>s, <1>3, RunsToClose DEF Snapshot
<1>5. /\ live' = live \ {f} /\ runs' = IF closes THEN [runs EXCEPT ![s] = {}] ELSE runs
      /\ lost' = IF closes THEN lost \cup (OwnRuns(s) \ T) ELSE lost
      /\ raced \subseteq raced'
      /\ UNCHANGED <<frame, streams, finalized, up>>
  BY <1>1, <1>s DEF CloseWhen
<1>6. Frames' = Frames /\ runs \in [1..MaxFrames -> SUBSET Frames]
  BY <1>2, <1>5 DEF Frames, RunTypes
<1>7. /\ reported' \in Seq(0..2) /\ Len(reported') = Len(frame)
      /\ ~closes => reported' = reported
      /\ \A g \in Frames : g \notin T /\ g # s => reported'[g] = reported[g]
  BY <1>r DEF ClosingReports
<1>8. closes => \A q \in T : reported'[q] = IF up THEN 1 ELSE 0
  BY <1>r DEF ClosingReports
<1>9. closes /\ frame[s].own /\ up => reported'[s] >= 1
  BY <1>r DEF ClosingReports
<1>10. ASSUME NEW g \in Frames, g # f, g \notin T \/ ~closes, frame[g].own, Pending(g)
       PROVE  Pending(g)'
  <2>1. CASE frame[g].kind = "run"
    <3>1. g \in runs[frame[g].handler] \/ g \in lost
      BY <1>10, <2>1 DEF Pending
    <3>2. frame[g].handler \in 1..MaxFrames
      <4>1. frame[g].handler \in 0..g /\ frame[g].handler # None
        BY <1>2, <2>1 DEF FramesOK, EntryOK
      <4>. QED BY <1>2, <4>1, FramesAssumption DEF FrameTypes, Frames, None
    <3>3. closes /\ frame[g].handler = s /\ g \in runs[s] => g \in lost'
      BY <1>5, <1>10 DEF OwnRuns
    <3>4. g \in runs'[frame[g].handler] \/ g \in lost'
      BY <1>5, <1>6, <3>1, <3>2, <3>3
    <3>. QED BY <1>5, <2>1, <3>4 DEF Pending
  <2>2. CASE frame[g].kind # "run"
    BY <1>5, <1>10, <2>2 DEF Pending
  <2>. QED BY <2>1, <2>2
<1>11. ASSUME NEW g \in Frames', frame'[g].own
       PROVE  /\ frame'[g].kind # "invoke" /\ g \notin raced' => reported'[g] <= 1
              /\ up' => reported'[g] >= 1 \/ Pending(g)'
  <2>1. g \in Frames /\ frame[g].own /\ frame' = frame /\ up' = up
    BY <1>5, <1>6, <1>11
  <2>2. /\ frame[g].kind # "invoke" /\ g \notin raced => reported[g] <= 1
        /\ up => reported[g] >= 1 \/ Pending(g)
    BY <1>2, <2>1 DEF ReportOK
  <2>3. CASE closes /\ g \in T
    BY <1>8, <2>1, <2>3
  <2>4. CASE closes /\ g = s
    BY <1>3, <1>9, <2>1, <2>4
  <2>5. CASE ~closes \/ (g \notin T /\ g # s)
    <3>1. reported'[g] = reported[g]
      BY <1>7, <2>1, <2>5
    <3>2. g # f
      BY <1>3, <1>k, <2>1, <2>5
    <3>3. Pending(g) => Pending(g)'
      BY <1>10, <2>1, <2>5, <3>2
    <3>. QED BY <1>5, <2>1, <2>2, <3>1, <3>3
  <2>. QED BY <2>3, <2>4, <2>5
<1>12. ReportOK'
  BY <1>11, Zenon DEF ReportOK
<1>13. FrameInv' /\ RunInv' /\ HandsOK'
  BY CloseLive, CloseRuns, CloseHands
<1>. QED BY <1>12, <1>13 DEF IInv

(* The second end of a run that was closed leaves what is registered as it *)
(* is, and both its contexts out of order.                                 *)
LEMMA EndAgainStep ==
  ASSUME IInv, NEW c \in Contexts, NEW r \in Frames, NEW copied \in BOOLEAN, EndAgain(c, r, copied)
  PROVE  IInv'
<1>. USE DEF EndAgain
<1>1. FrameInv /\ FrameTypes /\ FramesOK /\ LiveOK /\ RunTypes /\ RegisteredOK /\ DepthOK /\ ReportOK /\ HandsOK
  BY DEF IInv, FrameInv, RunInv
<1>2. FramesOK' /\ Values' = Values /\ Frames' = Frames
  BY <1>1, SameFrames
<1>h. PICK h : h = frame[r].handler
  OBVIOUS
<1>3. frame[r].kind = "run" /\ r \in raced /\ h \in 1..MaxFrames /\ r \notin runs[h]
  <2>1. \A p : p = <<c, r>> => p \in hands /\ p[2] = r
    OBVIOUS
  <2>. QED BY <1>1, <1>h, <2>1 DEF HandsOK
<1>4. /\ reported' \in Seq(0..2) /\ Len(reported') = Len(frame)
      /\ \A g \in Frames \ {r} : reported'[g] = reported[g]
      /\ up /\ reported[r] >= 1 => reported'[r] >= 1
  BY <1>1, ReportCounts
<1>5. FrameTypes'
  <2>1. Restored(c, r) \in Values /\ frame[r].home \in Contexts
    BY <1>1 DEF Restored, FramesOK, EntryOK, FrameTypes
  <2>2. current' \in [Contexts -> Values']
    BY <1>1, <1>2, <2>1 DEF FrameTypes
  <2>3. disturbed' \in SUBSET Contexts
    BY <1>1, <2>1 DEF FrameTypes
  <2>4. Len(reported') = Len(frame')
    BY <1>4
  <2>. QED BY <1>1, <1>2, <1>4, <2>2, <2>3, <2>4 DEF FrameTypes
<1>6. LiveOK'
  <2>1. \A g \in live' : frame'[g].kind \in {"scope", "create"} =>
          g \in open' /\ reported'[g] = 0 /\ g \notin streams'
    BY <1>1, <1>3, <1>4 DEF LiveOK, FrameTypes
  <2>2. \A g \in streams' : g \notin live' /\ frame'[g].kind = "create" /\ (g \notin finalized' => reported'[g] = 0)
    BY <1>1, <1>3, <1>4 DEF LiveOK, FrameTypes
  <2>. QED BY <1>1, <1>2, <2>1, <2>2 DEF LiveOK
<1>7. NestOK'
  <2>1. current \in [Contexts -> Values] /\ started \subseteq Contexts
    BY <1>1 DEF FrameTypes
  <2>2. \A d \in started \ disturbed' : Leaves(d)
    BY <2>1 DEF Leaves, Entered
  <2>. QED BY <1>1, <2>2, NestLeave
<1>8. RunInv'
  <2>1. RunTypes'
    BY <1>1, <1>2 DEF RunTypes
  <2>2. ASSUME NEW g \in 1..MaxFrames, NEW q \in runs'[g]
        PROVE  /\ frame'[q].kind = "run" /\ frame'[q].handler = g
               /\ frame'[q].own => q \in open' /\ reported'[q] = 0
    <3>1. q \in runs[g] /\ q \in Frames
      BY <1>1 DEF RunTypes
    <3>2. q # r
      BY <1>1, <1>3, <1>h, <3>1 DEF RegisteredOK
    <3>. QED BY <1>1, <1>4, <3>1, <3>2 DEF RegisteredOK
  <2>3. RegisteredOK'
    BY <2>2 DEF RegisteredOK
  <2>4. \A s : Inside(s)' = Inside(s)
    BY DEF Inside
  <2>5. DepthOK'
    BY <1>1, <2>4 DEF DepthOK
  <2>. QED BY <2>1, <2>3, <2>5 DEF RunInv
<1>9. ReportOK'
  <2>1. \A g : Pending(g)' = Pending(g)
    BY DEF Pending
  <2>2. ASSUME NEW g \in Frames', frame'[g].own
        PROVE  /\ frame'[g].kind # "invoke" /\ g \notin raced' => reported'[g] <= 1
               /\ up' => reported'[g] >= 1 \/ Pending(g)'
    BY <1>1, <1>2, <1>3, <1>4, <2>1, <2>2 DEF ReportOK
  <2>. QED BY <2>2, Zenon DEF ReportOK
<1>10. HandsOK'
  BY <1>1, <1>2, HandsKept
<1>. QED BY <1>2, <1>5, <1>6, <1>7, <1>8, <1>9, <1>10 DEF IInv, FrameInv
-----------------------------------------------------------------------------
LEMMA OpenAIInv == IInv /\ OpenAIStep => IInv'
<1>. SUFFICES ASSUME IInv, OpenAIStep PROVE IInv'
  OBVIOUS
<1>0. UNCHANGED <<auto, depth, runs, late, hands, raced>>
  BY DEF OpenAIStep
<1>1. ASSUME NEW c \in Contexts, NEW span \in {"tool", "llm"}, EnterScope(c, span) PROVE IInv'
  BY <1>0, <1>1, EnterScopeStep
<1>2. ASSUME NEW c \in Contexts, Create(c) PROVE IInv'
  BY <1>0, <1>2, CreateStep
<1>3. ASSUME NEW c \in Contexts, NEW f \in live, LeaveScope(c, f) PROVE IInv'
  BY <1>0, <1>3, LeaveScopeStep
<1>4. ASSUME NEW c \in Contexts, NEW f \in live, NEW stream \in BOOLEAN, CreateReturns(c, f, stream) PROVE IInv'
  BY <1>0, <1>4, CreateReturnsStep
<1>5. ASSUME NEW c \in Contexts, NEW f \in live, CreateRaises(c, f) PROVE IInv'
  BY <1>0, <1>5, CreateRaisesStep
<1>6. ASSUME NEW c \in Contexts, NEW f \in live, CreateCancelled(c, f) PROVE IInv'
  BY <1>0, <1>6, CreateCancelledStep
<1>7. ASSUME NEW f \in streams, StreamEnds(f) PROVE IInv'
  BY <1>0, <1>7, StreamEndsStep
<1>. QED BY <1>1, <1>2, <1>3, <1>4, <1>5, <1>6, <1>7 DEF OpenAIStep, OpenAINext

LEMMA NextInv == IInv /\ [Next]_vars => IInv'
<1>. SUFFICES ASSUME IInv, [Next]_vars PROVE IInv'
  OBVIOUS
<1>1. CASE OpenAIStep
  BY <1>1, OpenAIInv
<1>2. ASSUME NEW c \in Contexts, NEW d \in Contexts, NEW copied \in BOOLEAN, StartTask(c, d, copied) PROVE IInv'
  BY <1>2, StartTaskStep
<1>3. ASSUME NEW c \in Contexts, NEW held \in BOOLEAN, Invoke(c, held) PROVE IInv'
  BY <1>3, InvokeStep
<1>4. ASSUME NEW c \in Contexts, NEW k \in Callers(c) \ {None},
             StartLLM(c, k) \/ StartChain(c, k) \/ StartTool(c, k) \/ StartRetriever(c, k)
      PROVE  IInv'
  <2>1. PICK kind \in {"llm", "none", "tool"} : StartRun(c, kind, k)
    BY <1>4 DEF StartLLM, StartChain, StartTool, StartRetriever
  <2>. QED BY <2>1, StartRunStep
<1>5. ASSUME NEW c \in Contexts, NEW f \in live, NEW callback, EndRun(c, f, callback) PROVE IInv'
  BY <1>5, EndRunStep
<1>6. ASSUME NEW c \in Contexts, NEW f \in live, ExitInvocation(c, f) PROVE IInv'
  <2>1. PICK closes : closes = Closes(f, depth[frame[f].state])
    OBVIOUS
  <2>2. PICK cut \in Snapshots(c) :
          \E taken \in SUBSET MayTakeUp(c, f, Snapshot(frame[f].state, cut)) : CloseWhen(c, f, closes, cut, taken)
    BY <1>6, <2>1 DEF ExitInvocation, ExitWhen
  <2>3. PICK taken \in SUBSET MayTakeUp(c, f, Snapshot(frame[f].state, cut)) : CloseWhen(c, f, closes, cut, taken)
    BY <2>2
  <2>4. Exits(c, f, frame[f].state, Snapshot(frame[f].state, cut), closes, cut, taken)
    BY <1>6, <2>1, <2>3 DEF Exits, ExitInvocation, ExitWhen
  <2>. QED BY <2>4, CloseStep
<1>7. ASSUME NEW c \in Contexts, ShutdownAll(c) PROVE IInv'
  BY <1>7, ShutdownStep
<1>8. CASE UNCHANGED vars
  <2>. USE <1>8 DEF vars, frameVars
  <2>1. FrameTypes' /\ LiveOK'
    BY DEF IInv, FrameInv, FrameTypes, LiveOK, Values, Frames
  <2>2. FramesOK'
    BY SameFrames DEF IInv, FrameInv
  <2>3. NestOK'
    <3>1. \A d \in started \ disturbed' : Leaves(d)
      BY DEF Leaves, Entered
    <3>. QED BY <3>1, NestLeave DEF IInv
  <2>4. RunInv'
    <3>1. RunTypes' /\ RegisteredOK'
      BY DEF IInv, RunInv, RunTypes, RegisteredOK, Frames
    <3>2. \A s : Inside(s)' = Inside(s)
      BY DEF Inside
    <3>3. DepthOK'
      BY <3>2 DEF IInv, RunInv, DepthOK
    <3>. QED BY <3>1, <3>3 DEF RunInv
  <2>5. ReportOK'
    BY DEF IInv, ReportOK, Pending, Frames
  <2>6. HandsOK'
    <3>1. Frames' = Frames
      BY DEF Frames
    <3>. QED BY <3>1, HandsKept DEF IInv
  <2>. QED BY <2>1, <2>2, <2>3, <2>4, <2>5, <2>6 DEF IInv, FrameInv
<1>9. ASSUME NEW c \in Contexts, NEW r \in Frames, NEW copied \in BOOLEAN, EndAgain(c, r, copied) PROVE IInv'
  BY <1>9, EndAgainStep
<1>. QED BY <1>1, <1>2, <1>3, <1>4, <1>5, <1>6, <1>7, <1>8, <1>9 DEF Next

(* The inductive invariant holds in every state of the system.             *)
LEMMA Inductive == Spec => []IInv
<1>. QED BY InitInv, NextInv, PTL DEF Spec

-----------------------------------------------------------------------------
(* The properties                                                           *)

(* No span of a call, of a stream or of a callback is reported twice, and  *)
(* none is dropped while the SDK is up, whoever ends it first (an end      *)
(* callback, close_open_runs, the wrapper of create or of a stream), in    *)
(* any context, for any number of contexts and calls: but for the runs     *)
(* that a closing thread and another one had in their hands at once, and   *)
(* for those that the code lost, as those registered after a snapshot.     *)
THEOREM EverySpanIsReported == Spec => []SpanReportedOnce
<1>1. IInv => SpanReportedOnce
  <2>. SUFFICES ASSUME IInv, NEW f \in Frames, frame[f].own
                PROVE  /\ frame[f].kind # "invoke" /\ f \notin raced => reported[f] <= 1
                       /\ up /\ f \notin live \cup Registered \cup lost \cup (streams \ finalized) => reported[f] >= 1
    BY DEF SpanReportedOnce
  <2>1. /\ frame[f].kind # "invoke" /\ f \notin raced => reported[f] <= 1
        /\ up => reported[f] >= 1 \/ Pending(f)
    BY DEF IInv, ReportOK
  <2>2. Pending(f) => f \in live \cup Registered \cup lost \cup (streams \ finalized)
    BY DEF Pending, Registered
  <2>. QED BY <2>1, <2>2
<1>. QED BY <1>1, Inductive, PTL

(* While the calls of a context are left in the order of resets, its       *)
(* ContextVar shows the innermost span that is open in it, and after the   *)
(* last one what the context started with: no handler, wrapper or closed   *)
(* invocation leaves the span of a finished call behind.                   *)
THEOREM ContextShowsInnermost == Spec => []CurrentIsInnermost
<1>1. IInv => CurrentIsInnermost
  BY DEF IInv, FrameInv, NestOK, NestIn, Top, CurrentIsInnermost
<1>. QED BY <1>1, Inductive, PTL

(* A callback and the patch of the SDK never open an LLM span directly     *)
(* inside another one of the same context.                                 *)
THEOREM NoNestedLLMSpan == Spec => []OneLLMSpanPerCall
<1>1. IInv => OneLLMSpanPerCall
  <2>. SUFFICES ASSUME IInv, NEW f \in open, frame[f].span = "llm", frame[f].kind # "scope",
                       frame[f].home \notin disturbed
                PROVE  ~LogicalLLMActive(SpanAround(f))
    BY DEF OneLLMSpanPerCall
  <2>1. f \in Frames /\ frame[f].own
    BY DEF IInv, FrameInv, FrameTypes, LiveOK
  <2>2. frame[f].home \in started /\ ~LogicalLLMActive(frame[f].old)
    BY <2>1 DEF IInv, FrameInv, FramesOK, EntryOK
  <2>3. f \in Entered(frame[f].home) /\ NestIn(frame[f].home)
    BY <2>2 DEF IInv, FrameInv, NestOK, Entered
  <2>4. frame[f].old = SpanAround(f)
    BY <2>3 DEF NestIn, Top, Outside, SpanAround
  <2>5. \A x : x = frame[f].old => ~LogicalLLMActive(x)
    BY <2>2 DEF LogicalLLMActive, SpanKind
  <2>. QED BY <2>4, <2>5
<1>. QED BY <1>1, Inductive, PTL

(* When the last of the invocations that share a state is over, no run of  *)
(* its handler is left in the registry but those that began later.         *)
THEOREM InvocationClosesItsRuns == Spec => []ClosedInvocationLeavesNoRun
<1>1. IInv => ClosedInvocationLeavesNoRun
  <2>. SUFFICES ASSUME IInv, NEW s \in Frames, \A f \in live : frame[f].state # s
                PROVE  runs[s] \subseteq late
    BY DEF ClosedInvocationLeavesNoRun
  <2>1. s \in 1..MaxFrames
    BY FramesAssumption DEF IInv, FrameInv, FrameTypes, Frames
  <2>2. Inside(s) = {}
    BY DEF Inside
  <2>. QED BY <2>1, <2>2 DEF IInv, RunInv, DepthOK
<1>. QED BY <1>1, Inductive, PTL
=============================================================================
