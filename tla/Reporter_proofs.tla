----------------------------- MODULE Reporter_proofs -----------------------------
(***************************************************************************)
(* The SDK reporter keeps the order of what it accepted, leaves nothing    *)
(* behind when it has drained, and implements Delivery, for any number of  *)
(* business threads, any records, any queue size and any batch size.       *)
(***************************************************************************)
EXTENDS Reporter, FiniteSetTheorems, WellFoundedInduction, TLAPS

(* What still has to go out, in the order in which it will.                *)
Waiting == batch \o queue
Holding == {c \in Callers : hand[c] # NoRecord}

TypeOK ==
  /\ fresh \in SUBSET Records
  /\ hand \in [Callers -> Records \cup {NoRecord}]
  /\ queue \in Seq(Records)
  /\ batch \in Seq(Records)
  /\ accepted \in Seq(Records)
  /\ loop \in {"sleep", "sending", "requeue", "requeue_add", "finished", "drain", "drained",
               "clearing", "stopped", "off"}
  /\ answer \in {"none", "ok", "failed"}
  /\ stopFlag \in BOOLEAN
  /\ draining \in BOOLEAN
  /\ stopper \in {"idle", "waiting"}
  /\ sent \in SUBSET Records
  /\ dropped \in SUBSET Records
  /\ mark \in Nat

(* Who runs when: stop() on the loop, the flush task, the stopping thread. *)
ControlOK ==
  /\ stopFlag <=> stopper = "waiting" \/ loop = "off"
  /\ loop = "off" => stopper = "idle"
  /\ draining => stopper = "waiting" /\ loop \in {"drain", "sending", "drained", "clearing", "stopped"}
  /\ loop \in {"drain", "drained", "clearing", "stopped"} => draining
  /\ loop = "finished" => stopFlag
  /\ batch # <<>> => loop \in {"sending", "requeue", "requeue_add"}
  /\ loop = "requeue_add" => batch # <<>>

(* A record is with one caller, accepted, or dropped, and never again fresh. *)
OnceOK ==
  /\ \A i, j \in 1..Len(accepted) : accepted[i] = accepted[j] => i = j
  /\ fresh \cap (Range(accepted) \cup dropped) = {}
  /\ \A c \in Holding : hand[c] \notin fresh \cup Range(accepted) \cup dropped
  /\ \A c, d \in Holding : hand[c] = hand[d] => c = d

(* What waits was accepted, is not sent, and is dropped only on its way out. *)
PlaceOK ==
  /\ Range(Waiting) \cup sent \subseteq Range(accepted)
  /\ sent \cap Range(Waiting) = {}
  /\ loop # "clearing" => dropped \cap Range(Waiting) = {}

OrderOK == \A i, j \in 1..Len(Waiting) : i < j => AcceptedBefore(Waiting[i], Waiting[j])

(* Each caller, and the requeueing loop, may add a record to a queue that  *)
(* has filled up since its check.                                          *)
BoundOK ==
  Len(queue) + Cardinality(Holding) + (IF loop = "requeue_add" THEN 1 ELSE 0)
    <= MaxQueue + Cardinality(Callers)

(* What is queued behind a finished drain came after the call of stop_sync. *)
DrainOK ==
  /\ mark <= Len(accepted)
  /\ loop = "stopped" => \A r \in InQueue : \E i \in 1..Len(accepted) : i > mark /\ accepted[i] = r

(* Of a batch the Core answered, it has stored what it can store.            *)
AnswerOK == answer = "ok" => loop = "sending" /\ Range(batch) \ Unstorable \subseteq stored

IInv == TypeOK /\ ControlOK /\ OnceOK /\ PlaceOK /\ OrderOK /\ BoundOK /\ DrainOK /\ AnswerOK

-----------------------------------------------------------------------------
(* Sequences                                                                *)

LEMMA RangeElements ==
  ASSUME NEW S, NEW s \in Seq(S)
  PROVE  /\ Range(s) = {s[i] : i \in 1..Len(s)}
         /\ Range(s) \subseteq S
BY DEF Range

LEMMA Concatenation ==
  ASSUME NEW S, NEW s \in Seq(S), NEW t \in Seq(S)
  PROVE  /\ s \o t \in Seq(S) /\ Len(s \o t) = Len(s) + Len(t)
         /\ \A i \in 1..Len(s) : (s \o t)[i] = s[i]
         /\ \A i \in 1..Len(t) : (s \o t)[Len(s) + i] = t[i]
         /\ Range(s \o t) = Range(s) \cup Range(t)
<1>. DEFINE c == s \o t
<1>1. /\ c \in Seq(S) /\ Len(c) = Len(s) + Len(t)
      /\ \A i \in 1..Len(s) : c[i] = s[i]
      /\ \A i \in 1..Len(t) : c[Len(s) + i] = t[i]
  OBVIOUS
<1>. HIDE DEF c
<1>2. /\ Range(c) = {c[i] : i \in 1..Len(c)}
      /\ Range(s) = {s[i] : i \in 1..Len(s)}
      /\ Range(t) = {t[i] : i \in 1..Len(t)}
  BY <1>1, RangeElements
<1>3. ASSUME NEW i \in 1..Len(c) PROVE c[i] \in Range(s) \cup Range(t)
  <2>1. CASE i <= Len(s)
    BY <1>1, <1>2, <2>1
  <2>2. CASE i > Len(s)
    <3>1. i - Len(s) \in 1..Len(t) /\ Len(s) + (i - Len(s)) = i
      BY <1>1, <2>2
    <3>. QED BY <1>1, <1>2, <3>1
  <2>. QED BY <2>1, <2>2
<1>4. Range(s) \subseteq Range(c) /\ Range(t) \subseteq Range(c)
  <2>1. \A i \in 1..Len(s) : i \in 1..Len(c)
    BY <1>1
  <2>2. \A i \in 1..Len(t) : Len(s) + i \in 1..Len(c)
    BY <1>1
  <2>. QED BY <1>1, <1>2, <2>1, <2>2
<1>5. Range(c) = Range(s) \cup Range(t)
  BY <1>2, <1>3, <1>4
<1>. QED BY <1>1, <1>5 DEF c

LEMMA AppendedElement ==
  ASSUME NEW S, NEW s \in Seq(S), NEW e \in S
  PROVE  /\ Append(s, e) \in Seq(S)
         /\ Len(Append(s, e)) = Len(s) + 1
         /\ \A i \in 1..Len(s) : Append(s, e)[i] = s[i]
         /\ Append(s, e)[Len(s) + 1] = e
         /\ Range(Append(s, e)) = Range(s) \cup {e}
<1>1. /\ Append(s, e) \in Seq(S)
      /\ Len(Append(s, e)) = Len(s) + 1
      /\ \A i \in 1..Len(s) : Append(s, e)[i] = s[i]
      /\ Append(s, e)[Len(s) + 1] = e
  OBVIOUS
<1>2. Range(Append(s, e)) = {Append(s, e)[i] : i \in 1..(Len(s) + 1)}
      /\ Range(s) = {s[i] : i \in 1..Len(s)}
  BY <1>1, RangeElements
<1>3. 1..(Len(s) + 1) = 1..Len(s) \cup {Len(s) + 1} /\ Len(s) \in Nat
  OBVIOUS
<1>. QED BY <1>1, <1>2, <1>3

(* A sequence cut in two.                                                   *)
LEMMA CutSequence ==
  ASSUME NEW S, NEW s \in Seq(S), NEW n \in 0..Len(s)
  PROVE  LET head == SubSeq(s, 1, n)
             tail == SubSeq(s, n + 1, Len(s))
         IN  /\ head \in Seq(S) /\ Len(head) = n
             /\ \A i \in 1..n : head[i] = s[i]
             /\ tail \in Seq(S) /\ Len(tail) = Len(s) - n
             /\ \A i \in 1..(Len(s) - n) : tail[i] = s[n + i]
             /\ head \o tail = s
             /\ Range(head) \cup Range(tail) = Range(s)
<1>. DEFINE head == SubSeq(s, 1, n)
            tail == SubSeq(s, n + 1, Len(s))
<1>1. head \in Seq(S) /\ Len(head) = n /\ \A i \in 1..n : head[i] = s[i]
  OBVIOUS
<1>2. tail \in Seq(S) /\ Len(tail) = Len(s) - n /\ \A i \in 1..(Len(s) - n) : tail[i] = s[n + i]
  OBVIOUS
<1>. HIDE DEF head, tail
<1>. DEFINE t == head \o tail
<1>3. /\ t \in Seq(S) /\ Len(t) = Len(s) /\ Len(s) \in Nat
      /\ \A i \in 1..n : t[i] = s[i]
      /\ \A i \in 1..(Len(s) - n) : t[n + i] = s[n + i]
  BY <1>1, <1>2
<1>4. Range(t) = Range(head) \cup Range(tail)
  BY <1>1, <1>2, Concatenation
<1>. HIDE DEF t
<1>5. ASSUME NEW i \in 1..Len(s) PROVE t[i] = s[i]
  <2>1. CASE i <= n
    BY <1>3, <2>1
  <2>2. CASE i > n
    <3>1. i - n \in 1..(Len(s) - n) /\ n + (i - n) = i
      BY <1>3, <2>2
    <3>. QED BY <1>3, <3>1
  <2>. QED BY <2>1, <2>2
<1>6. t = s
  BY <1>3, <1>5
<1>. QED BY <1>1, <1>2, <1>4, <1>6 DEF head, tail, t

LEMMA FrontAndLast ==
  ASSUME NEW S, NEW s \in Seq(S), s # <<>>
  PROVE  /\ Front(s) \in Seq(S) /\ Last(s) \in S
         /\ Front(s) \o <<Last(s)>> = s
         /\ Len(s) \in Nat \ {0} /\ Len(Front(s)) = Len(s) - 1
<1>1. Len(s) \in Nat \ {0} /\ Last(s) \in S /\ Len(s) - 1 \in 0..Len(s)
  BY DEF Last
<1>2. /\ Front(s) \in Seq(S) /\ Len(Front(s)) = Len(s) - 1
      /\ \A i \in 1..(Len(s) - 1) : Front(s)[i] = s[i]
  <2>1. ASSUME NEW n \in 0..Len(s)
        PROVE  /\ SubSeq(s, 1, n) \in Seq(S) /\ Len(SubSeq(s, 1, n)) = n
               /\ \A i \in 1..n : SubSeq(s, 1, n)[i] = s[i]
    OBVIOUS
  <2>. QED BY <1>1, <2>1 DEF Front
<1>. DEFINE t == Front(s) \o <<Last(s)>>
<1>3. /\ t \in Seq(S) /\ Len(t) = Len(s)
      /\ \A i \in 1..(Len(s) - 1) : t[i] = s[i]
      /\ t[Len(s)] = s[Len(s)]
  BY <1>1, <1>2 DEF Last
<1>. HIDE DEF t
<1>4. t = s
  BY <1>1, <1>3
<1>. QED BY <1>1, <1>2, <1>4 DEF t

LEMMA CountDistinct ==
  ASSUME NEW S, NEW s \in Seq(S),
         \A i, j \in 1..Len(s) : s[i] = s[j] => i = j
  PROVE  IsFiniteSet(Range(s)) /\ Cardinality(Range(s)) = Len(s)
<1>1. Len(s) \in Nat /\ Range(s) = {s[i] : i \in 1..Len(s)}
  BY RangeElements
<1>2. s \in [1..Len(s) -> Range(s)]
  BY <1>1
<1>3. s \in Bijection(1..Len(s), Range(s))
  BY <1>1, <1>2 DEF Bijection, Injection, Surjection, IsInjective
<1>4. ExistsBijection(1..Len(s), Range(s))
  BY <1>3 DEF ExistsBijection
<1>5. Cardinality(Range(s)) = Len(s)
  BY <1>1, <1>4, FS_CountingElements
<1>6. IsFiniteSet(1..Len(s))
  BY <1>1, FS_Interval
<1>7. IsFiniteSet(Range(s))
  BY <1>4, <1>6, FS_Bijection
<1>. QED BY <1>5, <1>7

-----------------------------------------------------------------------------
(* What the preflight makes of a batch, by induction over its records      *)

LEMMA Least ==
  ASSUME NEW T \in SUBSET Nat, T # {}
  PROVE  \E n \in T : \A m \in T : n <= m
<1>. DEFINE L == {ss \in Nat \X Nat : ss[1] < ss[2]}
<1>1. IsWellFoundedOn(L, Nat)
  BY NatLessThanWellFounded DEF OpToRel
<1>2. PICK n \in T : \A m \in T : <<m, n>> \notin L
  BY <1>1, WFMin
<1>3. n \in Nat /\ \A m \in T : m \in Nat /\ ~(m < n)
  BY <1>2
<1>. QED BY <1>3

(* g[k] is what is kept of the first k records, for k up to n.             *)
Keeps(g, s, n) ==
  g = [k \in 0..n |-> IF k = 0 THEN <<>>
                      ELSE IF Safe(s[k]) THEN Append(g[k - 1], s[k]) ELSE g[k - 1]]

LEMMA KeepsExists ==
  ASSUME NEW s, NEW N \in Nat
  PROVE  \E g : Keeps(g, s, N)
<1>. DEFINE T == {n \in 0..N : ~\E g : Keeps(g, s, n)}
<1>. SUFFICES ASSUME T # {} PROVE FALSE
  OBVIOUS
<1>0. T \in SUBSET Nat
  OBVIOUS
<1>1. PICK n \in T : \A m \in T : n <= m
  <2>. HIDE DEF T
  <2>. QED BY <1>0, Least
<1>2. n \in Nat /\ n \in 0..N
  OBVIOUS
<1>3. CASE n = 0
  <2>. DEFINE h == [k \in 0..0 |-> <<>>]
  <2>1. \A k \in 0..0 : k = 0
    OBVIOUS
  <2>2. Keeps(h, s, 0)
    BY <2>1 DEF Keeps
  <2>. QED BY <1>1, <1>3, <2>2
<1>4. CASE n # 0
  <2>1. n - 1 \in 0..N /\ n - 1 < n /\ n - 1 \in Nat
    BY <1>2, <1>4
  <2>2. n - 1 \notin T
    BY <1>1, <1>2, <2>1
  <2>3. PICK g : Keeps(g, s, n - 1)
    BY <2>1, <2>2
  <2>. DEFINE h == [k \in 0..n |-> IF k = n
                      THEN IF Safe(s[n]) THEN Append(g[n - 1], s[n]) ELSE g[n - 1]
                      ELSE g[k]]
  <2>4. ASSUME NEW k \in 0..n
        PROVE  h[k] = IF k = 0 THEN <<>>
                      ELSE IF Safe(s[k]) THEN Append(h[k - 1], s[k]) ELSE h[k - 1]
    <3>1. CASE k = n
      <4>1. h[n - 1] = g[n - 1]
        BY <1>2, <2>1
      <4>. QED BY <1>2, <1>4, <3>1, <4>1
    <3>2. CASE k # n
      <4>1. k \in 0..(n - 1)
        BY <1>2, <3>2
      <4>2. h[k] = g[k] /\ (k # 0 => h[k - 1] = g[k - 1])
        BY <1>2, <3>2
      <4>3. g[k] = IF k = 0 THEN <<>>
                   ELSE IF Safe(s[k]) THEN Append(g[k - 1], s[k]) ELSE g[k - 1]
        BY <2>3, <4>1 DEF Keeps
      <4>. QED BY <4>2, <4>3
    <3>. QED BY <3>1, <3>2
  <2>5. h = [k \in 0..n |-> h[k]]
    OBVIOUS
  <2>. HIDE DEF h
  <2>6. Keeps(h, s, n)
    BY <2>4, <2>5 DEF Keeps
  <2>. QED BY <1>1, <2>6
<1>. QED BY <1>3, <1>4

LEMMA GoodIsKept ==
  ASSUME NEW s \in Seq(Records)
  PROVE  \E g : Keeps(g, s, Len(s)) /\ GoodRecords(s) = g[Len(s)]
<1>. DEFINE g == CHOOSE f : Keeps(f, s, Len(s))
<1>1. Keeps(g, s, Len(s))
  BY KeepsExists
<1>2. GoodRecords(s) = g[Len(s)]
  BY DEF GoodRecords, Keeps
<1>. QED BY <1>1, <1>2

(* The preflight keeps the records that can be serialized, in their order. *)
LEMMA GoodRecordsKept ==
  ASSUME NEW s \in Seq(Records)
  PROVE  LET g == GoodRecords(s)
         IN  /\ g \in Seq(Records)
             /\ Range(g) = {r \in Range(s) : Safe(r)}
             /\ \A i, j \in 1..Len(g) : i < j =>
                  \E p, q \in 1..Len(s) : p < q /\ g[i] = s[p] /\ g[j] = s[q]
<1>. DEFINE N == Len(s)
            Kept(n) == {s[k] : k \in {m \in 1..n : Safe(s[m])}}
            Sub(h, n) == \A i, j \in 1..Len(h) : i < j =>
                           \E p, q \in 1..n : p < q /\ h[i] = s[p] /\ h[j] = s[q]
<1>1. PICK g : Keeps(g, s, N) /\ GoodRecords(s) = g[N]
  BY GoodIsKept
<1>. DEFINE P(n) == g[n] \in Seq(Records) /\ Range(g[n]) = Kept(n) /\ Sub(g[n], n)
            T == {n \in 0..N : ~P(n)}
<1>2. N \in Nat /\ \A k \in 1..N : s[k] \in Records
  OBVIOUS
<1>3. /\ g[0] = <<>>
      /\ \A n \in 1..N : g[n] = IF Safe(s[n]) THEN Append(g[n - 1], s[n]) ELSE g[n - 1]
  <2>1. \A n \in 0..N : g[n] = IF n = 0 THEN <<>>
                               ELSE IF Safe(s[n]) THEN Append(g[n - 1], s[n]) ELSE g[n - 1]
    BY <1>1 DEF Keeps
  <2>2. 0 \in 0..N /\ \A n \in 1..N : n \in 0..N /\ n # 0
    BY <1>2
  <2>. QED BY <2>1, <2>2
<1>4. P(0)
  <2>1. Range(<<>>) = {} /\ Len(<<>>) = 0 /\ <<>> \in Seq(Records)
    BY DEF Range
  <2>2. Kept(0) = {} /\ Sub(<<>>, 0)
    BY <2>1
  <2>. QED BY <1>3, <2>1, <2>2
<1>5. ASSUME NEW n \in 1..N, P(n - 1)
      PROVE  P(n)
  <2>. DEFINE h == g[n - 1]
  <2>. HIDE DEF h
  <2>0. /\ n \in Nat \ {0} /\ n - 1 \in Nat /\ s[n] \in Records
        /\ h \in Seq(Records) /\ Range(h) = Kept(n - 1) /\ Sub(h, n - 1)
        /\ g[n] = IF Safe(s[n]) THEN Append(h, s[n]) ELSE h
    BY <1>2, <1>3, <1>5 DEF h
  <2>1. 1..n = 1..(n - 1) \cup {n}
    BY <2>0
  <2>2. Sub(h, n)
    BY <2>0, <2>1
  <2>3. CASE ~Safe(s[n])
    <3>1. Kept(n) = Kept(n - 1)
      BY <2>1, <2>3
    <3>. QED BY <2>0, <2>2, <2>3, <3>1
  <2>4. CASE Safe(s[n])
    <3>1. g[n] = Append(h, s[n])
      BY <2>0, <2>4
    <3>2. /\ g[n] \in Seq(Records) /\ Len(g[n]) = Len(h) + 1 /\ Len(h) \in Nat
          /\ \A i \in 1..Len(h) : g[n][i] = h[i]
          /\ g[n][Len(h) + 1] = s[n]
          /\ Range(g[n]) = Range(h) \cup {s[n]}
      BY <2>0, <3>1, AppendedElement
    <3>3. Kept(n) = Kept(n - 1) \cup {s[n]}
      BY <2>1, <2>4
    <3>4. ASSUME NEW i \in 1..Len(g[n]), NEW j \in 1..Len(g[n]), i < j
          PROVE  \E p, q \in 1..n : p < q /\ g[n][i] = s[p] /\ g[n][j] = s[q]
      <4>1. i \in 1..Len(h) /\ g[n][i] = h[i]
        BY <3>2, <3>4
      <4>2. CASE j \in 1..Len(h)
        <5>1. g[n][j] = h[j]
          BY <3>2, <4>2
        <5>. QED BY <2>2, <3>4, <4>1, <4>2, <5>1
      <4>3. CASE j = Len(h) + 1
        <5>0. h[i] \in Range(h)
          <6>. HIDE DEF Kept, Sub
          <6>1. h \in Seq(Records)
            BY <2>0
          <6>2. Range(h) = {h[k] : k \in 1..Len(h)}
            BY <6>1, RangeElements
          <6>. QED BY <4>1, <6>2
        <5>1. h[i] \in Kept(n - 1)
          <6>. HIDE DEF Kept
          <6>. QED BY <2>0, <5>0
        <5>2. PICK p \in 1..(n - 1) : h[i] = s[p]
          BY <5>1
        <5>3. p \in 1..n /\ n \in 1..n /\ p < n /\ g[n][j] = s[n]
          BY <2>0, <3>2, <4>3
        <5>. QED BY <4>1, <5>2, <5>3
      <4>. QED BY <3>2, <4>2, <4>3
    <3>. QED BY <2>0, <3>2, <3>3, <3>4
  <2>. QED BY <2>3, <2>4
<1>6. P(N)
  <2>. SUFFICES ASSUME ~P(N) PROVE FALSE
    OBVIOUS
  <2>. HIDE DEF P
  <2>1. T \in SUBSET Nat /\ T # {}
    BY <1>2
  <2>2. PICK n \in T : \A m \in T : n <= m
    BY <2>1, Least
  <2>3. n \in 1..N /\ n - 1 \in 0..N /\ ~(n <= n - 1) /\ ~P(n)
    BY <1>2, <1>4, <2>2
  <2>4. P(n - 1)
    BY <2>2, <2>3
  <2>. QED BY <1>5, <2>3, <2>4
<1>7. Kept(N) = {r \in Range(s) : Safe(r)}
  BY <1>2, RangeElements
<1>. HIDE DEF Kept
<1>8. GoodRecords(s) \in Seq(Records) /\ Range(GoodRecords(s)) = {r \in Range(s) : Safe(r)}
  BY <1>1, <1>6, <1>7
<1>9. Sub(GoodRecords(s), N)
  <2>. HIDE DEF Sub
  <2>. QED BY <1>1, <1>6
<1>10. \A i, j \in 1..Len(GoodRecords(s)) : i < j =>
         \E p, q \in 1..Len(s) : p < q /\ GoodRecords(s)[i] = s[p] /\ GoodRecords(s)[j] = s[q]
  BY <1>9
<1>. QED BY <1>8, <1>10

-----------------------------------------------------------------------------
(* Types and control                                                        *)

LEMMA WaitingElements ==
  ASSUME TypeOK
  PROVE  /\ Waiting \in Seq(Records)
         /\ Len(batch) \in Nat /\ Len(queue) \in Nat /\ Len(Waiting) = Len(batch) + Len(queue)
         /\ \A i \in 1..Len(batch) : Waiting[i] = batch[i]
         /\ \A i \in 1..Len(queue) : Waiting[Len(batch) + i] = queue[i]
         /\ Range(Waiting) = Range(batch) \cup InQueue
BY Concatenation DEF TypeOK, Waiting, InQueue

LEMMA TakenBatch ==
  ASSUME TypeOK, TakeBatch
  PROVE  /\ batch' \in Seq(Records) /\ queue' \in Seq(Records) /\ Taken \in Seq(Records)
         /\ Taken \o queue' = queue
         /\ Range(Taken) \cup Range(queue') = Range(queue)
         /\ Range(batch') = {r \in Range(Taken) : Safe(r)}
         /\ \A i, j \in 1..Len(batch') : i < j =>
              \E p, q \in 1..Len(Taken) : p < q /\ batch'[i] = Taken[p] /\ batch'[j] = Taken[q]
         /\ dropped' = dropped \cup {r \in Range(Taken) : ~Safe(r)}
<1>. DEFINE n == IF Len(queue) <= BatchSize THEN Len(queue) ELSE BatchSize
<1>1. n \in 0..Len(queue) /\ queue \in Seq(Records)
  BY ReporterAssumption DEF TypeOK
<1>2. /\ Taken = SubSeq(queue, 1, n) /\ queue' = SubSeq(queue, Len(Taken) + 1, Len(queue))
      /\ batch' = GoodRecords(Taken)
      /\ dropped' = dropped \cup (Range(Taken) \ Range(batch'))
  BY DEF TakeBatch, Taken
<1>. HIDE DEF n
<1>3. /\ Taken \in Seq(Records) /\ Len(Taken) = n /\ queue' \in Seq(Records)
      /\ Taken \o queue' = queue /\ Range(Taken) \cup Range(queue') = Range(queue)
  <2>1. Taken \in Seq(Records) /\ Len(Taken) = n
    BY <1>1, <1>2, CutSequence
  <2>. QED BY <1>1, <1>2, <2>1, CutSequence
<1>4. /\ batch' \in Seq(Records)
      /\ Range(batch') = {r \in Range(Taken) : Safe(r)}
      /\ \A i, j \in 1..Len(batch') : i < j =>
           \E p, q \in 1..Len(Taken) : p < q /\ batch'[i] = Taken[p] /\ batch'[j] = Taken[q]
  <2>1. /\ GoodRecords(Taken) \in Seq(Records)
        /\ Range(GoodRecords(Taken)) = {r \in Range(Taken) : Safe(r)}
        /\ \A i, j \in 1..Len(GoodRecords(Taken)) : i < j =>
             \E p, q \in 1..Len(Taken) :
               p < q /\ GoodRecords(Taken)[i] = Taken[p] /\ GoodRecords(Taken)[j] = Taken[q]
    BY <1>3, GoodRecordsKept, Zenon
  <2>2. batch' = GoodRecords(Taken)
    BY <1>2
  <2>. QED BY <2>1, <2>2
<1>5. dropped' = dropped \cup {r \in Range(Taken) : ~Safe(r)}
  BY <1>2, <1>4
<1>. QED BY <1>3, <1>4, <1>5

LEMMA InitInv == Init => IInv
<1>. SUFFICES ASSUME Init PROVE IInv
  OBVIOUS
<1>1. Range(<<>>) = {} /\ Len(<<>>) = 0 /\ <<>> \in Seq(Records) /\ <<>> \o <<>> = <<>>
  BY DEF Range
<1>2. TypeOK
  <2>1. hand \in [Callers -> Records \cup {NoRecord}]
    BY DEF Init
  <2>. QED BY <1>1, <2>1, Zenon DEF Init, TypeOK
<1>3. Waiting = <<>> /\ Holding = {}
  BY <1>1 DEF Init, Waiting, Holding
<1>4. ControlOK /\ OnceOK /\ PlaceOK /\ OrderOK
  BY <1>1, <1>3 DEF Init, ControlOK, OnceOK, PlaceOK, OrderOK
<1>5. BoundOK
  BY <1>1, <1>3, ReporterAssumption, FS_EmptySet, FS_CardinalityType DEF Init, BoundOK
<1>6. DrainOK
  BY <1>1 DEF Init, DrainOK
<1>7. AnswerOK
  BY DEF Init, AnswerOK
<1>. QED BY <1>2, <1>4, <1>5, <1>6, <1>7 DEF IInv

LEMMA TypeKept == IInv /\ [Next]_vars => TypeOK'
<1>. SUFFICES ASSUME IInv, [Next]_vars PROVE TypeOK'
  OBVIOUS
<1>0. TypeOK
  BY DEF IInv
<1>. USE DEF callerVars, loopVars, stopVars, countVars
<1>1. ASSUME NEW c \in Callers, AppendReport(c) PROVE TypeOK'
  <2>1. hand[c] \in Records /\ hand' \in [Callers -> Records \cup {NoRecord}]
    BY <1>0, <1>1 DEF TypeOK, AppendReport
  <2>2. queue' \in Seq(Records) /\ accepted' \in Seq(Records)
    BY <1>0, <1>1, <2>1 DEF TypeOK, AppendReport
  <2>. QED BY <1>0, <1>1, <2>1, <2>2 DEF TypeOK, AppendReport
<1>2. ASSUME NEW c \in Callers, NEW r \in Records, CheckReport(c, r) PROVE TypeOK'
  <2>1. hand' \in [Callers -> Records \cup {NoRecord}]
    BY <1>0, <1>2 DEF TypeOK, CheckReport
  <2>2. fresh' \in SUBSET Records /\ dropped' \in SUBSET Records
    BY <1>0, <1>2 DEF TypeOK, CheckReport
  <2>. QED BY <1>0, <1>2, <2>1, <2>2 DEF TypeOK, CheckReport
<1>3. CASE TakeBatch
  <2>1. Range(Taken) \subseteq Records
    BY <1>0, <1>3, TakenBatch, RangeElements
  <2>2. batch' \in Seq(Records) /\ queue' \in Seq(Records) /\ dropped' \in SUBSET Records
    BY <1>0, <1>3, <2>1, TakenBatch DEF TypeOK
  <2>. QED BY <1>0, <1>3, <2>2 DEF TypeOK, TakeBatch, Returned
<1>4. CASE ReceiveOk \/ ReceiveFailure
  <2>1. Range(batch) \subseteq Records /\ <<>> \in Seq(Records)
    BY <1>0, RangeElements DEF TypeOK
  <2>. QED BY <1>0, <1>4, <2>1 DEF TypeOK, ReceiveOk, ReceiveFailure, Returned
<1>5. CASE RequeueCheck
  <2>1. batch' \in Seq(Records)
    <3>1. batch # <<>> => Front(batch) \in Seq(Records)
      BY <1>0, FrontAndLast DEF TypeOK
    <3>. QED BY <1>0, <1>5, <3>1 DEF TypeOK, RequeueCheck
  <2>2. loop' \in {"drain", "finished", "sleep", "requeue", "requeue_add"}
    BY <1>5 DEF RequeueCheck, Returned
  <2>3. UNCHANGED <<fresh, hand, queue, accepted, answer, stopFlag, draining, stopper, sent, dropped, mark>>
    BY <1>5 DEF RequeueCheck
  <2>. QED BY <1>0, <2>1, <2>2, <2>3 DEF TypeOK
<1>6. CASE RequeueAdd /\ batch # <<>>
  <2>1. batch' \in Seq(Records) /\ queue' \in Seq(Records)
    <3>1. Last(batch) \in Records /\ Front(batch) \in Seq(Records)
      BY <1>0, <1>6, FrontAndLast DEF TypeOK
    <3>. QED BY <1>0, <1>6, <3>1 DEF TypeOK, RequeueAdd
  <2>. QED BY <1>0, <1>6, <2>1 DEF TypeOK, RequeueAdd
<1>7. RequeueAdd => batch # <<>>
  BY DEF IInv, ControlOK, RequeueAdd
<1>8. CASE FinishFlushLoop \/ CoreReceives \/ ConnectionFails \/ EndDrain \/ StartSync \/ UNCHANGED vars
  BY <1>0, <1>8 DEF TypeOK, FinishFlushLoop, CoreReceives, ConnectionFails, EndDrain, StartSync,
     Core!Answer, vars
<1>9. CASE CallStop
  <2>1. mark' \in Nat
    BY <1>0, <1>9 DEF TypeOK, CallStop
  <2>. QED BY <1>0, <1>9, <2>1 DEF TypeOK, CallStop
<1>10. CASE BeginStop \/ CountLeftover \/ ClearQueue \/ StopReturns
  <2>1. Range(queue) \subseteq Records /\ <<>> \in Seq(Records)
    BY <1>0, RangeElements DEF TypeOK
  <2>2. CASE BeginStop \/ StopReturns
    BY <1>0, <2>1, <2>2 DEF TypeOK, BeginStop, StopReturns
  <2>3. CASE CountLeftover
    <3>1. dropped' \in SUBSET Records
      BY <1>0, <2>1, <2>3 DEF TypeOK, CountLeftover
    <3>. QED BY <1>0, <2>3, <3>1 DEF TypeOK, CountLeftover
  <2>4. CASE ClearQueue
    BY <1>0, <2>1, <2>4 DEF TypeOK, ClearQueue
  <2>. QED BY <1>10, <2>2, <2>3, <2>4
<1>. QED BY <1>1, <1>2, <1>3, <1>4, <1>5, <1>6, <1>7, <1>8, <1>9, <1>10 DEF Next, Flush, Stop

LEMMA ControlKept == IInv /\ [Next]_vars => ControlOK'
<1>. SUFFICES ASSUME IInv, [Next]_vars PROVE ControlOK'
  OBVIOUS
<1>0. ControlOK /\ stopper \in {"idle", "waiting"} /\ stopFlag \in BOOLEAN /\ draining \in BOOLEAN
  BY DEF IInv, TypeOK
<1>. USE DEF callerVars, loopVars, stopVars, countVars
<1>1. ASSUME NEW c \in Callers, AppendReport(c) \/ \E r \in Records : CheckReport(c, r)
      PROVE  ControlOK'
  BY <1>0, <1>1 DEF ControlOK, AppendReport, CheckReport
<1>2. CASE TakeBatch \/ ReceiveOk \/ ReceiveFailure
  BY <1>0, <1>2 DEF ControlOK, TakeBatch, ReceiveOk, ReceiveFailure, Returned
<1>3. CASE RequeueCheck \/ RequeueAdd
  BY <1>0, <1>3 DEF ControlOK, RequeueCheck, RequeueAdd, Returned
<1>4. CASE FinishFlushLoop \/ CoreReceives \/ ConnectionFails \/ UNCHANGED vars
  BY <1>0, <1>4 DEF ControlOK, FinishFlushLoop, CoreReceives, ConnectionFails, vars
<1>5. CASE CallStop \/ StopReturns \/ StartSync
  BY <1>0, <1>5 DEF ControlOK, CallStop, StopReturns, StartSync
<1>6. CASE Stop
  BY <1>0, <1>6 DEF ControlOK, Stop, BeginStop, EndDrain, CountLeftover, ClearQueue
<1>. QED BY <1>1, <1>2, <1>3, <1>4, <1>5, <1>6 DEF Next, Flush

-----------------------------------------------------------------------------
(* What waits                                                               *)

LEMMA BeforeIsStrict ==
  ASSUME TypeOK, OnceOK, NEW r, NEW s, AcceptedBefore(r, s)
  PROVE  r # s
BY DEF TypeOK, OnceOK, AcceptedBefore

(* Nothing waits twice.                                                     *)
LEMMA WaitingDistinct ==
  ASSUME IInv
  PROVE  /\ \A i, j \in 1..Len(Waiting) : Waiting[i] = Waiting[j] => i = j
         /\ Range(batch) \cap InQueue = {}
         /\ IsFiniteSet(Range(Waiting)) /\ Cardinality(Range(Waiting)) = Len(batch) + Len(queue)
<1>. USE DEF IInv
<1>1. ASSUME NEW i \in 1..Len(Waiting), NEW j \in 1..Len(Waiting), i < j
      PROVE  Waiting[i] # Waiting[j]
  BY <1>1, BeforeIsStrict DEF OrderOK
<1>2. Waiting \in Seq(Records) /\ Len(Waiting) \in Nat
  BY WaitingElements
<1>3. ASSUME NEW i \in 1..Len(Waiting), NEW j \in 1..Len(Waiting), Waiting[i] = Waiting[j]
      PROVE  i = j
  <2>1. ~(i < j) /\ ~(j < i)
    BY <1>1, <1>3
  <2>. QED BY <1>2, <2>1
<1>4. Range(batch) \cap InQueue = {}
  <2>. SUFFICES ASSUME NEW i \in 1..Len(batch), NEW j \in 1..Len(queue)
                PROVE  batch[i] # queue[j]
    BY RangeElements DEF TypeOK, InQueue
  <2>1. /\ i \in 1..Len(Waiting) /\ Len(batch) + j \in 1..Len(Waiting) /\ i < Len(batch) + j
        /\ Waiting[i] = batch[i] /\ Waiting[Len(batch) + j] = queue[j]
    BY WaitingElements
  <2>. QED BY <1>1, <2>1
<1>. QED BY <1>2, <1>3, <1>4, CountDistinct, WaitingElements

(* A step that takes records out of what waits, or none, and accepts none. *)
LEMMA WaitingThinned ==
  ASSUME IInv, TypeOK', UNCHANGED <<accepted, hand, fresh>>,
         \A i, j \in 1..Len(Waiting') : i < j =>
           \E p, q \in 1..Len(Waiting) : p < q /\ Waiting'[i] = Waiting[p] /\ Waiting'[j] = Waiting[q],
         Range(Waiting') \subseteq Range(Waiting),
         sent' \subseteq sent \cup Range(Waiting), dropped' \subseteq dropped \cup Range(Waiting),
         sent' \cap Range(Waiting') = {},
         loop' # "clearing" => dropped' \cap Range(Waiting') = {}
  PROVE  OnceOK' /\ PlaceOK' /\ OrderOK'
<1>. USE DEF IInv
<1>0. Range(accepted') = Range(accepted) /\ Holding' = Holding
  BY DEF Range, Holding
<1>1. OnceOK'
  BY <1>0 DEF OnceOK, PlaceOK
<1>2. PlaceOK'
  BY <1>0 DEF PlaceOK
<1>3. OrderOK'
  <2>1. \A x, y : AcceptedBefore(x, y)' <=> AcceptedBefore(x, y)
    BY DEF AcceptedBefore
  <2>2. ASSUME NEW i \in 1..Len(Waiting'), NEW j \in 1..Len(Waiting'), i < j
        PROVE  AcceptedBefore(Waiting'[i], Waiting'[j])
    <3>1. PICK p, q \in 1..Len(Waiting) : p < q /\ Waiting'[i] = Waiting[p] /\ Waiting'[j] = Waiting[q]
      BY <2>2
    <3>. QED BY <3>1 DEF OrderOK
  <2>. QED BY <2>1, <2>2 DEF OrderOK
<1>. QED BY <1>1, <1>2, <1>3

(* The same records go on waiting.                                         *)
LEMMA WaitingKept ==
  ASSUME IInv, TypeOK', UNCHANGED <<accepted, hand, fresh, sent>>, Waiting' = Waiting,
         loop # "clearing",
         \/ dropped' = dropped
         \/ loop' = "clearing" /\ dropped' \subseteq dropped \cup Range(Waiting)
  PROVE  OnceOK' /\ PlaceOK' /\ OrderOK'
<1>1. sent \cap Range(Waiting) = {} /\ dropped \cap Range(Waiting) = {}
  BY DEF IInv, PlaceOK
<1>. QED BY <1>1, WaitingThinned

(* The batch leaves.                                                        *)
LEMMA BatchLeaves ==
  ASSUME IInv, TypeOK', UNCHANGED <<accepted, hand, fresh, queue>>, batch' = <<>>,
         loop # "clearing",
         sent' \subseteq sent \cup Range(batch), dropped' \subseteq dropped \cup Range(batch)
  PROVE  OnceOK' /\ PlaceOK' /\ OrderOK'
<1>1. Waiting' = queue /\ Range(Waiting) = Range(batch) \cup Range(queue)
  BY WaitingElements DEF IInv, TypeOK, Waiting, InQueue
<1>2. ASSUME NEW i \in 1..Len(queue), NEW j \in 1..Len(queue), i < j
      PROVE  \E p, q \in 1..Len(Waiting) : p < q /\ queue[i] = Waiting[p] /\ queue[j] = Waiting[q]
  <2>1. /\ Len(batch) + i \in 1..Len(Waiting) /\ Len(batch) + j \in 1..Len(Waiting)
        /\ Len(batch) + i < Len(batch) + j
        /\ queue[i] = Waiting[Len(batch) + i] /\ queue[j] = Waiting[Len(batch) + j]
    BY <1>2, WaitingElements DEF IInv
  <2>. QED BY <2>1
<1>3. /\ sent \cap Range(Waiting) = {} /\ dropped \cap Range(Waiting) = {}
      /\ Range(batch) \cap Range(queue) = {}
  BY WaitingDistinct DEF IInv, PlaceOK, InQueue
<1>. QED BY <1>1, <1>2, <1>3, WaitingThinned

LEMMA CheckKeepsData ==
  ASSUME IInv, TypeOK', NEW c \in Callers, NEW r \in Records, CheckReport(c, r)
  PROVE  OnceOK' /\ PlaceOK' /\ OrderOK'
<1>. USE DEF IInv, callerVars, loopVars, stopVars, countVars
<1>1. /\ r \in fresh /\ fresh' = fresh \ {r} /\ hand[c] = NoRecord
      /\ UNCHANGED <<queue, batch, accepted, sent, loop>>
      /\ \/ hand' = hand /\ dropped' = dropped
         \/ hand' = hand /\ dropped' = dropped \cup {r}
         \/ hand' = [hand EXCEPT ![c] = r] /\ dropped' = dropped
  BY DEF CheckReport
<1>2. Waiting' = Waiting /\ Range(accepted') = Range(accepted)
  BY <1>1 DEF Waiting, Range
<1>3. r \notin Range(accepted) /\ r \notin dropped /\ \A d \in Holding : hand[d] # r
  BY <1>1 DEF OnceOK
<1>4. OnceOK'
  <2>1. \A d \in Callers : d \in Holding' => (hand'[d] = r /\ d = c) \/ (d \in Holding /\ hand'[d] = hand[d])
    BY <1>1 DEF Holding, TypeOK
  <2>2. c \notin Holding /\ (c \in Holding' => dropped' = dropped)
    BY <1>1 DEF Holding, TypeOK
  <2>3. Holding' \subseteq Callers
    BY DEF Holding
  <2>4. \A d \in Holding' : hand'[d] \notin fresh' \cup Range(accepted') \cup dropped'
    BY <1>1, <1>2, <1>3, <2>1, <2>2, <2>3 DEF OnceOK
  <2>5. \A d, e \in Holding' : hand'[d] = hand'[e] => d = e
    BY <1>3, <2>1, <2>3 DEF OnceOK
  <2>6. fresh' \cap (Range(accepted') \cup dropped') = {}
    BY <1>1, <1>2 DEF OnceOK
  <2>. QED BY <1>1, <2>4, <2>5, <2>6 DEF OnceOK
<1>5. PlaceOK'
  <2>1. r \notin Range(Waiting)
    BY <1>3 DEF PlaceOK
  <2>. QED BY <1>1, <1>2, <2>1 DEF PlaceOK
<1>6. OrderOK'
  BY <1>1, <1>2 DEF OrderOK, AcceptedBefore
<1>. QED BY <1>4, <1>5, <1>6

(* A record that is appended comes after everything that waits.             *)
LEMMA AppendKeepsData ==
  ASSUME IInv, TypeOK', NEW c \in Callers, AppendReport(c)
  PROVE  /\ OnceOK' /\ PlaceOK' /\ OrderOK'
         /\ hand[c] \in Records \ (Range(accepted) \cup dropped)
         /\ Range(accepted') = Range(accepted) \cup {hand[c]}
         /\ InQueue' = InQueue \cup {hand[c]}
<1>. USE DEF IInv, callerVars, loopVars, stopVars, countVars
<1>0. PICK r : r = hand[c]
  OBVIOUS
<1>1. /\ r \in Records /\ c \in Holding /\ hand' = [hand EXCEPT ![c] = NoRecord]
      /\ queue' = Append(queue, r) /\ accepted' = Append(accepted, r)
      /\ UNCHANGED <<fresh, batch, sent, dropped, loop>>
  BY <1>0 DEF AppendReport, TypeOK, Holding
<1>2. r \notin Range(accepted) /\ r \notin fresh /\ r \notin dropped
  BY <1>0, <1>1 DEF OnceOK
<1>3. /\ Len(accepted') = Len(accepted) + 1 /\ Len(accepted) \in Nat
      /\ \A i \in 1..Len(accepted) : accepted'[i] = accepted[i]
      /\ accepted'[Len(accepted) + 1] = r
      /\ Range(accepted') = Range(accepted) \cup {r}
  BY <1>1, AppendedElement DEF TypeOK
<1>4. Waiting' = Append(Waiting, r)
  <2>1. /\ Waiting' = batch \o Append(queue, r)
        /\ batch \in Seq(Records) /\ queue \in Seq(Records)
    BY <1>1 DEF Waiting, TypeOK
  <2>. QED BY <1>1, <2>1 DEF Waiting
<1>5. /\ Len(Waiting') = Len(Waiting) + 1 /\ Len(Waiting) \in Nat
      /\ \A i \in 1..Len(Waiting) : Waiting'[i] = Waiting[i]
      /\ Waiting'[Len(Waiting) + 1] = r
      /\ Range(Waiting') = Range(Waiting) \cup {r}
  <2>1. Waiting \in Seq(Records)
    BY WaitingElements
  <2>. QED BY <1>1, <1>4, <2>1, AppendedElement
<1>6. OnceOK'
  <2>1. \A i \in 1..Len(accepted) : accepted[i] # r
    BY <1>2, RangeElements DEF TypeOK
  <2>2. \A i, j \in 1..Len(accepted') : accepted'[i] = accepted'[j] => i = j
    BY <1>3, <2>1 DEF OnceOK
  <2>3. \A d \in Holding' : d \in Holding /\ hand'[d] = hand[d] /\ d # c
    BY <1>1 DEF Holding, TypeOK
  <2>4. \A d \in Holding' : hand[d] # r
    BY <1>0, <1>1, <2>3 DEF OnceOK
  <2>. QED BY <1>1, <1>2, <1>3, <2>2, <2>3, <2>4 DEF OnceOK
<1>7. PlaceOK'
  <2>1. r \notin sent
    BY <1>2 DEF PlaceOK
  <2>. QED BY <1>1, <1>2, <1>3, <1>5, <2>1 DEF PlaceOK
<1>8. OrderOK'
  <2>1. DOMAIN accepted = 1..Len(accepted) /\ DOMAIN accepted' = 1..Len(accepted')
    BY DEF TypeOK
  <2>2. ASSUME NEW x, NEW y, AcceptedBefore(x, y)
        PROVE  AcceptedBefore(x, y)'
    <3>1. PICK i, j \in 1..Len(accepted) : i < j /\ accepted[i] = x /\ accepted[j] = y
      BY <2>1, <2>2 DEF AcceptedBefore
    <3>2. i \in 1..Len(accepted') /\ j \in 1..Len(accepted')
      BY <1>3
    <3>. QED BY <1>3, <2>1, <3>1, <3>2 DEF AcceptedBefore
  <2>3. ASSUME NEW x \in Range(accepted)
        PROVE  AcceptedBefore(x, r)'
    <3>1. PICK i \in 1..Len(accepted) : accepted[i] = x
      BY RangeElements DEF TypeOK
    <3>2. i \in 1..Len(accepted') /\ Len(accepted) + 1 \in 1..Len(accepted') /\ i < Len(accepted) + 1
      BY <1>3
    <3>. QED BY <1>3, <2>1, <3>1, <3>2 DEF AcceptedBefore
  <2>4. \A i \in 1..Len(Waiting) : Waiting[i] \in Range(accepted)
    BY WaitingElements, RangeElements DEF PlaceOK
  <2>5. ASSUME NEW i \in 1..Len(Waiting'), NEW j \in 1..Len(Waiting'), i < j
        PROVE  AcceptedBefore(Waiting[i], Waiting[j])'
    <3>1. i \in 1..Len(Waiting) /\ Waiting'[i] = Waiting[i]
      BY <1>5, <2>5
    <3>2. CASE j = Len(Waiting) + 1
      BY <1>5, <2>3, <2>4, <3>1, <3>2
    <3>3. CASE j # Len(Waiting) + 1
      <4>1. j \in 1..Len(Waiting) /\ Waiting'[j] = Waiting[j]
        BY <1>5, <3>3
      <4>2. AcceptedBefore(Waiting[i], Waiting[j])
        BY <2>5, <3>1, <4>1 DEF OrderOK
      <4>. QED BY <2>2, <3>1, <4>1, <4>2
    <3>. QED BY <3>2, <3>3
  <2>. QED BY <2>5 DEF OrderOK
<1>9. InQueue' = InQueue \cup {r}
  BY <1>1, AppendedElement DEF InQueue, TypeOK
<1>. QED BY <1>0, <1>1, <1>2, <1>3, <1>6, <1>7, <1>8, <1>9

LEMMA TakeKeepsData ==
  ASSUME IInv, TypeOK', TakeBatch
  PROVE  /\ OnceOK' /\ PlaceOK' /\ OrderOK'
         /\ Range(Waiting') = Range(Waiting) \ {r \in Range(Taken) : ~Safe(r)}
         /\ Range(Taken) \subseteq Range(Waiting) /\ dropped \cap Range(Waiting) = {}
         /\ Len(queue') <= Len(queue)
<1>. USE DEF IInv, callerVars, loopVars, stopVars, countVars
<1>0. /\ batch = <<>> /\ loop # "clearing"
      /\ UNCHANGED <<accepted, hand, fresh, sent>>
  BY DEF TakeBatch, ControlOK
<1>1. Waiting = queue
  BY <1>0 DEF Waiting, TypeOK
<1>2. PICK taken : taken = Taken
  OBVIOUS
<1>3. /\ batch' \in Seq(Records) /\ queue' \in Seq(Records) /\ taken \in Seq(Records)
      /\ taken \o queue' = queue
      /\ Range(taken) \cup Range(queue') = Range(queue)
      /\ Range(batch') = {r \in Range(taken) : Safe(r)}
      /\ \A i, j \in 1..Len(batch') : i < j =>
           \E p, q \in 1..Len(taken) : p < q /\ batch'[i] = taken[p] /\ batch'[j] = taken[q]
      /\ dropped' = dropped \cup {r \in Range(taken) : ~Safe(r)}
  BY <1>2, TakenBatch
<1>4. /\ Len(queue) = Len(taken) + Len(queue') /\ Len(taken) \in Nat /\ Len(queue') \in Nat
      /\ \A p \in 1..Len(taken) : queue[p] = taken[p]
      /\ \A p \in 1..Len(queue') : queue[Len(taken) + p] = queue'[p]
  BY <1>3, Concatenation
<1>5. /\ Waiting' \in Seq(Records)
      /\ Len(Waiting') = Len(batch') + Len(queue') /\ Len(batch') \in Nat
      /\ \A i \in 1..Len(batch') : Waiting'[i] = batch'[i]
      /\ \A i \in 1..Len(queue') : Waiting'[Len(batch') + i] = queue'[i]
      /\ Range(Waiting') = Range(batch') \cup Range(queue')
  BY <1>3, Concatenation DEF Waiting
<1>6. ASSUME NEW i \in 1..Len(batch')
      PROVE  \E p \in 1..Len(taken) : batch'[i] = taken[p]
  <2>1. batch' \in Seq(Records) /\ taken \in Seq(Records) /\ Range(batch') \subseteq Range(taken)
    BY <1>3
  <2>2. batch'[i] \in Range(taken)
    BY <2>1, RangeElements
  <2>. QED BY <2>1, <2>2, RangeElements
<1>7. ASSUME NEW i \in 1..Len(Waiting'), NEW j \in 1..Len(Waiting'), i < j
      PROVE  \E p, q \in 1..Len(Waiting) : p < q /\ Waiting'[i] = Waiting[p] /\ Waiting'[j] = Waiting[q]
  <2>1. CASE j <= Len(batch')
    <3>1. i \in 1..Len(batch') /\ j \in 1..Len(batch')
      BY <1>5, <1>7, <2>1
    <3>2. PICK p, q \in 1..Len(taken) : p < q /\ batch'[i] = taken[p] /\ batch'[j] = taken[q]
      BY <1>3, <1>7, <3>1
    <3>3. p \in 1..Len(queue) /\ q \in 1..Len(queue) /\ queue[p] = taken[p] /\ queue[q] = taken[q]
      BY <1>4
    <3>. QED BY <1>1, <1>5, <3>1, <3>2, <3>3
  <2>2. CASE i <= Len(batch') /\ j > Len(batch')
    <3>1. i \in 1..Len(batch') /\ Waiting'[i] = batch'[i]
      BY <1>5, <2>2
    <3>2. PICK p \in 1..Len(taken) : batch'[i] = taken[p]
      BY <1>6, <3>1
    <3>. DEFINE k == j - Len(batch')
                q == Len(taken) + k
    <3>3. k \in 1..Len(queue') /\ Len(batch') + k = j
      BY <1>5, <2>2
    <3>4. queue[p] = taken[p] /\ queue[q] = queue'[k] /\ Waiting'[j] = queue'[k]
      <4>. HIDE DEF k
      <4>. QED BY <1>4, <1>5, <3>3
    <3>5. q \in 1..Len(queue) /\ p \in 1..Len(queue) /\ p < q
      <4>. HIDE DEF k
      <4>. QED BY <1>4, <3>3
    <3>. QED BY <1>1, <3>1, <3>2, <3>4, <3>5
  <2>3. CASE i > Len(batch')
    <3>. DEFINE k == i - Len(batch')
                l == j - Len(batch')
                p == Len(taken) + k
                q == Len(taken) + l
    <3>1. /\ k \in 1..Len(queue') /\ Len(batch') + k = i
          /\ l \in 1..Len(queue') /\ Len(batch') + l = j
          /\ k < l
      BY <1>5, <1>7, <2>3
    <3>2. p \in 1..Len(queue) /\ q \in 1..Len(queue) /\ p < q
      <4>. HIDE DEF k, l
      <4>. QED BY <1>4, <3>1
    <3>3. /\ queue[p] = queue'[k] /\ queue[q] = queue'[l]
          /\ Waiting'[i] = queue'[k] /\ Waiting'[j] = queue'[l]
      <4>. HIDE DEF k, l
      <4>. QED BY <1>4, <1>5, <3>1
    <3>. QED BY <1>1, <3>2, <3>3
  <2>. QED BY <1>5, <2>1, <2>2, <2>3
<1>8. Range(taken) \cap Range(queue') = {}
  <2>. SUFFICES ASSUME NEW p \in 1..Len(taken), NEW q \in 1..Len(queue')
                PROVE  taken[p] # queue'[q]
    BY <1>3, RangeElements
  <2>1. p \in 1..Len(queue) /\ Len(taken) + q \in 1..Len(queue) /\ p # Len(taken) + q
    BY <1>4
  <2>2. queue[p] # queue[Len(taken) + q]
    BY <1>1, <2>1, WaitingDistinct
  <2>. QED BY <1>4, <2>2
<1>9. Range(Waiting') = Range(Waiting) \ {r \in Range(taken) : ~Safe(r)}
  BY <1>1, <1>3, <1>5, <1>8
<1>10. sent \cap Range(Waiting) = {} /\ dropped \cap Range(Waiting) = {}
  BY <1>0 DEF PlaceOK
<1>11. Range(taken) \subseteq Range(Waiting)
  BY <1>1, <1>3
<1>12. OnceOK' /\ PlaceOK' /\ OrderOK'
  <2>1. /\ Range(Waiting') \subseteq Range(Waiting) /\ sent' \cap Range(Waiting') = {}
        /\ dropped' \subseteq dropped \cup Range(Waiting) /\ dropped' \cap Range(Waiting') = {}
    BY <1>0, <1>3, <1>9, <1>10, <1>11
  <2>. QED BY <1>0, <1>7, <2>1, WaitingThinned
<1>13. Len(queue') <= Len(queue)
  BY <1>4
<1>. QED BY <1>2, <1>9, <1>10, <1>11, <1>12, <1>13

(* The newest record of the failed batch finds no room, or goes to the head *)
(* of the queue, behind which it would have gone out.                       *)
LEMMA RequeueKeepsData ==
  ASSUME IInv, TypeOK', RequeueCheck \/ RequeueAdd
  PROVE  /\ OnceOK' /\ PlaceOK' /\ OrderOK'
         /\ Waiting' = Waiting \/ (/\ Range(Waiting') \subseteq Range(Waiting)
                                 /\ Len(queue) >= MaxQueue /\ batch # <<>>)
<1>. USE DEF IInv, callerVars, loopVars, stopVars, countVars
<1>0. UNCHANGED <<accepted, hand, fresh, sent, dropped>> /\ loop \in {"requeue", "requeue_add"}
  BY DEF RequeueCheck, RequeueAdd
<1>1. CASE RequeueCheck /\ batch' = batch
  <2>1. Waiting' = Waiting
    BY <1>1 DEF RequeueCheck, Waiting
  <2>. QED BY <1>0, <2>1, WaitingKept
<1>. DEFINE f == Front(batch)
            x == Last(batch)
<1>2. CASE RequeueAdd
  <2>1. batch # <<>> /\ batch \in Seq(Records) /\ queue \in Seq(Records)
    BY <1>2 DEF RequeueAdd, ControlOK, TypeOK
  <2>2. f \in Seq(Records) /\ x \in Records /\ f \o <<x>> = batch
    BY <2>1, FrontAndLast
  <2>3. Waiting' = f \o (<<x>> \o queue)
    BY <1>2 DEF RequeueAdd, Waiting
  <2>. HIDE DEF f, x
  <2>4. f \o (<<x>> \o queue) = (f \o <<x>>) \o queue
    BY <2>1, <2>2
  <2>5. Waiting' = Waiting
    BY <2>2, <2>3, <2>4 DEF Waiting
  <2>. QED BY <1>0, <2>5, WaitingKept
<1>3. CASE RequeueCheck /\ batch' # batch
  <2>1. /\ batch # <<>> /\ Len(queue) >= MaxQueue /\ batch' = f /\ queue' = queue
        /\ batch \in Seq(Records) /\ queue \in Seq(Records)
    BY <1>3 DEF RequeueCheck, TypeOK
  <2>2. f \in Seq(Records) /\ x \in Records /\ f \o <<x>> = batch
    BY <2>1, FrontAndLast
  <2>3. Waiting' = f \o queue /\ Waiting = (f \o <<x>>) \o queue
    BY <2>1, <2>2 DEF Waiting
  <2>. HIDE DEF f, x
  <2>4. /\ Len(f) \in Nat /\ Len(queue) \in Nat
        /\ Len(Waiting') = Len(f) + Len(queue) /\ Len(Waiting) = Len(f) + 1 + Len(queue)
        /\ \A i \in 1..Len(f) : Waiting'[i] = f[i] /\ Waiting[i] = f[i]
    <3>1. Len(f) \in Nat /\ Len(queue) \in Nat /\ Len(f \o queue) = Len(f) + Len(queue)
      BY <2>1, <2>2
    <3>2. Len((f \o <<x>>) \o queue) = Len(f) + 1 + Len(queue)
      BY <2>1, <2>2
    <3>3. \A i \in 1..Len(f) : (f \o queue)[i] = f[i] /\ ((f \o <<x>>) \o queue)[i] = f[i]
      BY <2>1, <2>2
    <3>. QED BY <2>3, <3>1, <3>2, <3>3
  <2>5. \A i \in 1..Len(queue) : Waiting'[Len(f) + i] = queue[i] /\ Waiting[Len(f) + 1 + i] = queue[i]
    <3>1. \A i \in 1..Len(queue) : (f \o queue)[Len(f) + i] = queue[i]
      BY <2>1, <2>2
    <3>2. f \o <<x>> \in Seq(Records) /\ Len(f \o <<x>>) = Len(f) + 1
      BY <2>2
    <3>3. \A i \in 1..Len(queue) : ((f \o <<x>>) \o queue)[Len(f \o <<x>>) + i] = queue[i]
      BY <2>1, <3>2, Concatenation
    <3>. QED BY <2>3, <3>1, <3>2, <3>3
  <2>6. \A i \in 1..Len(Waiting') :
          \/ i <= Len(f) /\ i \in 1..Len(Waiting) /\ Waiting'[i] = Waiting[i]
          \/ i > Len(f) /\ i + 1 \in 1..Len(Waiting) /\ Waiting'[i] = Waiting[i + 1]
    <3>. SUFFICES ASSUME NEW i \in 1..Len(Waiting'), i > Len(f)
                  PROVE  i + 1 \in 1..Len(Waiting) /\ Waiting'[i] = Waiting[i + 1]
      BY <2>4
    <3>1. i - Len(f) \in 1..Len(queue) /\ Len(f) + (i - Len(f)) = i /\ Len(f) + 1 + (i - Len(f)) = i + 1
      BY <2>4
    <3>2. i + 1 \in 1..Len(Waiting)
      BY <2>4
    <3>. QED BY <2>5, <3>1, <3>2
  <2>7. ASSUME NEW i \in 1..Len(Waiting'), NEW j \in 1..Len(Waiting'), i < j
        PROVE  \E p, q \in 1..Len(Waiting) : p < q /\ Waiting'[i] = Waiting[p] /\ Waiting'[j] = Waiting[q]
    <3>. DEFINE p == IF i <= Len(f) THEN i ELSE i + 1
                q == IF j <= Len(f) THEN j ELSE j + 1
    <3>1. p \in 1..Len(Waiting) /\ Waiting'[i] = Waiting[p]
      BY <2>4, <2>6
    <3>2. q \in 1..Len(Waiting) /\ Waiting'[j] = Waiting[q]
      BY <2>4, <2>6
    <3>3. p < q
      <4>1. i \in Nat /\ j \in Nat /\ Len(f) \in Nat
        BY <2>4
      <4>. QED BY <2>7, <4>1
    <3>. HIDE DEF p, q
    <3>. QED BY <3>1, <3>2, <3>3
  <2>8. Range(Waiting') \subseteq Range(Waiting)
    <3>1. Range(Waiting') = Range(f) \cup Range(queue)
      BY <2>1, <2>2, <2>3, Concatenation
    <3>2. Range(batch) = Range(f) \cup Range(<<x>>)
      <4>1. batch = f \o <<x>> /\ f \in Seq(Records) /\ <<x>> \in Seq(Records)
        BY <2>2
      <4>2. PICK y : y = <<x>>
        OBVIOUS
      <4>3. f \in Seq(Records) /\ y \in Seq(Records)
        BY <4>1, <4>2
      <4>4. Range(f \o y) = Range(f) \cup Range(y)
        BY <4>3, Concatenation
      <4>. QED BY <4>1, <4>2, <4>4
    <3>. QED BY <3>1, <3>2, WaitingElements DEF InQueue
  <2>9. sent \cap Range(Waiting) = {} /\ dropped \cap Range(Waiting) = {}
    BY <1>0 DEF PlaceOK
  <2>10. OnceOK' /\ PlaceOK' /\ OrderOK'
    BY <1>0, <2>7, <2>8, <2>9, WaitingThinned
  <2>. QED BY <2>1, <2>8, <2>10
<1>. QED BY <1>1, <1>2, <1>3

LEMMA StopKeepsData ==
  ASSUME IInv, TypeOK', Stop
  PROVE  OnceOK' /\ PlaceOK' /\ OrderOK'
<1>. USE DEF IInv, callerVars, loopVars, stopVars, countVars
<1>1. CASE BeginStop
  BY <1>1, BatchLeaves DEF BeginStop
<1>2. CASE EndDrain
  <2>1. Waiting' = Waiting
    BY <1>2 DEF EndDrain, Waiting
  <2>. QED BY <1>2, <2>1, WaitingKept DEF EndDrain
<1>3. CASE CountLeftover
  <2>1. Waiting' = Waiting
    BY <1>3 DEF CountLeftover, Waiting
  <2>2. Range(queue) \subseteq Range(Waiting)
    BY WaitingElements DEF InQueue
  <2>. QED BY <1>3, <2>1, <2>2, WaitingKept DEF CountLeftover
<1>4. CASE ClearQueue
  <2>1. batch = <<>>
    BY <1>4 DEF ClearQueue, ControlOK
  <2>2. Waiting' = <<>>
    BY <1>4, <2>1 DEF ClearQueue, Waiting
  <2>3. Len(Waiting') = 0 /\ Range(Waiting') = {}
    BY <2>2 DEF Range
  <2>4. UNCHANGED <<accepted, hand, fresh, sent, dropped>>
    BY <1>4 DEF ClearQueue
  <2>5. \A i, j \in 1..Len(Waiting') : FALSE
    BY <2>3
  <2>. QED BY <2>3, <2>4, <2>5, WaitingThinned
<1>. QED BY <1>1, <1>2, <1>3, <1>4 DEF Stop

LEMMA DataKept ==
  ASSUME IInv, TypeOK', [Next]_vars
  PROVE  OnceOK' /\ PlaceOK' /\ OrderOK'
<1>. USE DEF callerVars, loopVars, stopVars, countVars
<1>1. CASE UNCHANGED vars
  <2>1. Waiting' = Waiting /\ Holding' = Holding /\ Range(accepted') = Range(accepted)
    BY <1>1 DEF vars, Waiting, Holding
  <2>2. OnceOK /\ PlaceOK /\ OrderOK
    BY DEF IInv
  <2>. QED BY <1>1, <2>1, <2>2 DEF vars, OnceOK, PlaceOK, OrderOK, AcceptedBefore
<1>2. CASE FinishFlushLoop \/ CoreReceives \/ ConnectionFails \/ CallStop \/ StartSync
  <2>1. Waiting' = Waiting /\ UNCHANGED <<accepted, hand, fresh, sent, dropped>>
    BY <1>2 DEF FinishFlushLoop, CoreReceives, ConnectionFails, CallStop, StartSync, Waiting
  <2>2. loop # "clearing"
    BY <1>2 DEF FinishFlushLoop, CoreReceives, ConnectionFails, CallStop, StartSync, IInv, ControlOK
  <2>. QED BY <2>1, <2>2, WaitingKept
<1>3. CASE ReceiveOk \/ StopReturns
  BY <1>3, BatchLeaves DEF ReceiveOk, StopReturns
<1>4. CASE ReceiveFailure
  <2>1. CASE stopFlag
    BY <1>4, <2>1, BatchLeaves DEF ReceiveFailure
  <2>2. CASE ~stopFlag
    <3>1. Waiting' = Waiting
      BY <1>4, <2>2 DEF ReceiveFailure, Waiting
    <3>. QED BY <1>4, <2>2, <3>1, WaitingKept DEF ReceiveFailure
  <2>. QED BY <2>1, <2>2
<1>. QED BY <1>1, <1>2, <1>3, <1>4, CheckKeepsData, AppendKeepsData, TakeKeepsData,
            RequeueKeepsData, StopKeepsData DEF Next, Flush

-----------------------------------------------------------------------------
(* The bound of the queue, and what a finished drain leaves                 *)

LEMMA HoldingCount ==
  ASSUME TypeOK
  PROVE  /\ IsFiniteSet(Holding) /\ Cardinality(Holding) \in Nat
         /\ Cardinality(Callers) \in Nat /\ Cardinality(Holding) <= Cardinality(Callers)
<1>1. Holding \subseteq Callers /\ IsFiniteSet(Callers)
  BY ReporterAssumption DEF Holding
<1>. QED BY <1>1, FS_Subset, FS_CardinalityType

LEMMA BoundKept == IInv /\ TypeOK' /\ [Next]_vars => BoundOK'
<1>. SUFFICES ASSUME IInv, TypeOK', [Next]_vars PROVE BoundOK'
  OBVIOUS
<1>. USE DEF callerVars, loopVars, stopVars, countVars
<1>0. /\ TypeOK /\ BoundOK /\ MaxQueue \in Nat
      /\ Len(queue) \in Nat /\ Len(queue') \in Nat
      /\ Cardinality(Callers) \in Nat
      /\ Cardinality(Holding) \in Nat /\ Cardinality(Holding) <= Cardinality(Callers)
      /\ Cardinality(Holding') \in Nat /\ Cardinality(Holding') <= Cardinality(Callers)
  <2>1. Holding' \subseteq Callers /\ IsFiniteSet(Callers)
    BY ReporterAssumption DEF Holding
  <2>2. Cardinality(Holding') \in Nat /\ Cardinality(Holding') <= Cardinality(Callers)
    BY <2>1, FS_Subset, FS_CardinalityType
  <2>. QED BY <2>2, HoldingCount, ReporterAssumption DEF IInv, TypeOK
<1>1. ASSUME NEW c \in Callers, NEW r \in Records, CheckReport(c, r)
      PROVE  BoundOK'
  <2>1. UNCHANGED <<queue, loop>> /\ (hand' = hand \/ Len(queue) < MaxQueue)
    BY <1>1 DEF CheckReport
  <2>2. hand' = hand => Holding' = Holding
    BY DEF Holding
  <2>3. CASE Len(queue) < MaxQueue
    BY <1>0, <2>1, <2>3 DEF BoundOK
  <2>4. CASE Holding' = Holding
    BY <1>0, <2>1, <2>4 DEF BoundOK
  <2>. QED BY <2>1, <2>2, <2>3, <2>4
<1>2. ASSUME NEW c \in Callers, AppendReport(c)
      PROVE  BoundOK'
  <2>1. c \in Holding /\ Holding' = Holding \ {c} /\ loop' = loop
    BY <1>0, <1>2 DEF AppendReport, Holding, TypeOK
  <2>2. Len(queue') = Len(queue) + 1
    <3>1. hand[c] \in Records
      BY <1>0, <1>2 DEF AppendReport, TypeOK
    <3>. QED BY <1>0, <1>2, <3>1 DEF AppendReport, TypeOK
  <2>3. Cardinality(Holding') = Cardinality(Holding) - 1
    BY <1>0, <2>1, HoldingCount, FS_RemoveElement
  <2>. QED BY <1>0, <2>1, <2>2, <2>3 DEF BoundOK
<1>3. CASE RequeueCheck
  <2>1. UNCHANGED <<queue, hand>> /\ loop = "requeue" /\ (loop' = "requeue_add" => Len(queue) < MaxQueue)
    BY <1>3 DEF RequeueCheck, Returned
  <2>2. Holding' = Holding
    BY <2>1 DEF Holding
  <2>. QED BY <1>0, <2>1, <2>2 DEF BoundOK
<1>4. CASE RequeueAdd
  <2>1. batch # <<>> /\ loop = "requeue_add" /\ loop' = "requeue" /\ hand' = hand
    BY <1>4 DEF RequeueAdd, IInv, ControlOK
  <2>2. Len(queue') = Len(queue) + 1
    <3>1. Last(batch) \in Records /\ queue \in Seq(Records)
      BY <1>0, <2>1, FrontAndLast DEF TypeOK
    <3>. QED BY <1>4, <3>1 DEF RequeueAdd
  <2>3. Holding' = Holding
    BY <2>1 DEF Holding
  <2>. QED BY <1>0, <2>1, <2>2, <2>3 DEF BoundOK
<1>5. ASSUME hand' = hand, Len(queue') <= Len(queue), loop' # "requeue_add" \/ loop = loop'
      PROVE  BoundOK'
  <2>1. Holding' = Holding
    BY <1>5 DEF Holding
  <2>. QED BY <1>0, <1>5, <2>1 DEF BoundOK
<1>6. CASE TakeBatch
  <2>1. Len(queue') <= Len(queue)
    BY <1>6, TakeKeepsData
  <2>. QED BY <1>5, <1>6, <2>1 DEF TakeBatch, Returned
<1>7. CASE ReceiveOk \/ ReceiveFailure \/ FinishFlushLoop \/ CoreReceives \/ ConnectionFails
  BY <1>0, <1>5, <1>7 DEF ReceiveOk, ReceiveFailure, FinishFlushLoop, CoreReceives, ConnectionFails,
     Returned
<1>8. CASE CallStop \/ StopReturns \/ StartSync \/ UNCHANGED vars
  BY <1>0, <1>5, <1>8 DEF CallStop, StopReturns, StartSync, vars
<1>9. CASE Stop
  BY <1>0, <1>5, <1>9 DEF Stop, BeginStop, EndDrain, CountLeftover, ClearQueue
<1>. QED BY <1>1, <1>2, <1>3, <1>4, <1>6, <1>7, <1>8, <1>9 DEF Next, Flush

LEMMA DrainKept == IInv /\ TypeOK' /\ [Next]_vars => DrainOK'
<1>. SUFFICES ASSUME IInv, TypeOK', [Next]_vars PROVE DrainOK'
  OBVIOUS
<1>. USE DEF callerVars, loopVars, stopVars, countVars
<1>0. /\ TypeOK /\ ControlOK /\ DrainOK /\ Len(accepted) \in Nat /\ mark \in Nat
      /\ loop = "stopped" => stopper = "waiting"
  BY DEF IInv, TypeOK, ControlOK
<1>1. ASSUME NEW c \in Callers, AppendReport(c)
      PROVE  DrainOK'
  <2>1. PICK r : r = hand[c]
    OBVIOUS
  <2>2. /\ accepted' = Append(accepted, r) /\ accepted \in Seq(Records) /\ r \in Records
        /\ InQueue' = InQueue \cup {r} /\ UNCHANGED <<loop, mark>>
    BY <1>0, <1>1, <2>1, AppendKeepsData DEF AppendReport, TypeOK
  <2>3. /\ Len(accepted') = Len(accepted) + 1
        /\ \A i \in 1..Len(accepted) : accepted'[i] = accepted[i]
        /\ accepted'[Len(accepted) + 1] = r
    BY <2>2, AppendedElement
  <2>4. ASSUME loop' = "stopped", NEW s \in InQueue'
        PROVE  \E i \in 1..Len(accepted') : i > mark' /\ accepted'[i] = s
    <3>1. CASE s = r
      <4>1. Len(accepted) + 1 \in 1..Len(accepted') /\ Len(accepted) + 1 > mark'
        BY <1>0, <2>2, <2>3 DEF DrainOK
      <4>. QED BY <2>3, <3>1, <4>1
    <3>2. CASE s \in InQueue
      <4>1. PICK i \in 1..Len(accepted) : i > mark /\ accepted[i] = s
        BY <1>0, <2>2, <2>4, <3>2 DEF DrainOK
      <4>2. i \in 1..Len(accepted')
        BY <1>0, <2>3
      <4>. QED BY <2>2, <2>3, <4>1, <4>2
    <3>. QED BY <2>2, <2>4, <3>1, <3>2
  <2>5. mark' <= Len(accepted')
    BY <1>0, <2>2, <2>3 DEF DrainOK
  <2>. QED BY <2>4, <2>5 DEF DrainOK
<1>2. ASSUME UNCHANGED <<accepted, mark>>, loop' # "stopped" \/ queue' = <<>> \/ UNCHANGED <<queue, loop>>
      PROVE  DrainOK'
  <2>1. queue' = <<>> => InQueue' = {}
    BY DEF InQueue, Range
  <2>2. queue' = queue => InQueue' = InQueue
    BY DEF InQueue
  <2>. QED BY <1>0, <1>2, <2>1, <2>2 DEF DrainOK
<1>3. CASE CallStop
  <2>1. mark' = Len(accepted) /\ accepted' = accepted /\ loop' # "stopped"
    BY <1>0, <1>3 DEF CallStop
  <2>. QED BY <1>0, <2>1 DEF DrainOK
<1>4. CASE (\E c \in Callers : \E r \in Records : CheckReport(c, r)) \/ UNCHANGED vars
  BY <1>2, <1>4 DEF CheckReport, vars
<1>5. CASE Flush \/ FinishFlushLoop \/ CoreReceives \/ ConnectionFails
  <2>1. UNCHANGED <<accepted, mark>> /\ loop' # "stopped"
    BY <1>5 DEF Flush, TakeBatch, ReceiveOk, ReceiveFailure, RequeueCheck, RequeueAdd, FinishFlushLoop,
       CoreReceives, ConnectionFails, Returned
  <2>. QED BY <1>2, <2>1
<1>6. CASE StopReturns \/ StartSync \/ BeginStop \/ EndDrain
  <2>1. UNCHANGED <<accepted, mark>> /\ loop' # "stopped"
    BY <1>6 DEF StopReturns, StartSync, BeginStop, EndDrain
  <2>. QED BY <1>2, <2>1
<1>7. CASE CountLeftover \/ ClearQueue
  <2>1. UNCHANGED <<accepted, mark>> /\ (loop' # "stopped" \/ queue' = <<>>)
    BY <1>7 DEF CountLeftover, ClearQueue
  <2>. QED BY <1>2, <2>1
<1>. QED BY <1>1, <1>3, <1>4, <1>5, <1>6, <1>7 DEF Next, Stop

LEMMA AnswerKept == IInv /\ [Next]_vars => AnswerOK'
<1>. SUFFICES ASSUME IInv, [Next]_vars
              PROVE  AnswerOK'
  OBVIOUS
<1>. USE DEF callerVars, loopVars, stopVars, countVars
<1>1. ASSUME UNCHANGED <<answer, loop, batch, stored>> PROVE AnswerOK'
  <2>1. Range(batch') = Range(batch)
    BY <1>1
  <2>. QED BY <1>1, <2>1 DEF IInv, AnswerOK
<1>2. ASSUME answer' # "ok" PROVE AnswerOK'
  BY <1>2 DEF AnswerOK
<1>3. CASE CoreReceives
  <2>1. /\ loop' = "sending" /\ Range(batch') = Range(batch)
        /\ stored' = stored \cup Core!Inserted(Range(batch)) /\ answer' = Core!Answer(Range(batch))
    BY <1>3 DEF CoreReceives
  <2>2. answer' = "ok" => Core!Inserted(Range(batch)) = Range(batch) \ Unstorable
    BY <2>1 DEF Core!Answer, Core!Inserted
  <2>. QED BY <2>1, <2>2 DEF AnswerOK
<1>4. CASE \/ \E c \in Callers : AppendReport(c) \/ \E r \in Records : CheckReport(c, r)
           \/ CallStop \/ UNCHANGED vars
  BY <1>1, <1>4 DEF AppendReport, CheckReport, CallStop, vars
<1>5. CASE \/ TakeBatch \/ ReceiveOk \/ ReceiveFailure \/ ConnectionFails \/ BeginStop \/ StopReturns
  BY <1>2, <1>5 DEF TakeBatch, ReceiveOk, ReceiveFailure, ConnectionFails, BeginStop, StopReturns
<1>6. CASE \/ RequeueCheck \/ RequeueAdd \/ FinishFlushLoop \/ EndDrain \/ CountLeftover \/ ClearQueue
           \/ StartSync
  <2>1. answer' = answer /\ loop # "sending"
    BY <1>6 DEF RequeueCheck, RequeueAdd, FinishFlushLoop, EndDrain, CountLeftover, ClearQueue, StartSync
  <2>. QED BY <1>2, <2>1 DEF IInv, AnswerOK
<1>. QED BY <1>3, <1>4, <1>5, <1>6 DEF Next, Flush, Stop

LEMMA ReporterInvariant == Spec => []IInv
<1>1. IInv /\ [Next]_vars => IInv'
  BY TypeKept, ControlKept, DataKept, BoundKept, DrainKept, AnswerKept DEF IInv
<1>. QED BY InitInv, <1>1, PTL DEF Spec

-----------------------------------------------------------------------------

(* reporter.py of the SDK puts a failed batch back in front of what the     *)
(* callers appended meanwhile: records go out in the order they were        *)
(* accepted.  The unlocked check of report() lets the queue exceed its      *)
(* bound, but never by more than one record per calling thread.             *)
THEOREM SdkKeepsOrder == Spec => []QueueKeepsOrder
<1>1. IInv => QueueKeepsOrder
  <2>. SUFFICES ASSUME IInv PROVE QueueKeepsOrder
    OBVIOUS
  <2>1. DOMAIN Waiting = 1..Len(Waiting)
    BY WaitingElements DEF IInv
  <2>2. Len(queue) <= MaxQueue + Cardinality(Callers)
    <3>1. Len(queue) \in Nat /\ MaxQueue \in Nat
      BY ReporterAssumption DEF IInv, TypeOK
    <3>. QED BY <3>1, HoldingCount DEF IInv, BoundOK
  <2>. QED BY <2>1, <2>2 DEF QueueKeepsOrder, IInv, OrderOK, Waiting
<1>. QED BY <1>1, ReporterInvariant, PTL

(* When the drain of stop() has ended, only a thread that had passed the    *)
(* check of _stop before stop_sync set it can still have queued a record.   *)
THEOREM DrainIsComplete == Spec => []DrainLeavesNothing
<1>1. IInv => DrainLeavesNothing
  <2>. SUFFICES ASSUME IInv PROVE DrainLeavesNothing
    OBVIOUS
  <2>1. DOMAIN accepted = 1..Len(accepted)
    BY DEF IInv, TypeOK
  <2>. QED BY <2>1 DEF IInv, DrainOK, DrainLeavesNothing
<1>. QED BY <1>1, ReporterInvariant, PTL

-----------------------------------------------------------------------------
(* The refinement of Delivery                                               *)

Lost == Range(accepted) \ (InQueue \cup Range(batch) \cup sent \cup dropped)

LEMMA PromiseCardinality == ASSUME NEW S PROVE Promise!Cardinality(S) = Cardinality(S)
BY Zenon DEF Promise!Cardinality, Cardinality

LEMMA HeldIsWaiting ==
  TypeOK => /\ Held = Range(Waiting) \ dropped
            /\ Lost = Range(accepted) \ (Range(Waiting) \cup sent \cup dropped)
<1>. SUFFICES ASSUME TypeOK
              PROVE  InQueue \cup Range(batch) = Range(Waiting)
  BY DEF Held, Lost
<1>. QED BY WaitingElements

LEMMA HeldWillBeWaiting ==
  TypeOK' => (/\ Held = Range(Waiting) \ dropped
              /\ Lost = Range(accepted) \ (Range(Waiting) \cup sent \cup dropped))'
BY HeldIsWaiting, PTL

LEMMA CallerDelivers ==
  ASSUME IInv, TypeOK', NEW c \in Callers,
         AppendReport(c) \/ \E r \in Records : CheckReport(c, r)
  PROVE  Promise!Next \/ UNCHANGED <<Held, sent, dropped, Lost, stored, stopFlag>>
<1>. USE DEF callerVars, loopVars, stopVars, countVars
<1>1. ASSUME NEW r \in Records, CheckReport(c, r)
      PROVE  Promise!Next \/ UNCHANGED <<Held, sent, dropped, Lost, stored, stopFlag>>
  <2>1. UNCHANGED <<queue, batch, accepted, sent, stored, stopFlag>> /\ r \in fresh
    BY <1>1 DEF CheckReport
  <2>2. InQueue' = InQueue /\ Range(batch') = Range(batch) /\ Range(accepted') = Range(accepted)
    BY <2>1 DEF InQueue, Range
  <2>3. CASE dropped' = dropped
    BY <2>1, <2>2, <2>3 DEF Held, Lost
  <2>4. CASE ~stopFlag /\ Len(queue) >= MaxQueue /\ dropped' = dropped \cup {r}
    <3>1. r \notin Range(accepted) /\ r \notin dropped /\ Range(Waiting) \cup sent \subseteq Range(accepted)
      BY <2>1 DEF IInv, OnceOK, PlaceOK
    <3>2. r \notin Held \cup sent \cup dropped \cup Lost
      BY <3>1, HeldIsWaiting DEF IInv
    <3>3. Held' = Held /\ Lost' = Lost
      <4>1. r \notin InQueue \cup Range(batch)
        BY <3>1, WaitingElements DEF IInv
      <4>. QED BY <2>1, <2>2, <2>4, <3>1, <4>1 DEF Held, Lost
    <3>4. Held = Range(Waiting)
      <4>1. dropped \cap Range(Waiting) = {}
        BY <2>4 DEF IInv, ControlOK, PlaceOK
      <4>. QED BY <4>1, HeldIsWaiting DEF IInv
    <3>5. Cardinality(Held) >= MaxQueue
      <4>1. Len(queue) \in Nat /\ Len(batch) \in Nat /\ MaxQueue \in Nat
        BY ReporterAssumption DEF IInv, TypeOK
      <4>2. Cardinality(Held) = Len(batch) + Len(queue)
        BY <3>4, WaitingDistinct
      <4>. QED BY <2>4, <4>1, <4>2
    <3>6. Promise!Refuse(r)
      BY <2>1, <2>4, <3>2, <3>3, <3>5, PromiseCardinality DEF Promise!Refuse, Promise!Known, Lost
    <3>. QED BY <3>6 DEF Promise!Next
  <2>. QED BY <1>1, <2>3, <2>4 DEF CheckReport
<1>2. CASE AppendReport(c)
  <2>1. PICK r : r = hand[c]
    OBVIOUS
  <2>2. /\ r \in Records /\ r \notin Range(accepted) /\ r \notin dropped
        /\ Range(accepted') = Range(accepted) \cup {r} /\ InQueue' = InQueue \cup {r}
    BY <1>2, <2>1, AppendKeepsData
  <2>3. UNCHANGED <<batch, sent, dropped, stored, stopFlag>> /\ Range(batch') = Range(batch)
    BY <1>2 DEF AppendReport
  <2>4. Range(Waiting) \cup sent \subseteq Range(accepted)
    BY DEF IInv, PlaceOK
  <2>5. Held' = Held \cup {r} /\ Lost' = Lost
    BY <2>2, <2>3, <2>4 DEF Held, Lost
  <2>6. r \notin Held \cup sent \cup dropped \cup Lost
    BY <2>2, <2>4, HeldIsWaiting DEF IInv
  <2>7. Promise!Accept(r)
    BY <2>3, <2>5, <2>6 DEF Promise!Accept, Promise!Known, Lost
  <2>. QED BY <2>2, <2>7 DEF Promise!Next
<1>. QED BY <1>1, <1>2

(* A batch that leaves was sent, is dropped while stopping, or is forgotten *)
(* by the stop.                                                             *)
LEMMA BatchDelivers ==
  ASSUME IInv, ReceiveOk \/ ReceiveFailure \/ BeginStop \/ StopReturns
  PROVE  Promise!Next \/ UNCHANGED <<Held, sent, dropped, Lost, stored, stopFlag>>
<1>. USE DEF callerVars, loopVars, stopVars, countVars
<1>0. /\ queue' = queue /\ accepted' = accepted /\ stopFlag' = stopFlag /\ stored' = stored
      /\ InQueue' = InQueue /\ Range(accepted') = Range(accepted)
      /\ Range(batch) \cap InQueue = {} /\ Range(batch) \subseteq Range(accepted)
      /\ Range(batch) \cap (sent \cup dropped) = {}
  <2>1. UNCHANGED <<queue, accepted, stored, stopFlag>> /\ loop # "clearing"
    BY DEF ReceiveOk, ReceiveFailure, BeginStop, StopReturns
  <2>2. Range(batch) \subseteq Range(Waiting)
    BY WaitingElements DEF IInv
  <2>3. Range(batch) \subseteq Range(accepted) /\ Range(batch) \cap (sent \cup dropped) = {}
    BY <2>1, <2>2 DEF IInv, PlaceOK
  <2>. QED BY <2>1, <2>3, WaitingDistinct DEF InQueue
<1>1. Range(batch) \in SUBSET Held
  BY <1>0 DEF Held
<1>2. batch' = <<>> => Range(batch') = {}
  BY DEF Range
<1>3. CASE ReceiveOk
  <2>1. batch' = <<>> /\ sent' = sent \cup Range(batch) /\ dropped' = dropped
    BY <1>3 DEF ReceiveOk
  <2>0. Range(batch) \ Unstorable \subseteq stored
    BY <1>3 DEF ReceiveOk, IInv, AnswerOK
  <2>2. Held' = Held \ Range(batch) /\ Lost' = Lost
    BY <1>0, <1>2, <2>1 DEF Held, Lost
  <2>3. Promise!Send(Range(batch))
    BY <1>0, <2>0, <2>1, <2>2 DEF Promise!Send, Lost
  <2>. QED BY <1>1, <2>3 DEF Promise!Next
<1>4. CASE ReceiveFailure /\ stopFlag
  <2>1. batch' = <<>> /\ dropped' = dropped \cup Range(batch) /\ sent' = sent
    BY <1>4 DEF ReceiveFailure
  <2>2. Held' = Held \ Range(batch) /\ Lost' = Lost
    BY <1>0, <1>2, <2>1 DEF Held, Lost
  <2>3. Promise!Drop(Range(batch))
    BY <1>0, <1>4, <2>1, <2>2 DEF Promise!Drop, Lost
  <2>. QED BY <1>1, <2>3 DEF Promise!Next
<1>5. CASE ReceiveFailure /\ ~stopFlag
  <2>1. UNCHANGED <<batch, sent, dropped>> /\ Range(batch') = Range(batch)
    BY <1>5 DEF ReceiveFailure
  <2>. QED BY <1>0, <2>1 DEF Held, Lost
<1>6. CASE BeginStop \/ StopReturns
  <2>1. batch' = <<>> /\ UNCHANGED <<sent, dropped>> /\ stopFlag
    BY <1>6 DEF BeginStop, StopReturns, IInv, ControlOK
  <2>2. Held' = Held \ Range(batch) /\ Lost' = Lost \cup Range(batch)
    BY <1>0, <1>2, <2>1 DEF Held, Lost
  <2>3. stopFlag' = TRUE
    BY <1>0, <2>1 DEF IInv, TypeOK
  <2>4. Promise!Stop(Range(batch))
    BY <1>0, <2>1, <2>2, <2>3 DEF Promise!Stop, Lost
  <2>. QED BY <1>1, <2>4 DEF Promise!Next
<1>. QED BY <1>3, <1>4, <1>5, <1>6

(* The Core stores records of a batch that is still held.                    *)
LEMMA CoreDelivers ==
  ASSUME IInv, CoreReceives
  PROVE  Promise!Next
<1>. DEFINE S == Core!Inserted(Range(batch))
<1>1. /\ UNCHANGED <<queue, batch, sent, dropped, accepted, stopFlag>>
      /\ stored' = stored \cup S /\ loop = "sending"
  BY DEF CoreReceives, callerVars, stopVars, countVars
<1>2. S \subseteq Range(batch)
  BY DEF Core!Inserted
<1>. HIDE DEF S
<1>3. Range(batch) \subseteq Range(Waiting) /\ dropped \cap Range(Waiting) = {}
  BY <1>1, WaitingElements DEF IInv, PlaceOK
<1>4. S \in SUBSET Held
  BY <1>2, <1>3 DEF Held
<1>5. Held' = Held /\ Lost' = Lost
  <2>1. InQueue' = InQueue /\ Range(batch') = Range(batch) /\ Range(accepted') = Range(accepted)
    BY <1>1 DEF InQueue
  <2>. QED BY <1>1, <2>1 DEF Held, Lost
<1>6. Promise!Store(S)
  BY <1>1, <1>5 DEF Promise!Store, Lost
<1>. QED BY <1>4, <1>6 DEF Promise!Next

LEMMA TakeDelivers ==
  ASSUME IInv, TypeOK', TakeBatch
  PROVE  Promise!Next
<1>. DEFINE S == {r \in Range(Taken) : ~Safe(r)}
<1>1. /\ Range(Waiting') = Range(Waiting) \ S /\ S \subseteq Range(Waiting)
      /\ dropped \cap Range(Waiting) = {} /\ dropped' = dropped \cup S
  BY TakeKeepsData, TakenBatch DEF IInv
<1>2. UNCHANGED <<sent, stored, stopFlag>> /\ Range(accepted') = Range(accepted)
  BY DEF TakeBatch, callerVars, stopVars
<1>3. S \subseteq Unsafe
  BY DEF Safe
<1>. HIDE DEF S
<1>4. /\ Held = Range(Waiting) \ dropped
      /\ Lost = Range(accepted) \ (Range(Waiting) \cup sent \cup dropped)
      /\ Held' = Range(Waiting') \ dropped'
      /\ Lost' = Range(accepted') \ (Range(Waiting') \cup sent' \cup dropped')
  BY HeldIsWaiting, HeldWillBeWaiting DEF IInv
<1>5. Held' = Held \ S /\ Lost' = Lost /\ S \in SUBSET Held
  BY <1>1, <1>2, <1>4
<1>6. Promise!Drop(S)
  BY <1>1, <1>2, <1>3, <1>5 DEF Promise!Drop, Lost
<1>. QED BY <1>5, <1>6 DEF Promise!Next

LEMMA RequeueDelivers ==
  ASSUME IInv, TypeOK', RequeueCheck \/ RequeueAdd
  PROVE  Promise!Next \/ UNCHANGED <<Held, sent, dropped, Lost, stored, stopFlag>>
<1>1. /\ UNCHANGED <<sent, dropped, stored, stopFlag>> /\ Range(accepted') = Range(accepted)
      /\ loop \in {"requeue", "requeue_add"}
  BY DEF RequeueCheck, RequeueAdd, callerVars, stopVars, countVars
<1>2. /\ Held = Range(Waiting) \ dropped
      /\ Lost = Range(accepted) \ (Range(Waiting) \cup sent \cup dropped)
      /\ Held' = Range(Waiting') \ dropped'
      /\ Lost' = Range(accepted') \ (Range(Waiting') \cup sent' \cup dropped')
  BY HeldIsWaiting, HeldWillBeWaiting DEF IInv
<1>3. CASE Waiting' = Waiting
  <2>1. Range(Waiting') = Range(Waiting)
    BY <1>3
  <2>. QED BY <1>1, <1>2, <2>1
<1>4. CASE Range(Waiting') \subseteq Range(Waiting) /\ Len(queue) >= MaxQueue /\ batch # <<>>
  <2>. DEFINE S == Range(Waiting) \ Range(Waiting')
  <2>1. dropped \cap Range(Waiting) = {} /\ sent \cap Range(Waiting) = {} /\ Range(Waiting) \subseteq Range(accepted)
    BY <1>1 DEF IInv, PlaceOK
  <2>2. Held = Range(Waiting) /\ Held' = Held \ S /\ Lost' = Lost \cup S /\ S \in SUBSET Held
    BY <1>1, <1>2, <1>4, <2>1
  <2>. HIDE DEF S
  <2>3. Cardinality(Held) > MaxQueue
    <3>1. /\ Len(queue) \in Nat /\ MaxQueue \in Nat /\ Len(batch) \in Nat \ {0}
          /\ Cardinality(Held) = Len(batch) + Len(queue)
      BY <1>4, <2>2, WaitingDistinct, FrontAndLast, ReporterAssumption DEF IInv, TypeOK
    <3>. QED BY <1>4, <3>1
  <2>4. Promise!Lose(S)
    BY <1>1, <2>2, <2>3, PromiseCardinality DEF Promise!Lose, Lost
  <2>. QED BY <2>2, <2>4 DEF Promise!Next
<1>. QED BY <1>3, <1>4, RequeueKeepsData

LEMMA StopDelivers ==
  ASSUME IInv, CountLeftover \/ ClearQueue \/ CallStop \/ StartSync
  PROVE  Promise!Next \/ UNCHANGED <<Held, sent, dropped, Lost, stored, stopFlag>>
<1>. USE DEF callerVars, loopVars, stopVars, countVars
<1>0. /\ InQueue \cup Range(batch) = Range(Waiting)
      /\ Range(Waiting) \cup sent \subseteq Range(accepted) /\ sent \cap Range(Waiting) = {}
  BY WaitingElements DEF IInv, PlaceOK
<1>1. CASE CountLeftover
  <2>1. /\ UNCHANGED <<queue, batch, accepted, sent, stored, stopFlag>>
        /\ InQueue' = InQueue /\ Range(batch') = Range(batch) /\ Range(accepted') = Range(accepted)
    BY <1>1 DEF CountLeftover, InQueue
  <2>2. CASE dropped' = dropped
    BY <2>1, <2>2 DEF Held, Lost
  <2>3. CASE dropped' = dropped \cup InQueue
    <3>1. dropped \cap Range(Waiting) = {} /\ stopFlag
      BY <1>1 DEF CountLeftover, IInv, PlaceOK, ControlOK
    <3>2. Held' = Held \ InQueue /\ Lost' = Lost /\ InQueue \in SUBSET Held
      BY <1>0, <2>1, <2>3, <3>1 DEF Held, Lost
    <3>3. Promise!Drop(InQueue)
      BY <2>1, <2>3, <3>1, <3>2 DEF Promise!Drop, Lost
    <3>. QED BY <3>2, <3>3 DEF Promise!Next
  <2>. QED BY <1>1, <2>2, <2>3 DEF CountLeftover, InQueue
<1>2. CASE ClearQueue
  <2>1. /\ queue' = <<>> /\ batch = <<>> /\ batch' = <<>> /\ stopFlag' = TRUE
        /\ UNCHANGED <<accepted, sent, dropped, stored>> /\ Range(accepted') = Range(accepted)
    BY <1>2 DEF ClearQueue, IInv, ControlOK, TypeOK
  <2>2. InQueue' = {} /\ Range(batch) = {} /\ Range(batch') = {}
    BY <2>1 DEF InQueue, Range
  <2>3. Held' = Held \ Held /\ Lost' = Lost \cup Held
    BY <1>0, <2>1, <2>2 DEF Held, Lost
  <2>4. Promise!Stop(Held)
    BY <2>1, <2>3 DEF Promise!Stop, Lost
  <2>. QED BY <2>4 DEF Promise!Next
<1>3. CASE CallStop \/ StartSync
  <2>1. /\ UNCHANGED <<queue, batch, accepted, sent, dropped, stored>>
        /\ InQueue' = InQueue /\ Range(batch') = Range(batch) /\ Range(accepted') = Range(accepted)
    BY <1>3 DEF CallStop, StartSync, InQueue
  <2>2. Held' = Held /\ Lost' = Lost
    BY <2>1 DEF Held, Lost
  <2>3. CASE CallStop
    <3>1. Promise!Stop({})
      BY <2>1, <2>2, <2>3 DEF Promise!Stop, CallStop, Lost
    <3>2. {} \in SUBSET Held
      OBVIOUS
    <3>. QED BY <3>1, <3>2 DEF Promise!Next
  <2>4. CASE StartSync
    BY <2>1, <2>2, <2>4 DEF Promise!Next, Promise!Start, StartSync, Lost
  <2>. QED BY <1>3, <2>3, <2>4
<1>. QED BY <1>1, <1>2, <1>3

LEMMA StepDelivers ==
  IInv /\ TypeOK' /\ [Next]_vars => [Promise!Next]_(Promise!vars)
<1>. SUFFICES ASSUME IInv, TypeOK', [Next]_vars
              PROVE  Promise!Next \/ UNCHANGED <<Held, sent, dropped, Lost, stored, stopFlag>>
  BY DEF Promise!vars, Lost
<1>1. CASE UNCHANGED vars \/ FinishFlushLoop \/ ConnectionFails \/ EndDrain
  <2>1. UNCHANGED <<queue, batch, sent, dropped, accepted, stored, stopFlag>>
    BY <1>1 DEF vars, FinishFlushLoop, ConnectionFails, EndDrain, callerVars, loopVars,
       stopVars, countVars
  <2>. QED BY <2>1 DEF Held, Lost, InQueue, Range
<1>2. CASE CoreReceives
  BY <1>2, CoreDelivers
<1>. QED BY <1>1, <1>2, CallerDelivers, BatchDelivers, TakeDelivers, RequeueDelivers, StopDelivers
         DEF Next, Flush, Stop

(* The SDK's reporter keeps the promise of a telemetry reporter with its     *)
(* business threads, its flush task and the stopping thread interleaved: a   *)
(* record it accepted leaves once, as sent or as dropped, and is lost only   *)
(* when a failed batch meets a full queue, or by the stop.  What is counted  *)
(* as sent the Core has stored, or, in a partly answered batch, cannot store. *)
THEOREM SdkDelivers == Spec => ImplementsDelivery
<1>1. Init => Promise!Init
  BY DEF Init, Promise!Init, InQueue, Held, Range
<1>2. IInv => TypeOK
  BY DEF IInv
<1>. QED BY <1>1, <1>2, ReporterInvariant, StepDelivers, PTL DEF Spec, ImplementsDelivery, Promise!Spec
=============================================================================
