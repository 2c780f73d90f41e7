-------------------------- MODULE ProxyHandler_proofs ---------------------------
(***************************************************************************)
(* The Proxy's reporter keeps the order of what it queued and implements   *)
(* Delivery, for any records, any queue size and any batch size.  A        *)
(* handler uses the reporter as ProxyReporter describes it, so that what   *)
(* is proved of the reporter alone holds of the Proxy; and what a record   *)
(* of an observed request may say.                                         *)
(***************************************************************************)
EXTENDS ProxyHandler, FiniteSetTheorems, TLAPS

TypeOK ==
  /\ fresh \in SUBSET Records
  /\ queue \in Seq(Records)
  /\ batch \in Seq(Records)
  /\ accepted \in Seq(Records)
  /\ task \in {"sleep", "sending", "final", "final_sending", "finished", "closed"}
  /\ answer \in {"none", "ok", "failed"}
  /\ stopFlag \in BOOLEAN
  /\ sent \in SUBSET Records
  /\ dropped \in SUBSET Records

(* A record is reported once, and is then either accepted or dropped.      *)
OnceOK ==
  /\ \A i, j \in 1..Len(accepted) : accepted[i] = accepted[j] => i = j
  /\ fresh \cap (Range(accepted) \cup dropped) = {}
  /\ dropped \cap Range(accepted) = {}

(* What waits was accepted and is not sent; a batch exists during its POST. *)
PlaceOK ==
  /\ InQueue \cup InBatch \cup sent \subseteq Range(accepted)
  /\ sent \cap (InQueue \cup InBatch) = {}
  /\ ~Sending => batch = <<>>
  /\ Len(queue) <= MaxQueue

(* The batch was accepted before the queue, each in its order.             *)
OrderOK ==
  /\ \A i, j \in 1..Len(queue) : i < j => AcceptedBefore(queue[i], queue[j])
  /\ \A i, j \in 1..Len(batch) : i < j => AcceptedBefore(batch[i], batch[j])
  /\ \A i \in 1..Len(batch), j \in 1..Len(queue) : AcceptedBefore(batch[i], queue[j])

IInv == TypeOK /\ OnceOK /\ PlaceOK /\ OrderOK

(* Of a batch the Core answered, it has stored what it can store.            *)
AnswerOK == answer = "ok" => Sending /\ InBatch \ Unstorable \subseteq stored

-----------------------------------------------------------------------------
(* Sequences                                                                *)

LEMMA RangeElements ==
  ASSUME NEW S, NEW s \in Seq(S)
  PROVE  /\ Range(s) = {s[i] : i \in 1..Len(s)}
         /\ Range(s) \subseteq S
BY DEF Range

LEMMA AppendedElement ==
  ASSUME NEW S, NEW s \in Seq(S), NEW e \in S
  PROVE  /\ Append(s, e) \in Seq(S)
         /\ Len(Append(s, e)) = Len(s) + 1
         /\ \A i \in 1..Len(s) : Append(s, e)[i] = s[i]
         /\ Append(s, e)[Len(s) + 1] = e
         /\ Range(Append(s, e)) = Range(s) \cup {e}
<1>1. /\ Append(s, e) \in Seq(S)
      /\ Len(Append(s, e)) = Len(s) + 1
      /\ \A i \in 1..Len(s) : Append(s, e)[i] = s[i]
      /\ Append(s, e)[Len(s) + 1] = e
  OBVIOUS
<1>2. Range(Append(s, e)) = {Append(s, e)[i] : i \in 1..(Len(s) + 1)}
      /\ Range(s) = {s[i] : i \in 1..Len(s)}
  BY <1>1, RangeElements
<1>3. 1..(Len(s) + 1) = 1..Len(s) \cup {Len(s) + 1} /\ Len(s) \in Nat
  OBVIOUS
<1>. QED BY <1>1, <1>2, <1>3

(* A sequence cut in two.                                                   *)
LEMMA CutSequence ==
  ASSUME NEW S, NEW s \in Seq(S), NEW n \in 0..Len(s)
  PROVE  LET head == SubSeq(s, 1, n)
             tail == SubSeq(s, n + 1, Len(s))
         IN  /\ head \in Seq(S) /\ Len(head) = n
             /\ \A i \in 1..n : head[i] = s[i]
             /\ tail \in Seq(S) /\ Len(tail) = Len(s) - n
             /\ \A i \in 1..(Len(s) - n) : tail[i] = s[n + i]
             /\ Range(head) \cup Range(tail) = Range(s)
<1>. DEFINE head == SubSeq(s, 1, n)
            tail == SubSeq(s, n + 1, Len(s))
<1>1. head \in Seq(S) /\ Len(head) = n /\ \A i \in 1..n : head[i] = s[i]
  OBVIOUS
<1>2. tail \in Seq(S) /\ Len(tail) = Len(s) - n /\ \A i \in 1..(Len(s) - n) : tail[i] = s[n + i]
  OBVIOUS
<1>. HIDE DEF head, tail
<1>3. /\ Range(s) = {s[i] : i \in 1..Len(s)}
      /\ Range(head) = {head[i] : i \in 1..n}
      /\ Range(tail) = {tail[i] : i \in 1..(Len(s) - n)}
  BY <1>1, <1>2, RangeElements
<1>4. ASSUME NEW i \in 1..Len(s) PROVE s[i] \in Range(head) \cup Range(tail)
  <2>1. CASE i <= n
    BY <1>1, <1>3, <2>1
  <2>2. CASE i > n
    <3>1. i - n \in 1..(Len(s) - n) /\ tail[i - n] = s[i]
      BY <1>2, <2>2
    <3>. QED BY <1>3, <3>1
  <2>. QED BY <2>1, <2>2
<1>5. Range(head) \subseteq Range(s) /\ Range(tail) \subseteq Range(s)
  <2>1. \A i \in 1..n : i \in 1..Len(s)
    OBVIOUS
  <2>2. \A i \in 1..(Len(s) - n) : n + i \in 1..Len(s)
    OBVIOUS
  <2>. QED BY <1>1, <1>2, <1>3, <2>1, <2>2
<1>6. Range(head) \cup Range(tail) = Range(s)
  BY <1>3, <1>4, <1>5
<1>. QED BY <1>1, <1>2, <1>6 DEF head, tail

LEMMA Concatenation ==
  ASSUME NEW S, NEW s \in Seq(S), NEW t \in Seq(S)
  PROVE  /\ s \o t \in Seq(S) /\ Len(s \o t) = Len(s) + Len(t)
         /\ \A i \in 1..Len(s) : (s \o t)[i] = s[i]
         /\ \A i \in 1..Len(t) : (s \o t)[Len(s) + i] = t[i]
         /\ Range(s \o t) = Range(s) \cup Range(t)
<1>. DEFINE c == s \o t
<1>1. /\ c \in Seq(S) /\ Len(c) = Len(s) + Len(t)
      /\ \A i \in 1..Len(s) : c[i] = s[i]
      /\ \A i \in 1..Len(t) : c[Len(s) + i] = t[i]
  OBVIOUS
<1>. HIDE DEF c
<1>2. /\ Range(c) = {c[i] : i \in 1..Len(c)}
      /\ Range(s) = {s[i] : i \in 1..Len(s)}
      /\ Range(t) = {t[i] : i \in 1..Len(t)}
  BY <1>1, RangeElements
<1>3. ASSUME NEW i \in 1..Len(c) PROVE c[i] \in Range(s) \cup Range(t)
  <2>1. CASE i <= Len(s)
    BY <1>1, <1>2, <2>1
  <2>2. CASE i > Len(s)
    <3>1. i - Len(s) \in 1..Len(t) /\ c[i] = t[i - Len(s)]
      BY <1>1, <2>2
    <3>. QED BY <1>2, <3>1
  <2>. QED BY <2>1, <2>2
<1>4. Range(s) \subseteq Range(c) /\ Range(t) \subseteq Range(c)
  <2>1. \A i \in 1..Len(s) : i \in 1..Len(c)
    BY <1>1
  <2>2. \A i \in 1..Len(t) : Len(s) + i \in 1..Len(c)
    BY <1>1
  <2>. QED BY <1>1, <1>2, <2>1, <2>2
<1>5. Range(c) = Range(s) \cup Range(t)
  BY <1>2, <1>3, <1>4
<1>. QED BY <1>1, <1>5 DEF c

LEMMA CountDistinct ==
  ASSUME NEW S, NEW s \in Seq(S),
         \A i, j \in 1..Len(s) : s[i] = s[j] => i = j
  PROVE  IsFiniteSet(Range(s)) /\ Cardinality(Range(s)) = Len(s)
<1>1. Len(s) \in Nat /\ Range(s) = {s[i] : i \in 1..Len(s)}
  BY RangeElements
<1>2. s \in [1..Len(s) -> Range(s)]
  BY <1>1
<1>3. s \in Bijection(1..Len(s), Range(s))
  BY <1>1, <1>2 DEF Bijection, Injection, Surjection, IsInjective
<1>4. ExistsBijection(1..Len(s), Range(s))
  BY <1>3 DEF ExistsBijection
<1>5. Cardinality(Range(s)) = Len(s)
  BY <1>1, <1>4, FS_CountingElements
<1>6. IsFiniteSet(1..Len(s))
  BY <1>1, FS_Interval
<1>7. IsFiniteSet(Range(s))
  BY <1>4, <1>6, FS_Bijection
<1>. QED BY <1>5, <1>7

-----------------------------------------------------------------------------
(* The invariant                                                            *)

LEMMA BeforeIsStrict ==
  ASSUME TypeOK, OnceOK, NEW r, NEW s, AcceptedBefore(r, s)
  PROVE  r # s /\ r \in Range(accepted) /\ s \in Range(accepted)
BY DEF TypeOK, OnceOK, AcceptedBefore, Range

LEMMA Waiting ==
  ASSUME IInv
  PROVE  /\ \A i \in 1..Len(queue) : queue[i] \in InQueue
         /\ \A i \in 1..Len(batch) : batch[i] \in InBatch
         /\ InQueue = {queue[i] : i \in 1..Len(queue)}
         /\ InBatch = {batch[i] : i \in 1..Len(batch)}
         /\ InQueue \cap InBatch = {}
<1>. USE DEF IInv
<1>1. /\ InQueue = {queue[i] : i \in 1..Len(queue)}
      /\ InBatch = {batch[i] : i \in 1..Len(batch)}
  BY RangeElements DEF TypeOK, InQueue, InBatch
<1>2. \A i \in 1..Len(batch), j \in 1..Len(queue) : batch[i] # queue[j]
  BY BeforeIsStrict DEF OrderOK
<1>. QED BY <1>1, <1>2

(* A record that is accepted comes after everything that waits.             *)
LEMMA AcceptStep ==
  ASSUME IInv, NEW r \in fresh, Len(queue) < MaxQueue,
         fresh' = fresh \ {r}, queue' = Append(queue, r), accepted' = Append(accepted, r),
         UNCHANGED <<batch, task, answer, stopFlag, sent, dropped>>
  PROVE  IInv'
<1>. USE DEF IInv
<1>0. r \in Records /\ r \notin Range(accepted) /\ MaxQueue \in Nat
  BY ProxyAssumption DEF TypeOK, OnceOK
<1>1. /\ queue' \in Seq(Records) /\ Len(queue') = Len(queue) + 1
      /\ \A i \in 1..Len(queue) : queue'[i] = queue[i]
      /\ queue'[Len(queue) + 1] = r
      /\ InQueue' = InQueue \cup {r}
  BY <1>0, AppendedElement DEF TypeOK, InQueue
<1>2. /\ accepted' \in Seq(Records) /\ Len(accepted') = Len(accepted) + 1
      /\ \A i \in 1..Len(accepted) : accepted'[i] = accepted[i]
      /\ accepted'[Len(accepted) + 1] = r
      /\ Range(accepted)' = Range(accepted) \cup {r}
  BY <1>0, AppendedElement DEF TypeOK
<1>3. Len(accepted) \in Nat /\ Len(queue) \in Nat /\ Len(batch) \in Nat
  BY DEF TypeOK
<1>4. ASSUME NEW x, NEW y, AcceptedBefore(x, y)
      PROVE  AcceptedBefore(x, y)'
  <2>1. PICK i, j \in 1..Len(accepted) : i < j /\ accepted[i] = x /\ accepted[j] = y
    <3>1. DOMAIN accepted = 1..Len(accepted)
      BY DEF TypeOK
    <3>. QED BY <1>4, <3>1 DEF AcceptedBefore
  <2>2. i \in DOMAIN accepted' /\ j \in DOMAIN accepted'
    BY <1>2, <1>3
  <2>. QED BY <1>2, <2>1, <2>2 DEF AcceptedBefore
<1>5. ASSUME NEW x \in Range(accepted)
      PROVE  AcceptedBefore(x, r)'
  <2>1. PICK i \in 1..Len(accepted) : accepted[i] = x
    BY RangeElements DEF TypeOK
  <2>2. i \in DOMAIN accepted' /\ Len(accepted) + 1 \in DOMAIN accepted'
    BY <1>2, <1>3
  <2>. QED BY <1>2, <1>3, <2>1, <2>2 DEF AcceptedBefore
<1>6. TypeOK'
  BY <1>1, <1>2 DEF TypeOK
<1>7. OnceOK'
  <2>1. \A i \in 1..Len(accepted) : accepted[i] # r
    BY <1>0, RangeElements DEF TypeOK
  <2>2. \A i, j \in 1..Len(accepted)' : accepted'[i] = accepted'[j] => i = j
    BY <1>2, <1>3, <2>1 DEF OnceOK
  <2>3. fresh' \cap (Range(accepted)' \cup dropped') = {} /\ dropped' \cap Range(accepted)' = {}
    BY <1>2 DEF OnceOK
  <2>. QED BY <2>2, <2>3 DEF OnceOK
<1>8. PlaceOK'
  <2>1. InBatch' = InBatch /\ Sending' = Sending
    BY DEF InBatch, Sending
  <2>. QED BY <1>0, <1>1, <1>2, <1>3, <2>1 DEF PlaceOK
<1>9. OrderOK'
  <2>1. /\ \A i \in 1..Len(queue) : queue[i] \in Range(accepted)
        /\ \A i \in 1..Len(batch) : batch[i] \in Range(accepted)
    BY Waiting DEF PlaceOK
  <2>2. ASSUME NEW i \in 1..Len(queue'), NEW j \in 1..Len(queue'), i < j
        PROVE  AcceptedBefore(queue[i], queue[j])'
    <3>1. i \in 1..Len(queue)
      BY <1>1, <1>3, <2>2
    <3>2. CASE j = Len(queue) + 1
      BY <1>1, <1>5, <2>1, <3>1, <3>2
    <3>3. CASE j # Len(queue) + 1
      <4>1. j \in 1..Len(queue)
        BY <1>1, <1>3, <3>3
      <4>2. AcceptedBefore(queue[i], queue[j])
        BY <2>2, <3>1, <4>1 DEF OrderOK
      <4>. QED BY <1>1, <1>4, <3>1, <4>1, <4>2
    <3>. QED BY <3>2, <3>3
  <2>3. ASSUME NEW i \in 1..Len(batch'), NEW j \in 1..Len(batch'), i < j
        PROVE  AcceptedBefore(batch[i], batch[j])'
    BY <1>4, <2>3 DEF OrderOK
  <2>4. ASSUME NEW i \in 1..Len(batch'), NEW j \in 1..Len(queue')
        PROVE  AcceptedBefore(batch[i], queue[j])'
    <3>1. CASE j = Len(queue) + 1
      BY <1>1, <1>5, <2>1, <3>1
    <3>2. CASE j # Len(queue) + 1
      <4>1. j \in 1..Len(queue)
        BY <1>1, <1>3, <3>2
      <4>2. AcceptedBefore(batch[i], queue[j])
        BY <4>1 DEF OrderOK
      <4>. QED BY <1>1, <1>4, <4>1, <4>2
    <3>. QED BY <3>1, <3>2
  <2>. QED BY <2>2, <2>3, <2>4 DEF OrderOK
<1>. QED BY <1>6, <1>7, <1>8, <1>9

(* A step that leaves what waits alone.                                     *)
LEMMA WaitingUntouched ==
  ASSUME IInv, UNCHANGED <<queue, batch, accepted, task, sent>>,
         fresh' \subseteq fresh, dropped' \subseteq dropped \cup (fresh \ fresh'),
         answer' \in {"none", "ok", "failed"}, stopFlag' \in BOOLEAN
  PROVE  IInv'
<1>. USE DEF IInv
<1>1. InQueue' = InQueue /\ InBatch' = InBatch /\ Range(accepted)' = Range(accepted)
  BY DEF InQueue, InBatch, Range
<1>2. TypeOK'
  BY DEF TypeOK
<1>3. OnceOK'
  BY <1>1 DEF OnceOK
<1>4. PlaceOK'
  BY <1>1 DEF PlaceOK, Sending
<1>5. OrderOK'
  BY DEF OrderOK, AcceptedBefore
<1>. QED BY <1>2, <1>3, <1>4, <1>5

LEMMA ReportStep ==
  ASSUME IInv, NEW r \in Records, Report(r)
  PROVE  IInv'
<1>0. Len(queue) \in Nat /\ MaxQueue \in Nat
  BY ProxyAssumption DEF IInv, TypeOK
<1>1. /\ r \in fresh /\ fresh' = fresh \ {r}
      /\ UNCHANGED <<batch, task, answer, stopFlag, sent>>
  BY DEF Report
<1>2. answer' \in {"none", "ok", "failed"} /\ stopFlag' \in BOOLEAN
  BY <1>1 DEF IInv, TypeOK
<1>3. CASE stopFlag \/ Len(queue) >= MaxQueue
  <2>1. /\ UNCHANGED <<queue, accepted>>
        /\ dropped' = dropped \/ dropped' = dropped \cup {r}
    BY <1>0, <1>3 DEF Report, Enqueue
  <2>. QED BY <1>1, <1>2, <2>1, WaitingUntouched
<1>4. CASE ~stopFlag /\ Len(queue) < MaxQueue
  BY <1>0, <1>1, <1>4, AcceptStep DEF Report, Enqueue
<1>. QED BY <1>0, <1>3, <1>4

(* A step that only takes the batch away, or nothing.                       *)
LEMMA BatchGone ==
  ASSUME IInv, batch' = <<>>, UNCHANGED <<fresh, queue, dropped, accepted>>,
         sent' = sent \/ sent' = sent \cup InBatch,
         task' \in {"sleep", "final", "finished", "closed"}, answer' = "none",
         stopFlag' \in BOOLEAN
  PROVE  IInv'
<1>. USE DEF IInv
<1>1. InBatch' = {} /\ InQueue' = InQueue /\ Len(batch') = 0 /\ batch' \in Seq(Records)
  BY DEF InBatch, InQueue, Range
<1>2. TypeOK'
  BY <1>1, RangeElements DEF TypeOK, InBatch
<1>3. OnceOK' /\ OrderOK'
  BY <1>1 DEF OnceOK, OrderOK, AcceptedBefore, Range
<1>4. PlaceOK'
  BY <1>1, Waiting DEF PlaceOK, Range
<1>. QED BY <1>2, <1>3, <1>4

LEMMA TakeBatchStep ==
  ASSUME IInv, TakeBatch
  PROVE  IInv' /\ InQueue' \cup InBatch' = InQueue
<1>. USE DEF IInv
<1>. DEFINE n == IF Len(queue) < BatchSize THEN Len(queue) ELSE BatchSize
<1>0. n \in 0..Len(queue) /\ Len(queue) \in Nat /\ MaxQueue \in Nat
  BY ProxyAssumption DEF TypeOK
<1>1. batch' = SubSeq(queue, 1, n) /\ queue' = SubSeq(queue, n + 1, Len(queue))
  BY DEF TakeBatch
<1>. HIDE DEF n
<1>2. /\ batch' \in Seq(Records) /\ Len(batch') = n
      /\ \A i \in 1..n : batch'[i] = queue[i]
      /\ queue' \in Seq(Records) /\ Len(queue') = Len(queue) - n
      /\ \A i \in 1..(Len(queue) - n) : queue'[i] = queue[n + i]
      /\ InQueue' \cup InBatch' = InQueue
  BY <1>0, <1>1, CutSequence DEF TypeOK, InQueue, InBatch
<1>3. /\ task' \in {"sending", "final_sending"} /\ answer' = "none"
      /\ UNCHANGED <<fresh, stopFlag, sent, dropped, accepted>>
  BY DEF TakeBatch
<1>4. TypeOK'
  BY <1>2, <1>3 DEF TypeOK
<1>5. OnceOK'
  BY <1>3 DEF OnceOK, Range
<1>6. PlaceOK'
  BY <1>0, <1>2, <1>3 DEF PlaceOK, Sending, Range
<1>7. OrderOK'
  <2>1. \A x, y : AcceptedBefore(x, y)' <=> AcceptedBefore(x, y)
    BY <1>3 DEF AcceptedBefore
  <2>2. ASSUME NEW i \in 1..Len(queue'), NEW j \in 1..Len(queue'), i < j
        PROVE  AcceptedBefore(queue'[i], queue'[j])
    <3>1. n + i \in 1..Len(queue) /\ n + j \in 1..Len(queue) /\ n + i < n + j
      BY <1>0, <1>2, <2>2
    <3>. QED BY <1>2, <3>1 DEF OrderOK
  <2>3. ASSUME NEW i \in 1..Len(batch'), NEW j \in 1..Len(batch'), i < j
        PROVE  AcceptedBefore(batch'[i], batch'[j])
    <3>1. i \in 1..Len(queue) /\ j \in 1..Len(queue)
      BY <1>0, <1>2
    <3>. QED BY <1>2, <2>3, <3>1 DEF OrderOK
  <2>4. ASSUME NEW i \in 1..Len(batch'), NEW j \in 1..Len(queue')
        PROVE  AcceptedBefore(batch'[i], queue'[j])
    <3>1. i \in 1..Len(queue) /\ n + j \in 1..Len(queue) /\ i < n + j
      BY <1>0, <1>2
    <3>. QED BY <1>2, <3>1 DEF OrderOK
  <2>. QED BY <2>1, <2>2, <2>3, <2>4 DEF OrderOK
<1>. QED BY <1>2, <1>4, <1>5, <1>6, <1>7

(* A failed batch loses its head, if it does not fit, and goes in front.    *)
LEMMA FailureStep ==
  ASSUME IInv, ReceiveFailure
  PROVE  /\ IInv'
         /\ InBatch' = {} /\ InQueue \subseteq InQueue' /\ InQueue' \subseteq InQueue \cup InBatch
         /\ Len(batch) + Len(queue) <= MaxQueue => InQueue' = InQueue \cup InBatch
<1>. USE DEF IInv
<1>. DEFINE d == IF Len(batch) > MaxQueue - Len(queue)
                 THEN Len(batch) - (MaxQueue - Len(queue)) ELSE 0
            kept == SubSeq(batch, d + 1, Len(batch))
            n == Len(batch) - d
<1>0. Len(queue) \in Nat /\ Len(batch) \in Nat /\ MaxQueue \in Nat /\ Len(queue) <= MaxQueue
  BY ProxyAssumption DEF TypeOK, PlaceOK
<1>1. /\ d \in 0..Len(batch) /\ n \in 0..Len(batch) /\ n + Len(queue) <= MaxQueue
      /\ Len(batch) + Len(queue) <= MaxQueue => d = 0
  BY <1>0
<1>2. queue' = kept \o queue
  <2>1. (IF Len(batch) > MaxQueue - Len(queue)
         THEN Len(batch) - (MaxQueue - Len(queue)) + 1 ELSE 1) = d + 1
    BY <1>0
  <2>. QED BY <2>1 DEF ReceiveFailure, Requeued
<1>3. /\ batch' = <<>> /\ answer' = "none" /\ task' \in {"sleep", "finished", "closed"}
      /\ UNCHANGED <<fresh, stopFlag, sent, dropped, accepted>>
  BY DEF ReceiveFailure, Returned
<1>. HIDE DEF d
<1>4. /\ kept \in Seq(Records) /\ Len(kept) = n
      /\ \A i \in 1..n : kept[i] = batch[d + i]
      /\ Range(kept) \subseteq InBatch
  <2>1. batch \in Seq(Records) /\ d \in 0..Len(batch)
    BY <1>1 DEF TypeOK
  <2>2. /\ kept \in Seq(Records) /\ Len(kept) = Len(batch) - d
        /\ \A i \in 1..(Len(batch) - d) : kept[i] = batch[d + i]
        /\ Range(SubSeq(batch, 1, d)) \cup Range(kept) = Range(batch)
    BY <2>1, CutSequence
  <2>. QED BY <2>2 DEF InBatch
<1>. HIDE DEF kept
<1>5. d = 0 => Range(kept) = InBatch
  <2>1. Range(kept) = {kept[i] : i \in 1..n}
    BY <1>4, RangeElements
  <2>2. ASSUME d = 0, NEW i \in 1..Len(batch) PROVE batch[i] \in Range(kept)
    <3>1. n = Len(batch) /\ d + i = i
      BY <1>0, <2>2
    <3>. QED BY <1>4, <2>1, <3>1
  <2>3. InBatch = {batch[i] : i \in 1..Len(batch)}
    BY Waiting
  <2>. QED BY <1>4, <2>2, <2>3
<1>6. /\ queue' \in Seq(Records) /\ Len(queue') = n + Len(queue)
      /\ \A i \in 1..n : queue'[i] = batch[d + i]
      /\ \A i \in 1..Len(queue) : queue'[n + i] = queue[i]
      /\ InQueue' = Range(kept) \cup InQueue
  <2>1. queue \in Seq(Records) /\ kept \in Seq(Records) /\ Len(kept) = n
    BY <1>4 DEF TypeOK
  <2>2. /\ kept \o queue \in Seq(Records)
        /\ Len(kept \o queue) = Len(kept) + Len(queue)
        /\ \A i \in 1..Len(kept) : (kept \o queue)[i] = kept[i]
        /\ \A i \in 1..Len(queue) : (kept \o queue)[Len(kept) + i] = queue[i]
    BY <2>1
  <2>3. Range(kept \o queue) = Range(kept) \cup Range(queue)
    BY <2>1, Concatenation
  <2>4. \A i \in 1..n : queue'[i] = batch[d + i]
    BY <1>2, <1>4, <2>2
  <2>. QED BY <1>2, <2>1, <2>2, <2>3, <2>4 DEF InQueue
<1>7. InBatch' = {} /\ Len(batch') = 0 /\ batch' \in Seq(Records)
  BY <1>3 DEF InBatch, Range
<1>8. TypeOK'
  BY <1>3, <1>6, <1>7 DEF TypeOK
<1>9. OnceOK'
  BY <1>3 DEF OnceOK, Range
<1>10. PlaceOK'
  <2>1. Range(accepted)' = Range(accepted)
    BY <1>3 DEF Range
  <2>. QED BY <1>1, <1>3, <1>4, <1>6, <1>7, <2>1 DEF PlaceOK
<1>11. OrderOK'
  <2>1. \A x, y : AcceptedBefore(x, y)' <=> AcceptedBefore(x, y)
    BY <1>3 DEF AcceptedBefore
  <2>2. ASSUME NEW i \in 1..Len(queue'), NEW j \in 1..Len(queue'), i < j
        PROVE  AcceptedBefore(queue'[i], queue'[j])
    <3>1. CASE j <= n
      <4>1. /\ d + i \in 1..Len(batch) /\ d + j \in 1..Len(batch) /\ d + i < d + j
            /\ queue'[i] = batch[d + i] /\ queue'[j] = batch[d + j]
        BY <1>0, <1>1, <1>6, <2>2, <3>1
      <4>. QED BY <4>1 DEF OrderOK
    <3>2. CASE i <= n /\ j > n
      <4>1. d + i \in 1..Len(batch) /\ queue'[i] = batch[d + i]
        BY <1>0, <1>1, <1>6, <3>2
      <4>2. j - n \in 1..Len(queue) /\ queue'[j] = queue[j - n]
        <5>1. j - n \in 1..Len(queue) /\ n + (j - n) = j
          BY <1>0, <1>1, <1>6, <3>2
        <5>. QED BY <1>6, <5>1
      <4>. QED BY <4>1, <4>2 DEF OrderOK
    <3>3. CASE i > n
      <4>1. /\ i - n \in 1..Len(queue) /\ n + (i - n) = i
            /\ j - n \in 1..Len(queue) /\ n + (j - n) = j /\ i - n < j - n
        BY <1>0, <1>1, <1>6, <2>2, <3>3
      <4>2. queue'[i] = queue[i - n] /\ queue'[j] = queue[j - n]
        BY <1>6, <4>1
      <4>. QED BY <4>1, <4>2 DEF OrderOK
    <3>. QED BY <1>0, <1>1, <1>6, <3>1, <3>2, <3>3
  <2>. QED BY <1>7, <2>1, <2>2 DEF OrderOK
<1>. QED BY <1>1, <1>4, <1>5, <1>6, <1>7, <1>8, <1>9, <1>10, <1>11

LEMMA InitInv == Init => IInv
<1>. SUFFICES ASSUME Init PROVE IInv
  OBVIOUS
<1>1. Range(<<>>) = {} /\ Len(<<>>) = 0
  BY DEF Range
<1>2. TypeOK
  <2>1. <<>> \in Seq(Records)
    OBVIOUS
  <2>. QED BY <2>1, Zenon DEF Init, TypeOK
<1>3. OnceOK /\ OrderOK
  BY <1>1 DEF Init, OnceOK, OrderOK
<1>4. PlaceOK
  BY <1>1, ProxyAssumption DEF Init, PlaceOK, InQueue, InBatch
<1>. QED BY <1>2, <1>3, <1>4 DEF IInv

LEMMA NextInv == IInv /\ [Next]_vars => IInv'
<1>. SUFFICES ASSUME IInv, [Next]_vars PROVE IInv'
  OBVIOUS
<1>0. answer \in {"none", "ok", "failed"} /\ stopFlag \in BOOLEAN
  BY DEF IInv, TypeOK
<1>1. CASE UNCHANGED vars
  BY <1>0, <1>1, WaitingUntouched DEF vars
<1>2. CASE CoreReceives \/ ConnectionFails
  <2>1. answer' \in {"none", "ok", "failed"}
    BY <1>2 DEF CoreReceives, ConnectionFails, Core!Answer
  <2>. QED BY <1>0, <1>2, <2>1, WaitingUntouched DEF CoreReceives, ConnectionFails
<1>3. CASE ReceiveOk
  <2>1. task' \in {"sleep", "final", "finished", "closed"}
    BY <1>3 DEF ReceiveOk, Returned
  <2>. QED BY <1>0, <1>3, <2>1, BatchGone DEF ReceiveOk
<1>4. CASE BeginStop
  BY <1>4, BatchGone DEF BeginStop
<1>5. CASE FinalFlushIdle
  <2>1. batch' = <<>>
    BY <1>5 DEF FinalFlushIdle, IInv, PlaceOK, Sending
  <2>2. TypeOK' /\ OnceOK' /\ PlaceOK' /\ OrderOK'
    BY <1>5, <2>1 DEF FinalFlushIdle, IInv, TypeOK, OnceOK, PlaceOK, OrderOK, AcceptedBefore,
       InQueue, InBatch, Range
  <2>. QED BY <2>2 DEF IInv
<1>. QED BY <1>1, <1>2, <1>3, <1>4, <1>5, ReportStep, TakeBatchStep, FailureStep DEF Next

LEMMA AnswerKept == AnswerOK /\ [Next]_vars => AnswerOK'
<1>. SUFFICES ASSUME AnswerOK, [Next]_vars
              PROVE  AnswerOK'
  OBVIOUS
<1>1. ASSUME answer' # "ok" PROVE AnswerOK'
  BY <1>1 DEF AnswerOK
<1>2. CASE UNCHANGED vars \/ \E r \in Records : Report(r)
  BY <1>2 DEF vars, Report, AnswerOK, Sending, InBatch, Range
<1>3. CASE CoreReceives
  <2>1. /\ Sending' /\ InBatch' = InBatch
        /\ stored' = stored \cup Core!Inserted(InBatch) /\ answer' = Core!Answer(InBatch)
    BY <1>3 DEF CoreReceives, Sending, InBatch
  <2>2. answer' = "ok" => Core!Inserted(InBatch) = InBatch \ Unstorable
    BY <2>1 DEF Core!Answer, Core!Inserted
  <2>. QED BY <2>1, <2>2 DEF AnswerOK
<1>4. CASE TakeBatch \/ ConnectionFails \/ ReceiveOk \/ ReceiveFailure \/ BeginStop
  BY <1>1, <1>4 DEF TakeBatch, ConnectionFails, ReceiveOk, ReceiveFailure, BeginStop
<1>5. CASE FinalFlushIdle
  BY <1>1, <1>5 DEF FinalFlushIdle, AnswerOK, Sending
<1>. QED BY <1>2, <1>3, <1>4, <1>5 DEF Next

LEMMA ReporterInvariant == Spec => [](IInv /\ AnswerOK)
<1>1. Init => AnswerOK
  BY DEF Init, AnswerOK
<1>. QED BY <1>1, InitInv, NextInv, AnswerKept, PTL DEF Spec

(* reporter.py of the Proxy puts a failed batch back in front of what the    *)
(* handlers reported meanwhile: records leave in the order they were queued, *)
(* and the queue keeps within max_queue_size.                                *)
THEOREM ProxyKeepsOrder == Spec => []QueueKeepsOrder
<1>1. IInv => QueueKeepsOrder
  <2>. SUFFICES ASSUME IInv PROVE QueueKeepsOrder
    OBVIOUS
  <2>. DEFINE w == batch \o queue
  <2>1. /\ Len(w) = Len(batch) + Len(queue) /\ DOMAIN w = 1..Len(w)
        /\ \A i \in 1..Len(batch) : w[i] = batch[i]
        /\ \A i \in 1..Len(queue) : w[Len(batch) + i] = queue[i]
        /\ Len(batch) \in Nat /\ Len(queue) \in Nat
    BY Concatenation DEF IInv, TypeOK
  <2>. HIDE DEF w
  <2>2. ASSUME NEW i \in 1..Len(w), NEW j \in 1..Len(w), i < j
        PROVE  AcceptedBefore(w[i], w[j])
    <3>1. CASE j <= Len(batch)
      BY <2>1, <2>2, <3>1 DEF IInv, OrderOK
    <3>2. CASE i <= Len(batch) /\ j > Len(batch)
      <4>1. /\ j - Len(batch) \in 1..Len(queue) /\ Len(batch) + (j - Len(batch)) = j
            /\ i \in 1..Len(batch)
        BY <2>1, <3>2
      <4>2. w[i] = batch[i] /\ w[j] = queue[j - Len(batch)]
        BY <2>1, <4>1
      <4>. QED BY <4>1, <4>2 DEF IInv, OrderOK
    <3>3. CASE i > Len(batch)
      <4>1. /\ i - Len(batch) \in 1..Len(queue) /\ Len(batch) + (i - Len(batch)) = i
            /\ j - Len(batch) \in 1..Len(queue) /\ Len(batch) + (j - Len(batch)) = j
            /\ i - Len(batch) < j - Len(batch)
        BY <2>1, <2>2, <3>3
      <4>2. w[i] = queue[i - Len(batch)] /\ w[j] = queue[j - Len(batch)]
        BY <2>1, <4>1
      <4>. QED BY <4>1, <4>2 DEF IInv, OrderOK
    <3>. QED BY <2>1, <3>1, <3>2, <3>3
  <2>. QED BY <2>1, <2>2 DEF QueueKeepsOrder, w, IInv, PlaceOK
<1>. QED BY <1>1, ReporterInvariant, PTL

-----------------------------------------------------------------------------
(* The refinement of Delivery                                               *)

Held == InQueue \cup InBatch
Lost == Range(accepted) \ (InQueue \cup InBatch \cup sent)

LEMMA PromiseCardinality == ASSUME NEW S PROVE Promise!Cardinality(S) = Cardinality(S)
BY Zenon DEF Promise!Cardinality, Cardinality

(* Every record that waits counts, since it waits once.                     *)
LEMMA HeldCount ==
  ASSUME IInv
  PROVE  /\ IsFiniteSet(Held) /\ Cardinality(Held) = Len(batch) + Len(queue)
         /\ Cardinality(Held) >= Len(queue)
<1>. USE DEF IInv
<1>0. batch \in Seq(Records) /\ queue \in Seq(Records) /\ Len(batch) \in Nat /\ Len(queue) \in Nat
  BY DEF TypeOK
<1>1. \A i, j \in 1..Len(queue) : queue[i] = queue[j] => i = j
  <2>. SUFFICES ASSUME NEW i \in 1..Len(queue), NEW j \in 1..Len(queue), i < j
                PROVE  queue[i] # queue[j]
    OBVIOUS
  <2>. QED BY BeforeIsStrict DEF OrderOK
<1>2. \A i, j \in 1..Len(batch) : batch[i] = batch[j] => i = j
  <2>. SUFFICES ASSUME NEW i \in 1..Len(batch), NEW j \in 1..Len(batch), i < j
                PROVE  batch[i] # batch[j]
    OBVIOUS
  <2>. QED BY BeforeIsStrict DEF OrderOK
<1>3. IsFiniteSet(InQueue) /\ Cardinality(InQueue) = Len(queue)
  BY <1>0, <1>1, CountDistinct DEF InQueue
<1>4. IsFiniteSet(InBatch) /\ Cardinality(InBatch) = Len(batch)
  BY <1>0, <1>2, CountDistinct DEF InBatch
<1>5. IsFiniteSet(InQueue \cup InBatch)
  BY <1>3, <1>4, FS_Union
<1>6. Cardinality(InQueue \cup InBatch) = Len(queue) + Len(batch)
  <2>1. Cardinality(InQueue \cap InBatch) = 0
    BY Waiting, FS_EmptySet
  <2>2. Cardinality(InQueue \cup InBatch)
          = Cardinality(InQueue) + Cardinality(InBatch) - Cardinality(InQueue \cap InBatch)
    BY <1>3, <1>4, FS_Union
  <2>. QED BY <1>0, <1>3, <1>4, <2>1, <2>2
<1>. QED BY <1>0, <1>5, <1>6 DEF Held

LEMMA ReportDelivers ==
  ASSUME IInv, NEW r \in Records, Report(r)
  PROVE  Promise!Next \/ UNCHANGED <<Held, sent, dropped, Lost, stored, stopFlag>>
<1>. USE DEF IInv
<1>0. /\ Len(queue) \in Nat /\ MaxQueue \in Nat
      /\ r \in fresh /\ r \notin Range(accepted) \cup dropped
      /\ UNCHANGED <<batch, stopFlag, sent, stored>>
  BY ProxyAssumption DEF Report, TypeOK, OnceOK
<1>1. CASE stopFlag
  BY <1>0, <1>1 DEF Report, Enqueue, Held, Lost, InQueue, InBatch, Range
<1>2. CASE ~stopFlag /\ Len(queue) >= MaxQueue
  <2>1. dropped' = dropped \cup {r} /\ UNCHANGED <<queue, accepted>>
    BY <1>0, <1>2 DEF Report, Enqueue
  <2>2. Held' = Held /\ Lost' = Lost
    BY <1>0, <2>1 DEF Held, Lost, InQueue, InBatch, Range
  <2>3. Cardinality(InQueue \cup InBatch) >= MaxQueue
    <3>1. Cardinality(Held) \in Nat /\ Cardinality(Held) >= Len(queue)
      BY HeldCount, FS_CardinalityType
    <3>. QED BY <1>0, <1>2, <3>1 DEF Held
  <2>4. r \notin Held \cup sent \cup dropped \cup Lost
    BY <1>0 DEF PlaceOK, Held, Lost
  <2>5. Promise!Refuse(r)
    BY <1>0, <2>1, <2>2, <2>3, <2>4, PromiseCardinality DEF Promise!Refuse, Promise!Known, Held, Lost
  <2>. QED BY <2>5 DEF Promise!Next
<1>3. CASE ~stopFlag /\ Len(queue) < MaxQueue
  <2>1. queue' = Append(queue, r) /\ accepted' = Append(accepted, r) /\ dropped' = dropped
    BY <1>0, <1>3 DEF Report, Enqueue
  <2>2. InQueue' = InQueue \cup {r} /\ Range(accepted)' = Range(accepted) \cup {r}
    BY <2>1, AppendedElement DEF TypeOK, InQueue
  <2>3. InBatch' = InBatch
    BY <1>0 DEF InBatch, Range
  <2>4. Held' = Held \cup {r} /\ Lost' = Lost
    BY <1>0, <2>2, <2>3 DEF Held, Lost, PlaceOK
  <2>5. r \notin Held \cup sent \cup dropped \cup Lost
    BY <1>0 DEF PlaceOK, Held, Lost
  <2>6. Promise!Accept(r)
    BY <1>0, <2>1, <2>4, <2>5 DEF Promise!Accept, Promise!Known, Held, Lost
  <2>. QED BY <2>6 DEF Promise!Next
<1>. QED BY <1>0, <1>1, <1>2, <1>3

(* A POST that is answered, fails or is forgotten settles its batch.        *)
LEMMA BatchDelivers ==
  ASSUME IInv, AnswerOK, ReceiveOk \/ ReceiveFailure \/ BeginStop
  PROVE  Promise!Next \/ UNCHANGED <<Held, sent, dropped, Lost, stored, stopFlag>>
<1>. USE DEF IInv
<1>0. InQueue \cap InBatch = {} /\ Held \cap sent = {} /\ Held \subseteq Range(accepted)
  BY Waiting DEF PlaceOK, Held
<1>1. CASE ReceiveOk
  <2>1. /\ sent' = sent \cup InBatch /\ InBatch' = {} /\ InQueue' = InQueue
        /\ Range(accepted)' = Range(accepted) /\ UNCHANGED <<dropped, stored, stopFlag>>
    BY <1>1 DEF ReceiveOk, InBatch, InQueue, Range
  <2>2. Held' = Held \ InBatch /\ Lost' = Lost
    BY <1>0, <2>1 DEF Held, Lost
  <2>0. InBatch \ Unstorable \subseteq stored
    BY <1>1 DEF ReceiveOk, AnswerOK
  <2>3. Promise!Send(InBatch)
    BY <2>0, <2>1, <2>2 DEF Promise!Send, Held, Lost
  <2>4. InBatch \in SUBSET Held
    BY DEF Held
  <2>. QED BY <2>3, <2>4 DEF Promise!Next, Held
<1>2. CASE ReceiveFailure
  <2>1. /\ InBatch' = {} /\ InQueue \subseteq InQueue' /\ InQueue' \subseteq InQueue \cup InBatch
        /\ Len(batch) + Len(queue) <= MaxQueue => InQueue' = InQueue \cup InBatch
        /\ Range(accepted)' = Range(accepted) /\ UNCHANGED <<sent, dropped, stored, stopFlag>>
    BY <1>2, FailureStep DEF ReceiveFailure, Range
  <2>. DEFINE S == Held \ InQueue'
  <2>2. Held' = Held \ S /\ Lost' = Lost \cup S
    BY <1>0, <2>1 DEF Held, Lost
  <2>3. CASE Len(batch) + Len(queue) <= MaxQueue
    <3>1. S = {}
      BY <2>1, <2>3 DEF Held
    <3>. QED BY <2>1, <2>2, <3>1
  <2>4. CASE ~(Len(batch) + Len(queue) <= MaxQueue)
    <3>1. Cardinality(InQueue \cup InBatch) > MaxQueue
      BY <2>4, HeldCount, ProxyAssumption DEF TypeOK, Held
    <3>2. Promise!Lose(S)
      BY <2>1, <2>2, <3>1, PromiseCardinality DEF Promise!Lose, Held, Lost
    <3>3. S \in SUBSET Held
      OBVIOUS
    <3>. QED BY <3>2, <3>3 DEF Promise!Next, Held
  <2>. QED BY <2>3, <2>4
<1>3. CASE BeginStop
  <2>1. /\ stopFlag' = TRUE /\ InBatch' = {} /\ InQueue' = InQueue
        /\ Range(accepted)' = Range(accepted) /\ UNCHANGED <<sent, dropped, stored>>
    BY <1>3 DEF BeginStop, InBatch, InQueue, Range
  <2>2. Held' = Held \ InBatch /\ Lost' = Lost \cup InBatch
    BY <1>0, <2>1 DEF Held, Lost
  <2>3. Promise!Stop(InBatch)
    BY <2>1, <2>2 DEF Promise!Stop, Held, Lost
  <2>4. InBatch \in SUBSET Held
    BY DEF Held
  <2>. QED BY <2>3, <2>4 DEF Promise!Next, Held
<1>. QED BY <1>1, <1>2, <1>3

LEMMA StepDelivers ==
  IInv /\ AnswerOK /\ [Next]_vars => [Promise!Next]_(Promise!vars)
<1>. SUFFICES ASSUME IInv, AnswerOK, [Next]_vars
              PROVE  Promise!Next \/ UNCHANGED <<Held, sent, dropped, Lost, stored, stopFlag>>
  BY DEF Promise!vars, Held, Lost
<1>1. CASE UNCHANGED vars \/ ConnectionFails \/ FinalFlushIdle
  <2>1. UNCHANGED <<queue, batch, sent, dropped, accepted, stored, stopFlag>>
    BY <1>1 DEF vars, ConnectionFails, FinalFlushIdle
  <2>. QED BY <2>1 DEF Held, Lost, InQueue, InBatch, Range
<1>2. CASE TakeBatch
  <2>1. Held' = Held
    <3>1. InBatch = {}
      BY <1>2 DEF TakeBatch, IInv, PlaceOK, Sending, InBatch, Range
    <3>. QED BY <1>2, <3>1, TakeBatchStep DEF Held
  <2>2. UNCHANGED <<sent, dropped, stored, stopFlag>> /\ Range(accepted)' = Range(accepted)
    BY <1>2 DEF TakeBatch, Range
  <2>3. Lost' = Lost
    BY <2>1, <2>2 DEF Held, Lost
  <2>. QED BY <2>1, <2>2, <2>3
<1>3. CASE CoreReceives
  <2>1. /\ UNCHANGED <<queue, batch, sent, dropped, accepted, stopFlag>>
        /\ stored' = stored \cup Core!Inserted(InBatch)
    BY <1>3 DEF CoreReceives
  <2>2. Core!Inserted(InBatch) \subseteq Held
    BY DEF Core!Inserted, Held
  <2>3. Held' = Held /\ Lost' = Lost
    BY <2>1 DEF Held, Lost, InQueue, InBatch, Range
  <2>4. Promise!Store(Core!Inserted(InBatch))
    BY <2>1, <2>3 DEF Promise!Store, Held, Lost
  <2>. QED BY <2>2, <2>4 DEF Promise!Next, Held
<1>. QED BY <1>1, <1>2, <1>3, ReportDelivers, BatchDelivers DEF Next

(* The Proxy's reporter keeps the promise of a telemetry reporter: a record  *)
(* report() accepted stays until it is sent, that is stored by the Core, or  *)
(* in a partly answered batch one the Core cannot store; it is lost only     *)
(* when a failed batch meets a full queue, or at the shutdown.               *)
THEOREM ProxyDelivers == Spec => ImplementsDelivery
<1>1. Init => Promise!Init
  BY DEF Init, Promise!Init, InQueue, InBatch, Range
<1>. QED BY <1>1, ReporterInvariant, StepDelivers, PTL DEF Spec, ImplementsDelivery, Promise!Spec

-----------------------------------------------------------------------------
(* Handlers                                                                 *)

Awaits == {"posting", "preparing", "streaming", "reading"}

(* The request that is followed is reported once, when its handler ends.   *)
ReportedLast ==
  /\ at \in {"new", "done"} \cup Awaits
  /\ at # "done" => Request \in fresh /\ record = NoRecord

-----------------------------------------------------------------------------
(* The handler as a user of the reporter                                    *)

LEMMA TelemetryStep ==
  ASSUME Request \in fresh, NEW isError, NEW response, NEW data, NEW interrupted,
         ReportTelemetry(isError, response, data, interrupted)
  PROVE  Report(Request) \/ UNCHANGED vars
BY DEF ReportTelemetry, Report, reporter, vars

LEMMA HandlerStep ==
  ASSUME ReportedLast, [HandlerNext]_allVars
  PROVE  /\ [Next]_vars
         /\ ReportedLast'
<1>. USE DEF ReportedLast, Awaits
<1>r. Request \in Records
  BY HandlerAssumption
<1>1. CASE UNCHANGED allVars
  BY <1>1 DEF allVars, handler, reporter, vars
<1>2. ASSUME NEW c \in Contexts, NEW streamed \in BOOLEAN, Receive(c, streamed)
      PROVE  UNCHANGED vars /\ ReportedLast'
  BY <1>2 DEF Receive, reporter, vars
<1>3. CASE UpstreamRefuses
  BY <1>3, <1>r, TelemetryStep DEF UpstreamRefuses, Next
<1>4. ASSUME NEW status \in {200, 204, 500}, UpstreamAnswers(status)
      PROVE  UNCHANGED vars /\ ReportedLast'
  BY <1>4 DEF UpstreamAnswers, reporter, vars
<1>5. CASE Prepared
  BY <1>5 DEF Prepared, reporter, vars
<1>6. ASSUME NEW chunk \in Contents, ForwardChunk(chunk)
      PROVE  UNCHANGED vars /\ ReportedLast'
  BY <1>6 DEF ForwardChunk, reporter, vars
<1>7. CASE StreamEnds
  BY <1>7, <1>r, TelemetryStep DEF StreamEnds, Ended, Next
<1>8. CASE StreamInterrupted
  BY <1>8, <1>r, TelemetryStep DEF StreamInterrupted, Ended, Next
<1>9. ASSUME NEW body \in Contents, BodyRead(body)
      PROVE  [Next]_vars /\ ReportedLast'
  <2>1. /\ at = "reading" /\ at' = "done"
        /\ ReportTelemetry(httpStatus >= 400, IF sampling THEN FormOf ELSE "none", body, FALSE)
    BY <1>9 DEF BodyRead
  <2>2. Report(Request) \/ UNCHANGED vars
    BY <2>1, TelemetryStep, ZenonT(30)
  <2>. QED BY <1>r, <2>1, <2>2 DEF Next
<1>10. CASE Fails
  BY <1>10 DEF Fails, Ended, reporter, vars
<1>11. CASE ReporterStep
  <2>1. Next /\ UNCHANGED <<at, record>>
    BY <1>11 DEF ReporterStep, Next, handler
  <2>2. Request \in fresh => Request \in fresh'
    BY <1>11 DEF ReporterStep, Report, TakeBatch, CoreReceives, ConnectionFails, ReceiveOk,
       ReceiveFailure, BeginStop, FinalFlushIdle
  <2>. QED BY <2>1, <2>2
<1>. QED
  BY <1>1, <1>2, <1>3, <1>4, <1>5, <1>6, <1>7, <1>8, <1>9, <1>10, <1>11 DEF HandlerNext

LEMMA HandlerInitReported == HandlerInit => Init /\ ReportedLast
BY HandlerAssumption DEF HandlerInit, Init, ReportedLast

(* handler.py calls nothing of the reporter but report(), and for a request  *)
(* at most once: the Proxy drives the reporter as ProxyReporter says.        *)
THEOREM HandlerUsesReporter == HandlerSpec => Spec
<1>1. ReportedLast /\ [HandlerNext]_allVars => [Next]_vars /\ ReportedLast'
  BY HandlerStep
<1>. QED BY <1>1, HandlerInitReported, PTL DEF HandlerSpec, Spec

(* So the promise of the reporter is kept, and its order, in the whole Proxy, *)
(* with requests that break off and the shutdown of main.py.                 *)
THEOREM ProxyKeepsPromise == HandlerSpec => ImplementsDelivery /\ []QueueKeepsOrder
BY HandlerUsesReporter, ProxyDelivers, ProxyKeepsOrder, PTL

-----------------------------------------------------------------------------
(* What a record may say                                                    *)

HandlerTypeOK ==
  /\ strategy \in Strategies
  /\ zeroRate \in BOOLEAN
  /\ ctx \in Contexts
  /\ sampling \in BOOLEAN
  /\ httpStatus \in {0, 200, 204, 500}
  /\ acc \in [chunks : Nat, content : BOOLEAN, usage : BOOLEAN]

(* Before the upstream answers nothing is known of the answer; what is      *)
(* accumulated later of the content is what may be captured.                *)
AccumulatedOK ==
  /\ at \in {"new", "posting"} => httpStatus = 0
  /\ at = "new" => ~acc.content
  /\ at # "done" /\ acc.content => Capturing

RecordInv == SamplingDecides /\ RecordCarriesWhatItMay

HandlerInv == HandlerTypeOK /\ ReportedLast /\ AccumulatedOK /\ RecordInv

LEMMA ContextType ==
  ASSUME NEW c \in Contexts
  PROVE  c.inherited \in BOOLEAN /\ c.sampled \in BOOLEAN
<1>1. CASE c = Root
  BY <1>1 DEF Root
<1>2. CASE c \in [inherited : {TRUE}, sampled : BOOLEAN]
  BY <1>2
<1>. QED BY <1>1, <1>2 DEF Contexts

LEMMA DrawsType ==
  ASSUME NEW c \in Contexts, NEW isError
  PROVE  Draws(c, isError) \subseteq BOOLEAN
<1>1. CASE c.inherited
  <2>1. Draws(c, isError) = {c.sampled}
    BY <1>1 DEF Draws
  <2>. QED BY <2>1, ContextType
<1>2. CASE ~c.inherited
  BY <1>2 DEF Draws
<1>. QED BY <1>1, <1>2

(* A report is let through by the decision of the trace.                    *)
LEMMA DrawnDecision ==
  ASSUME HandlerTypeOK, NEW isError \in BOOLEAN, TRUE \in Draws(ctx, isError)
  PROVE  IF ctx.inherited THEN ctx.sampled ELSE zeroRate => isError
<1>1. ctx.inherited \in BOOLEAN /\ ctx.sampled \in BOOLEAN /\ zeroRate \in BOOLEAN
  BY ContextType DEF HandlerTypeOK
<1>2. CASE ctx.inherited
  <2>1. Draws(ctx, isError) = {ctx.sampled}
    BY <1>2 DEF Draws
  <2>2. ctx.sampled = TRUE
    BY <2>1
  <2>. QED BY <1>2, <2>2
<1>3. CASE ~ctx.inherited /\ isError
  BY <1>3
<1>4. CASE ~ctx.inherited /\ ~isError
  BY <1>4 DEF Draws
<1>. QED BY <1>1, <1>2, <1>3, <1>4

LEMMA FormIsStrategy ==
  ASSUME HandlerTypeOK
  PROVE  /\ FormOf = "none" <=> strategy = "off"
         /\ FormOf \in {"masked", "full"} => strategy \in {"masked", "full"}
BY DEF FormOf, HandlerTypeOK, Strategies

(* The body of an answer, or what a stream accumulated                      *)
Answers == Contents \cup [chunks : Nat, content : BOOLEAN, usage : BOOLEAN]

(* A report, made or withheld, that ends the request.                       *)
LEMMA ReportKeepsRecord ==
  ASSUME HandlerInv, at # "done",
         NEW isError \in BOOLEAN, NEW response,
         NEW data \in Answers, NEW interrupted \in BOOLEAN,
         ReportTelemetry(isError, response, data, interrupted),
         UNCHANGED <<ctx, sampling, httpStatus, config>>,
         acc'.usage = data.usage \/ interrupted \/ httpStatus = 0,
         data.content /\ response \in {"masked", "full"}
           => sampling /\ strategy \in {"masked", "full"},
         interrupted \/ httpStatus = 0 \/ response = IF sampling THEN FormOf ELSE "none"
  PROVE  RecordInv'
<1>. USE DEF HandlerInv
<1>1. PICK shouldReport \in Draws(ctx, isError) :
        IF ~shouldReport
        THEN record' = record
        ELSE /\ record'.status = IF isError THEN "ERROR" ELSE "OK"
             /\ record'.content = (data.content /\ response \in {"masked", "full"})
             /\ record'.usage = (data.usage /\ response # "none")
             /\ record'.interrupted = interrupted
  BY DEF ReportTelemetry, Carried
<1>2. record = NoRecord
  BY DEF ReportedLast
<1>3. strategy' = strategy /\ zeroRate' = zeroRate
  BY DEF config
<1>4. CASE ~shouldReport
  BY <1>1, <1>2, <1>4 DEF RecordInv, SamplingDecides, RecordCarriesWhatItMay, Reported, NoRecord
<1>5. CASE shouldReport
  <2>1. TRUE \in Draws(ctx, isError)
    BY <1>5, DrawsType DEF HandlerTypeOK
  <2>2. SamplingDecides'
    BY <1>1, <1>3, <1>5, <2>1, DrawnDecision DEF SamplingDecides
  <2>3. record'.content => sampling /\ strategy \in {"masked", "full"}
    BY <1>1, <1>5
  <2>4. ~record'.interrupted /\ httpStatus # 0
          => (record'.usage <=> acc'.usage /\ sampling /\ strategy # "off")
    BY <1>1, <1>5, FormIsStrategy
  <2>5. RecordCarriesWhatItMay'
    BY <1>3, <2>3, <2>4 DEF RecordCarriesWhatItMay
  <2>. QED BY <2>2, <2>5 DEF RecordInv
<1>. QED BY <1>4, <1>5

(* No step but those that end the request touches what a record speaks of.  *)
LEMMA RecordUntouched ==
  ASSUME RecordInv, UNCHANGED <<record, config>>,
         record = NoRecord \/ UNCHANGED <<at, ctx, sampling, httpStatus, acc>>
  PROVE  RecordInv'
BY DEF RecordInv, SamplingDecides, RecordCarriesWhatItMay, Reported, config

LEMMA HandlerInvKept ==
  HandlerInv /\ [HandlerNext]_allVars => HandlerInv'
<1>. SUFFICES ASSUME HandlerInv, [HandlerNext]_allVars
              PROVE  HandlerTypeOK' /\ AccumulatedOK' /\ RecordInv'
  BY HandlerStep DEF HandlerInv
<1>. USE DEF HandlerInv
<1>1. CASE UNCHANGED allVars \/ ReporterStep
  <2>1. UNCHANGED <<at, ctx, sampling, httpStatus, acc, record, strategy, zeroRate>>
    BY <1>1 DEF allVars, handler, config, ReporterStep
  <2>2. HandlerTypeOK' /\ AccumulatedOK'
    BY <2>1 DEF HandlerTypeOK, AccumulatedOK, Capturing
  <2>. QED BY <2>1, <2>2, RecordUntouched DEF config
<1>2. ASSUME NEW c \in Contexts, NEW streamed \in BOOLEAN, Receive(c, streamed)
      PROVE  HandlerTypeOK' /\ AccumulatedOK' /\ RecordInv'
  <2>1. /\ at = "new" /\ at' = "posting" /\ ctx' = c /\ sampling' \in Draws(c, FALSE)
        /\ UNCHANGED <<httpStatus, acc, record, strategy, zeroRate>>
    BY <1>2 DEF Receive, config
  <2>2. Draws(c, FALSE) \subseteq BOOLEAN
    BY DrawsType
  <2>. HIDE DEF HandlerInv
  <2>3. HandlerTypeOK /\ AccumulatedOK /\ sampling' \in BOOLEAN
    BY <2>1, <2>2 DEF HandlerInv
  <2>4. HandlerTypeOK'
    BY <2>1, <2>3 DEF HandlerTypeOK
  <2>5. AccumulatedOK'
    BY <2>1, <2>3 DEF AccumulatedOK
  <2>6. RecordInv /\ record = NoRecord
    BY <2>1 DEF ReportedLast, HandlerInv
  <2>. QED BY <2>1, <2>4, <2>5, <2>6, RecordUntouched DEF config
<1>3. CASE UpstreamRefuses
  <2>1. /\ at = "posting" /\ at' = "done" /\ httpStatus = 0
        /\ ReportTelemetry(TRUE, "none", Nothing, FALSE)
        /\ UNCHANGED <<ctx, sampling, httpStatus, acc, strategy, zeroRate>>
    BY <1>3 DEF UpstreamRefuses, AccumulatedOK, config
  <2>2. HandlerTypeOK' /\ AccumulatedOK'
    BY <2>1 DEF HandlerTypeOK, AccumulatedOK
  <2>3. Nothing \in Answers /\ ~Nothing.content
    BY DEF Nothing, Answers, Contents
  <2>. QED BY <2>1, <2>2, <2>3, ReportKeepsRecord DEF config
<1>4. ASSUME NEW status \in {200, 204, 500}, UpstreamAnswers(status)
      PROVE  HandlerTypeOK' /\ AccumulatedOK' /\ RecordInv'
  <2>1. /\ at = "posting" /\ at' \in {"preparing", "reading"} /\ httpStatus' = status
        /\ UNCHANGED <<ctx, sampling, acc, record, strategy, zeroRate>>
    BY <1>4 DEF UpstreamAnswers, config
  <2>2. HandlerTypeOK' /\ AccumulatedOK'
    BY <2>1 DEF HandlerTypeOK, AccumulatedOK, Capturing
  <2>3. record = NoRecord
    BY <2>1 DEF ReportedLast
  <2>. QED BY <2>1, <2>2, <2>3, RecordUntouched DEF config
<1>5. CASE Prepared
  <2>1. /\ at = "preparing" /\ at' = "streaming"
        /\ UNCHANGED <<ctx, sampling, httpStatus, acc, record, strategy, zeroRate>>
    BY <1>5 DEF Prepared, config
  <2>2. HandlerTypeOK' /\ AccumulatedOK'
    BY <2>1 DEF HandlerTypeOK, AccumulatedOK, Capturing
  <2>3. record = NoRecord
    BY <2>1 DEF ReportedLast
  <2>. QED BY <2>1, <2>2, <2>3, RecordUntouched DEF config
<1>6. ASSUME NEW chunk \in Contents, ForwardChunk(chunk)
      PROVE  HandlerTypeOK' /\ AccumulatedOK' /\ RecordInv'
  <2>1. /\ at = "streaming" /\ acc' = Fed(chunk)
        /\ UNCHANGED <<at, ctx, sampling, httpStatus, record, strategy, zeroRate>>
    BY <1>6 DEF ForwardChunk, config
  <2>2. /\ acc' \in [chunks : Nat, content : BOOLEAN, usage : BOOLEAN]
        /\ acc'.content => acc.content \/ Capturing
    BY <2>1 DEF Fed, HandlerTypeOK, Contents, Capturing
  <2>3. HandlerTypeOK' /\ AccumulatedOK'
    BY <2>1, <2>2 DEF HandlerTypeOK, AccumulatedOK, Capturing
  <2>4. record = NoRecord
    BY <2>1 DEF ReportedLast
  <2>. QED BY <2>1, <2>3, <2>4, RecordUntouched DEF config
<1>7. ASSUME Ended, at # "done"
      PROVE  /\ HandlerTypeOK' /\ AccumulatedOK'
             /\ acc'.usage = acc.usage /\ UNCHANGED <<ctx, sampling, httpStatus, config>>
  BY <1>7 DEF Ended, HandlerTypeOK, AccumulatedOK, config
<1>8. CASE StreamEnds \/ StreamInterrupted
  <2>1. at = "streaming" /\ at # "done" /\ Ended
    BY <1>8 DEF StreamEnds, StreamInterrupted
  <2>2. /\ HandlerTypeOK' /\ AccumulatedOK'
        /\ acc'.usage = acc.usage /\ UNCHANGED <<ctx, sampling, httpStatus, config>>
    BY <1>7, <2>1
  <2>3. acc.content => sampling /\ strategy \in {"masked", "full"}
    BY <2>1 DEF AccumulatedOK, Capturing
  <2>4. acc \in Answers
    BY DEF HandlerTypeOK, Answers
  <2>5. CASE StreamEnds
    <3>1. ReportTelemetry(FALSE, IF sampling THEN FormOf ELSE "none", acc, FALSE)
      BY <2>5 DEF StreamEnds
    <3>. QED BY <2>1, <2>2, <2>3, <2>4, <3>1, ReportKeepsRecord
  <2>6. CASE StreamInterrupted
    <3>1. ReportTelemetry(TRUE, IF sampling THEN "full" ELSE "none", acc, TRUE)
      BY <2>6 DEF StreamInterrupted
    <3>. QED BY <2>1, <2>2, <2>3, <2>4, <3>1, ReportKeepsRecord
  <2>. QED BY <1>8, <2>2, <2>5, <2>6
<1>9. ASSUME NEW body \in Contents, BodyRead(body)
      PROVE  HandlerTypeOK' /\ AccumulatedOK' /\ RecordInv'
  <2>1. /\ at = "reading" /\ at' = "done"
        /\ acc' = [chunks |-> 0, content |-> body.content, usage |-> body.usage]
        /\ ReportTelemetry(httpStatus >= 400, IF sampling THEN FormOf ELSE "none", body, FALSE)
        /\ UNCHANGED <<ctx, sampling, httpStatus, config>>
    BY <1>9 DEF BodyRead
  <2>2. HandlerTypeOK' /\ AccumulatedOK'
    BY <2>1 DEF HandlerTypeOK, AccumulatedOK, Contents, config
  <2>3. (IF sampling THEN FormOf ELSE "none") \in {"masked", "full"}
          => sampling /\ strategy \in {"masked", "full"}
    BY FormIsStrategy
  <2>4. (httpStatus >= 400) \in BOOLEAN
    BY DEF HandlerTypeOK
  <2>5. body \in Answers /\ acc'.usage = body.usage
    BY <2>1 DEF Answers
  <2>6. at # "done"
    BY <2>1
  <2>. QED BY <2>1, <2>2, <2>3, <2>4, <2>5, <2>6, ReportKeepsRecord, ZenonT(30)
<1>10. CASE Fails
  <2>1. Ended /\ at # "done" /\ record' = record
    BY <1>10 DEF Fails
  <2>2. record = NoRecord
    BY <2>1 DEF ReportedLast
  <2>. QED BY <1>7, <2>1, <2>2, RecordUntouched
<1>. QED
  BY <1>1, <1>2, <1>3, <1>4, <1>5, <1>6, <1>8, <1>9, <1>10 DEF HandlerNext

LEMMA HandlerInvariant == HandlerSpec => []HandlerInv
<1>1. HandlerInit => HandlerInv
  <2>. SUFFICES ASSUME HandlerInit PROVE HandlerInv
    OBVIOUS
  <2>1. HandlerTypeOK /\ AccumulatedOK
    BY DEF HandlerInit, HandlerTypeOK, AccumulatedOK, Contexts
  <2>2. RecordInv
    BY DEF HandlerInit, RecordInv, SamplingDecides, RecordCarriesWhatItMay, Reported
  <2>. QED BY <2>1, <2>2, HandlerInitReported DEF HandlerInv
<1>. QED BY <1>1, HandlerInvKept, PTL DEF HandlerSpec

(* handler.py reports a request under an inherited decision only if that is  *)
(* "sampled", and one of a root trace with sample_rate 0 only if it failed.  *)
THEOREM SamplingIsKept == HandlerSpec => []SamplingDecides
BY HandlerInvariant, PTL DEF HandlerInv, RecordInv

(* A record carries content only where the payload strategy admits it, also  *)
(* when the stream broke off, and the token counts of every answer that ended. *)
THEOREM RecordIsFaithful == HandlerSpec => []RecordCarriesWhatItMay
BY HandlerInvariant, PTL DEF HandlerInv, RecordInv
=============================================================================
