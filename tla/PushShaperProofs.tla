-------------------------- MODULE PushShaperProofs --------------------------
(***************************************************************************)
(* Proofs about the send queue, for any callers, queue and batch sizes.    *)
(* What is queued and what is in the batch are the end of the order of     *)
(* arrival, so that whatever Run has finished with lies before; from this  *)
(* follow the order and the uniqueness of what the relay stores.           *)
(***************************************************************************)
EXTENDS PushShaper, SequenceTheorems, TLAPS

\* The number of requests Run has finished with, or failed.
Done == Len(order) - Len(batch) - Len(queue)

\* Batch and queue are the end of the order of arrival.
Aligned ==
  /\ sent \in Seq(Callers) /\ order \in Seq(Callers) /\ Done >= 0
  /\ \A i \in 1..Len(batch) : batch[i] = order[Done + i]
  /\ \A i \in 1..Len(queue) : queue[i] = order[Done + Len(batch) + i]

\* A caller makes one request.
OncePerCaller ==
  /\ \A i \in 1..Len(order) : caller[order[i]] # "idle"
  /\ \A i, j \in 1..Len(order) : order[i] = order[j] => i = j

\* What the relay has stored was finished, in the order of arrival.
StoredBefore ==
  /\ \A i \in 1..Len(sent) : \E k \in 1..Done : sent[i] = order[k]
  /\ \A i, j \in 1..Len(sent), k, l \in 1..Len(order) :
       i < j /\ sent[i] = order[k] /\ sent[j] = order[l] => k < l

\* Run has a batch only while it pushes.
BatchInHand ==
  /\ pc \notin {"push", "pushing"} => batch = <<>>
  /\ pc = "pushing" => batch # <<>>

\* An answer of success is in a channel only after the relay has stored.
AnsweredOk ==
  \A c \in Callers : result[c] = "ok" \/ caller[c] = "ok" => \E i \in 1..Len(sent) : sent[i] = c

\* The inductive invariant.
IInv ==
  /\ TypeOK /\ NoAnswerLost /\ NoLostWakeup
  /\ Aligned /\ OncePerCaller /\ StoredBefore /\ BatchInHand /\ AnsweredOk

-----------------------------------------------------------------------------
(* Sequences *)

\* The elements of a sequence.
LEMMA Elements ==
  ASSUME NEW S, NEW s \in Seq(S)
  PROVE  Range(s) = {s[i] : i \in 1..Len(s)} /\ Range(s) \subseteq S
BY DEF Range

\* Appending an element adds it.
LEMMA AppendSet ==
  ASSUME NEW S, NEW s \in Seq(S), NEW e \in S
  PROVE  Range(Append(s, e)) = Range(s) \cup {e}
<1>1. Append(s, e) \in Seq(S) /\ Len(Append(s, e)) = Len(s) + 1 /\ Len(s) \in Nat
  BY AppendProperties, LenProperties
<1>2. /\ \A i \in 1..Len(s) : Append(s, e)[i] = s[i]
      /\ Append(s, e)[Len(s) + 1] = e
  BY AppendProperties
<1> DEFINE t == Append(s, e)
<1>0. Range(t) = {t[i] : i \in 1..Len(t)} BY <1>1, Elements
<1> HIDE DEF t
<1>t. Len(t) = Len(s) + 1 /\ t[Len(s) + 1] = e /\ \A i \in 1..Len(s) : t[i] = s[i]
  BY <1>1, <1>2 DEF t
<1>3. Range(s) \cup {e} \subseteq Range(t)
  <2>1. ASSUME NEW x \in Range(s) PROVE x \in Range(t)
    <3>1. PICK i \in 1..Len(s) : x = s[i] BY Elements
    <3>2. x = t[i] /\ i \in 1..Len(t) BY <1>1, <1>t, <3>1
    <3> QED BY <1>0, <3>2
  <2>2. e \in Range(t)
    <3>1. Len(s) + 1 \in 1..Len(t) BY <1>1, <1>t
    <3> QED BY <1>0, <1>t, <3>1
  <2> QED BY <2>1, <2>2
<1>4. ASSUME NEW x \in Range(t) PROVE x \in Range(s) \cup {e}
  <2>1. PICK i \in 1..Len(s) + 1 : x = t[i] BY <1>0, <1>t
  <2>2. CASE i = Len(s) + 1 BY <1>t, <2>1, <2>2
  <2>3. CASE i \in 1..Len(s) BY <1>t, <2>1, <2>3, Elements
  <2> QED BY <1>1, <2>1, <2>2, <2>3
<1> QED BY <1>3, <1>4 DEF t

\* The size of a batch (dequeue).
LEMMA BatchSize ==
  ASSUME NEW n \in Nat
  PROVE  /\ Min({BatchMax, n}) \in 0..n /\ Min({BatchMax, n}) =< BatchMax
<1> DEFINE S == {BatchMax, n}
<1>1. \E x \in S : \A y \in S : x =< y
  <2>1. CASE BatchMax =< n BY <2>1, SendOptionsNormalized
  <2>2. CASE n =< BatchMax BY <2>2, SendOptionsNormalized
  <2> QED BY <2>1, <2>2, SendOptionsNormalized
<1>2. Min(S) \in S /\ \A y \in S : Min(S) =< y BY <1>1 DEF Min
<1> QED BY <1>2, SendOptionsNormalized

\* Cutting the front of a queue (dequeue).
LEMMA Cut ==
  ASSUME NEW q \in Seq(Callers), NEW n \in 0..Len(q)
  PROVE  /\ SubSeq(q, 1, n) \in Seq(Callers) /\ Len(SubSeq(q, 1, n)) = n
         /\ \A i \in 1..n : SubSeq(q, 1, n)[i] = q[i]
         /\ SubSeq(q, n + 1, Len(q)) \in Seq(Callers)
         /\ Len(SubSeq(q, n + 1, Len(q))) = Len(q) - n
         /\ \A i \in 1..Len(q) - n : SubSeq(q, n + 1, Len(q))[i] = q[n + i]
<1>1. Len(q) \in Nat /\ \A i \in 1..Len(q) : q[i] \in Callers BY LenProperties, ElementOfSeq
<1> QED BY <1>1, SubSeqProperties

-----------------------------------------------------------------------------
(* The callers *)

\* A request that is queued comes after all others.
LEMMA EnqueueInv ==
  ASSUME IInv, NEW c \in Callers, Enqueue(c)
  PROVE  IInv'
<1>0. /\ TypeOK /\ NoAnswerLost /\ NoLostWakeup /\ BatchInHand /\ AnsweredOk
      /\ Aligned /\ OncePerCaller /\ StoredBefore
  BY DEF IInv
<1>1. /\ queue' = Append(queue, c) /\ order' = Append(order, c)
      /\ caller' = [caller EXCEPT ![c] = "signal"] /\ caller[c] = "idle"
      /\ UNCHANGED <<wake, pc, batch, closed, result, ctxDone, sent>> /\ ~Full
  BY DEF Enqueue
<1>2. /\ queue \in Seq(Callers) /\ order \in Seq(Callers) /\ batch \in Seq(Callers)
      /\ Len(queue) \in Nat /\ Len(order) \in Nat /\ Len(batch) \in Nat
  BY <1>0 DEF TypeOK, Aligned
<1>3. TypeOK' BY <1>0, <1>1, <1>2, SendOptionsNormalized DEF TypeOK, Full, Waiting, Steps
<1>a. /\ order' \in Seq(Callers) /\ Len(order') = Len(order) + 1
      /\ order'[Len(order) + 1] = c /\ \A i \in 1..Len(order) : order'[i] = order[i]
  BY <1>0, <1>1, <1>2
<1>b. /\ queue' \in Seq(Callers) /\ Len(queue') = Len(queue) + 1
      /\ queue'[Len(queue) + 1] = c /\ \A i \in 1..Len(queue) : queue'[i] = queue[i]
  BY <1>0, <1>1, <1>2
<1>4. Done' = Done /\ Done \in Nat BY <1>0, <1>1, <1>2, <1>a, <1>b DEF Done, Aligned
<1>5. Aligned'
  <2>1. \A i \in 1..Len(batch) : batch[i] = order'[Done + i]
    <3> SUFFICES ASSUME NEW i \in 1..Len(batch) PROVE batch[i] = order'[Done + i] OBVIOUS
    <3>1. Done + i \in 1..Len(order) BY <1>0, <1>2, <1>4 DEF Done
    <3> QED BY <1>0, <1>a, <3>1 DEF Aligned
  <2>2. \A i \in 1..Len(queue') : queue'[i] = order'[Done + Len(batch) + i]
    <3> SUFFICES ASSUME NEW i \in 1..Len(queue')
                 PROVE  queue'[i] = order'[Done + Len(batch) + i]
      OBVIOUS
    <3>1. CASE i \in 1..Len(queue)
      <4>1. Done + Len(batch) + i \in 1..Len(order) BY <1>0, <1>2, <1>4, <3>1 DEF Done
      <4> QED BY <1>0, <1>a, <1>b, <3>1, <4>1 DEF Aligned
    <3>2. CASE i = Len(queue) + 1
      <4>1. Done + Len(batch) + i = Len(order) + 1 BY <1>0, <1>2, <3>2 DEF Done
      <4> QED BY <1>0, <1>a, <1>b, <3>2, <4>1
    <3> QED BY <1>0, <1>2, <1>b, <3>1, <3>2
  <2> QED BY <1>0, <1>1, <1>4, <1>a, <2>1, <2>2 DEF Aligned
<1>6. OncePerCaller' BY <1>0, <1>1, <1>2 DEF OncePerCaller, TypeOK
<1>7. StoredBefore'
  <2>1. \A i \in 1..Len(sent) : \E k \in 1..Done : sent[i] = order'[k]
    <3>1. Done =< Len(order) BY <1>0, <1>2 DEF Done
    <3> QED BY <1>0, <1>2, <1>4, <1>a, <3>1 DEF StoredBefore
  <2>2. ASSUME NEW i \in 1..Len(sent), NEW j \in 1..Len(sent), i < j,
               NEW k \in 1..Len(order'), NEW l \in 1..Len(order'),
               sent[i] = order'[k], sent[j] = order'[l]
        PROVE  k < l
    <3>1. PICK k1 \in 1..Done : sent[i] = order'[k1] BY <2>1
    <3>2. PICK l1 \in 1..Done : sent[j] = order'[l1] BY <2>1
    <3>3. k1 \in 1..Len(order') /\ l1 \in 1..Len(order') BY <1>2, <1>4, <1>a DEF Done
    <3>a. k = k1 /\ l = l1 BY <1>6, <2>2, <3>1, <3>2, <3>3 DEF OncePerCaller
    <3>4. k \in 1..Len(order) /\ l \in 1..Len(order) BY <1>2, <1>4, <3>a DEF Done
    <3>5. sent[i] = order[k] /\ sent[j] = order[l] BY <1>0, <1>a, <2>2, <3>4
    <3> QED BY <1>0, <2>2, <3>4, <3>5 DEF StoredBefore
  <2>3. Len(sent') = Len(sent) /\ sent' = sent BY <1>1
  <2> QED BY <1>4, <2>1, <2>2, <2>3 DEF StoredBefore
<1>8. NoAnswerLost'
  <2>1. Range(queue') = Range(queue) \cup {c}
    BY <1>1, <1>2, AppendSet
  <2> QED BY <1>0, <1>1, <2>1 DEF NoAnswerLost, TypeOK, Waiting
<1>9. NoLostWakeup' BY <1>0, <1>1 DEF NoLostWakeup, TypeOK
<1>10. BatchInHand' /\ AnsweredOk' BY <1>0, <1>1 DEF BatchInHand, AnsweredOk, TypeOK
<1> QED BY <1>3, <1>5, <1>6, <1>7, <1>8, <1>9, <1>10 DEF IInv

\* The other steps of a caller touch neither the requests nor the answers.
LEMMA CallerInv ==
  ASSUME IInv, NEW c \in Callers,
         Refuse(c) \/ Signal(c) \/ Answered(c) \/ GivesUp(c) \/ CancelCaller(c)
  PROVE  IInv'
<1> USE DEF IInv, Refuse, Signal, Answered, GivesUp, CancelCaller
<1>1. UNCHANGED <<queue, pc, batch, closed, result, sent, order>> OBVIOUS
<1>2. TypeOK' BY <1>1 DEF TypeOK, Waiting
<1>3. Aligned' /\ StoredBefore' /\ BatchInHand'
  BY <1>1 DEF Aligned, Done, StoredBefore, BatchInHand
<1>4. OncePerCaller' BY <1>1 DEF OncePerCaller, TypeOK, Aligned
<1>5. NoAnswerLost' BY <1>1 DEF NoAnswerLost, TypeOK, Waiting
<1>6. NoLostWakeup' BY <1>1 DEF NoLostWakeup, TypeOK
<1>7. AnsweredOk' BY <1>1 DEF AnsweredOk, TypeOK
<1> QED BY <1>2, <1>3, <1>4, <1>5, <1>6, <1>7

-----------------------------------------------------------------------------
(* Run *)

\* The steps of Run that only move it, and Close.
LEMMA MoveInv ==
  ASSUME IInv,
         \/ Top \/ FlushDue \/ Woken \/ Cancelled \/ Timer \/ BatchDone \/ StartPush \/ Close
  PROVE  IInv'
<1>0. /\ TypeOK /\ NoAnswerLost /\ NoLostWakeup /\ BatchInHand /\ AnsweredOk
      /\ Aligned /\ OncePerCaller /\ StoredBefore
  BY DEF IInv
<1> USE DEF Top, FlushDue, Woken, Cancelled, Timer, BatchDone, StartPush, Close, Goto
<1>1. UNCHANGED <<queue, batch, caller, result, ctxDone, sent, order>> OBVIOUS
<1>2. wake' \in BOOLEAN /\ closed' \in BOOLEAN BY <1>0 DEF TypeOK
<1>3. pc' \in Steps BY <1>0 DEF TypeOK, Steps
<1>4. BatchInHand' BY <1>0, <1>1 DEF BatchInHand
<1>5. NoLostWakeup' BY <1>0, <1>1 DEF NoLostWakeup
<1> USE <1>1
<1>6. TypeOK' BY <1>0, <1>2, <1>3 DEF TypeOK
<1>7. NoAnswerLost' /\ AnsweredOk' BY <1>0 DEF NoAnswerLost, AnsweredOk
<1>8. Aligned' /\ OncePerCaller' /\ StoredBefore'
  BY <1>0 DEF Aligned, OncePerCaller, StoredBefore, Done
<1> QED BY <1>4, <1>5, <1>6, <1>7, <1>8 DEF IInv

\* A batch is the front of the queue.
LEMMA DequeueInv ==
  ASSUME IInv, dequeue
  PROVE  IInv'
<1>0. /\ TypeOK /\ NoAnswerLost /\ NoLostWakeup /\ BatchInHand /\ AnsweredOk
      /\ Aligned /\ OncePerCaller /\ StoredBefore
  BY DEF IInv
<1> DEFINE n == Min({BatchMax, Len(queue)})
<1>1. /\ batch' = SubSeq(queue, 1, n) /\ queue' = SubSeq(queue, n + 1, Len(queue))
      /\ pc = "dequeue" /\ pc' = "push"
      /\ UNCHANGED <<wake, closed, caller, result, ctxDone, sent, order>>
  BY DEF dequeue
<1>2. /\ queue \in Seq(Callers) /\ Len(queue) \in Nat /\ Len(queue) =< QueueMax
      /\ order \in Seq(Callers) /\ Len(order) \in Nat
  BY <1>0 DEF TypeOK, Aligned
<1>3. n \in 0..Len(queue) /\ n =< BatchMax BY <1>2, BatchSize
<1> HIDE DEF n
<1>4. /\ batch' \in Seq(Callers) /\ Len(batch') = n
      /\ \A i \in 1..n : batch'[i] = queue[i]
      /\ queue' \in Seq(Callers) /\ Len(queue') = Len(queue) - n
      /\ \A i \in 1..Len(queue) - n : queue'[i] = queue[n + i]
  BY <1>1, <1>2, <1>3, Cut
<1>5. batch = <<>> /\ Len(batch) = 0 BY <1>0, <1>1 DEF BatchInHand
<1>6. Done' = Done
  <2>1. Done' = Len(order) - n - (Len(queue) - n) BY <1>1, <1>4 DEF Done
  <2>2. Done = Len(order) - Len(queue) BY <1>2, <1>5 DEF Done
  <2> QED BY <1>2, <1>3, <2>1, <2>2
<1>7. TypeOK' BY <1>0, <1>1, <1>2, <1>3, <1>4, SendOptionsNormalized DEF TypeOK, Steps
<1>8. Aligned'
  <2>1. Done >= 0 /\ \A i \in 1..Len(queue) : queue[i] = order[Done + i]
    BY <1>0, <1>2, <1>5 DEF Aligned, Done
  <2>2. \A i \in 1..Len(batch') : batch'[i] = order[Done + i]
    <3> SUFFICES ASSUME NEW i \in 1..Len(batch') PROVE batch'[i] = order[Done + i]
      OBVIOUS
    <3>1. i \in 1..n /\ i \in 1..Len(queue) BY <1>2, <1>3, <1>4
    <3> QED BY <1>4, <2>1, <3>1
  <2>3. \A i \in 1..Len(queue') : queue'[i] = order[Done + Len(batch') + i]
    <3> SUFFICES ASSUME NEW i \in 1..Len(queue')
                 PROVE  queue'[i] = order[Done + Len(batch') + i]
      OBVIOUS
    <3>1. queue'[i] = queue[n + i] /\ n + i \in 1..Len(queue) BY <1>2, <1>3, <1>4
    <3>2. Done + (n + i) = Done + Len(batch') + i BY <1>2, <1>3, <1>4, <1>5 DEF Done
    <3> QED BY <2>1, <3>1, <3>2
  <2> QED BY <1>0, <1>1, <1>6, <2>1, <2>2, <2>3 DEF Aligned
<1>9. OncePerCaller' BY <1>0, <1>1 DEF OncePerCaller
<1>10. StoredBefore' BY <1>0, <1>1, <1>6 DEF StoredBefore
<1>11. NoAnswerLost'
  <2>1. ASSUME NEW x \in Range(queue) PROVE x \in Range(queue') \cup Range(batch')
    <3>1. PICK i \in 1..Len(queue) : x = queue[i] BY <1>2, Elements
    <3>2. CASE i =< n
      <4>1. i \in 1..Len(batch') /\ x = batch'[i] BY <1>2, <1>3, <1>4, <3>1, <3>2
      <4> QED BY <1>4, <4>1, Elements
    <3>3. CASE i > n
      <4>1. i - n \in 1..Len(queue') /\ x = queue'[i - n] BY <1>2, <1>3, <1>4, <3>1, <3>3
      <4> QED BY <1>4, <4>1, Elements
    <3> QED BY <1>2, <1>3, <3>2, <3>3
  <2>2. Range(batch) = {} BY <1>5 DEF Range
  <2> QED BY <1>0, <1>1, <2>1, <2>2 DEF NoAnswerLost
<1>12. NoLostWakeup' /\ BatchInHand' /\ AnsweredOk'
  BY <1>0, <1>1 DEF NoLostWakeup, BatchInHand, AnsweredOk
<1> QED BY <1>7, <1>8, <1>9, <1>10, <1>11, <1>12 DEF IInv

\* An element is the first or among the rest.
LEMMA FirstOrRest ==
  ASSUME NEW s \in Seq(Callers), s # <<>>
  PROVE  /\ Tail(s) \in Seq(Callers) /\ Len(s) \in Nat \ {0} /\ Len(Tail(s)) = Len(s) - 1
         /\ \A i \in 1..Len(s) - 1 : Tail(s)[i] = s[i + 1]
         /\ Head(s) = s[1] /\ Head(s) \in Callers
         /\ Range(s) \subseteq {Head(s)} \cup Range(Tail(s))
<1>1. /\ Tail(s) \in Seq(Callers) /\ Len(s) \in Nat \ {0} /\ Len(Tail(s)) = Len(s) - 1
      /\ \A i \in 1..Len(s) - 1 : Tail(s)[i] = s[i + 1]
      /\ Head(s) = s[1] /\ Head(s) \in Callers
  BY HeadTailProperties, LenProperties, EmptySeq
<1> DEFINE t == Tail(s)
<1>2. Range(t) = {t[i] : i \in 1..Len(t)} BY <1>1, Elements
<1>3. Len(t) = Len(s) - 1 /\ \A i \in 1..Len(s) - 1 : t[i] = s[i + 1] BY <1>1
<1> HIDE DEF t
<1>4. ASSUME NEW x \in Range(s) PROVE x \in {Head(s)} \cup Range(t)
  <2>1. PICK i \in 1..Len(s) : x = s[i] BY Elements
  <2>2. CASE i = 1 BY <1>1, <2>1, <2>2
  <2>3. CASE i > 1
    <3>1. i - 1 \in 1..Len(t) /\ t[i - 1] = s[(i - 1) + 1] BY <1>1, <1>3, <2>1, <2>3
    <3>2. x = t[i - 1] BY <1>1, <2>1, <3>1
    <3> QED BY <1>2, <3>1, <3>2
  <2> QED BY <1>1, <2>1, <2>2, <2>3
<1> QED BY <1>1, <1>4 DEF t

\* Run finishes with the first request of its batch: it has skipped it, or the
\* push has returned, with or without the message in the relay.
FinishFirst(stored, res) ==
  /\ pc \in {"push", "pushing"} /\ pc' = "push" /\ batch # <<>>
  /\ sent' = IF stored THEN Append(sent, Head(batch)) ELSE sent
  /\ result' = Answer({Head(batch)}, res)
  /\ batch' = Tail(batch)
  /\ UNCHANGED <<queue, wake, closed, caller, ctxDone, order>>

\* The first request of the batch is answered, its message stored or not: flush
\* takes it off the batch and no other caller is told anything.
LEMMA FinishInv ==
  ASSUME IInv, NEW stored \in BOOLEAN, NEW res \in {"ok", "err"}, res = "ok" => stored,
         FinishFirst(stored, res)
  PROVE  IInv'
<1>0. /\ TypeOK /\ NoAnswerLost /\ NoLostWakeup /\ BatchInHand /\ AnsweredOk
      /\ Aligned /\ OncePerCaller /\ StoredBefore
  BY DEF IInv
<1> DEFINE h == Head(batch)
<1>1. /\ sent' = IF stored THEN Append(sent, h) ELSE sent
      /\ result' = Answer({h}, res) /\ batch' = Tail(batch) /\ batch # <<>> /\ pc' = "push"
      /\ UNCHANGED <<queue, wake, closed, caller, ctxDone, order>>
  BY DEF FinishFirst
<1>2. /\ batch \in Seq(Callers) /\ sent \in Seq(Callers) /\ order \in Seq(Callers)
      /\ queue \in Seq(Callers) /\ Len(batch) =< BatchMax
      /\ result \in [Callers -> {"none", "ok", "err"}]
  BY <1>0 DEF TypeOK, Aligned
<1>3. Len(order) \in Nat /\ Len(sent) \in Nat /\ Len(queue) \in Nat BY <1>2, LenProperties
<1>4. /\ batch' \in Seq(Callers) /\ Len(batch) \in Nat \ {0} /\ Len(batch') = Len(batch) - 1
      /\ \A i \in 1..Len(batch) - 1 : batch'[i] = batch[i + 1]
      /\ h = batch[1] /\ h \in Callers
      /\ Range(batch) \subseteq {h} \cup Range(batch')
  BY <1>1, <1>2, FirstOrRest
<1> HIDE DEF h
<1>5. Done' = Done + 1 /\ Done \in Nat /\ Done + 1 \in 1..Len(order)
  <2>1. Done' = Len(order) - (Len(batch) - 1) - Len(queue) BY <1>1, <1>4 DEF Done
  <2>2. Done = Len(order) - Len(batch) - Len(queue) /\ Done >= 0 BY <1>0 DEF Aligned, Done
  <2> QED BY <1>3, <1>4, <2>1, <2>2
<1>6. h = order[Done + 1] BY <1>0, <1>4 DEF Aligned
<1>7. /\ sent' \in Seq(Callers)
      /\ Len(sent') \in Nat
      /\ stored => Len(sent') = Len(sent) + 1 /\ sent'[Len(sent) + 1] = h
      /\ ~stored => Len(sent') = Len(sent)
      /\ \A i \in 1..Len(sent) : sent'[i] = sent[i]
  <2>1. CASE stored BY <1>1, <1>2, <1>3, <1>4, <2>1, AppendProperties
  <2>2. CASE ~stored BY <1>1, <1>2, <1>3, <2>2
  <2> QED BY <2>1, <2>2
<1>8. /\ result' \in [Callers -> {"none", "ok", "err"}]
      /\ \A c \in Callers : result'[c] = IF c \in {h} \ Async THEN res ELSE result[c]
  BY <1>1, <1>2 DEF Answer
<1>9. TypeOK'
  <2>1. Len(batch') =< BatchMax BY <1>2, <1>4, SendOptionsNormalized
  <2>2. pc' \in Steps BY <1>1 DEF Steps
  <2>3. wake' \in BOOLEAN /\ closed' \in BOOLEAN BY <1>0, <1>1 DEF TypeOK
  <2> QED BY <1>0, <1>1, <1>4, <1>8, <2>1, <2>2, <2>3 DEF TypeOK
<1>10. Aligned'
  <2>1. Done' >= 0 BY <1>5
  <2>2. \A i \in 1..Len(batch') : batch'[i] = order[Done' + i]
    <3> SUFFICES ASSUME NEW i \in 1..Len(batch') PROVE batch'[i] = order[Done' + i]
      OBVIOUS
    <3>1. batch'[i] = batch[i + 1] /\ i + 1 \in 1..Len(batch) BY <1>4
    <3>2. batch[i + 1] = order[Done + (i + 1)] BY <1>0, <3>1 DEF Aligned
    <3>3. Done + (i + 1) = Done' + i BY <1>5
    <3> QED BY <3>1, <3>2, <3>3
  <2>3. Done' + Len(batch') = Done + Len(batch) BY <1>4, <1>5
  <2>4. \A i \in 1..Len(queue) : queue[i] = order[Done' + Len(batch') + i]
    BY <1>0, <2>3 DEF Aligned
  <2> QED BY <1>1, <1>2, <1>7, <2>1, <2>2, <2>4 DEF Aligned
<1>11. OncePerCaller' BY <1>0, <1>1 DEF OncePerCaller
<1>12. StoredBefore'
  <2>1. \A i \in 1..Len(sent') : \E k \in 1..Done' : sent'[i] = order[k]
    <3> SUFFICES ASSUME NEW i \in 1..Len(sent') PROVE \E k \in 1..Done' : sent'[i] = order[k]
      OBVIOUS
    <3>1. CASE i \in 1..Len(sent)
      <4>1. PICK k \in 1..Done : sent[i] = order[k] BY <1>0, <3>1 DEF StoredBefore
      <4> QED BY <1>5, <1>7, <3>1, <4>1
    <3>2. CASE stored /\ i = Len(sent) + 1 BY <1>5, <1>6, <1>7, <3>2
    <3> QED BY <1>3, <1>7, <3>1, <3>2
  <2>2. ASSUME NEW i \in 1..Len(sent'), NEW j \in 1..Len(sent'),
               NEW k \in 1..Len(order), NEW l \in 1..Len(order),
               i < j, sent'[i] = order[k], sent'[j] = order[l]
        PROVE  k < l
    <3>1. i \in 1..Len(sent) BY <1>3, <1>7, <2>2
    <3>2. CASE j \in 1..Len(sent)
      BY <1>0, <1>7, <2>2, <3>1, <3>2 DEF StoredBefore
    <3>3. CASE stored /\ j = Len(sent) + 1
      <4>1. PICK m \in 1..Done : sent[i] = order[m] BY <1>0, <3>1 DEF StoredBefore
      <4>2. m \in 1..Len(order) /\ order[m] = order[k] BY <1>3, <1>5, <1>7, <2>2, <3>1, <4>1
      <4>3. m = k BY <1>0, <4>2 DEF OncePerCaller
      <4>4. order[l] = order[Done + 1] BY <1>6, <1>7, <2>2, <3>3
      <4>5. l = Done + 1 BY <1>0, <1>5, <4>4 DEF OncePerCaller
      <4> QED BY <1>5, <4>1, <4>3, <4>5
    <3> QED BY <1>3, <1>7, <3>2, <3>3
  <2>3. order' = order BY <1>1
  <2>4. \A i, j \in 1..Len(sent'), k, l \in 1..Len(order) :
          i < j /\ sent'[i] = order[k] /\ sent'[j] = order[l] => k < l
    BY <2>2
  <2> QED BY <2>1, <2>3, <2>4 DEF StoredBefore
<1>13. NoAnswerLost'
  <2> SUFFICES ASSUME NEW c \in Callers \ Async, caller[c] \in Waiting
               PROVE  c \in Range(queue) \cup Range(batch') \/ result'[c] # "none"
    BY <1>1 DEF NoAnswerLost
  <2>1. CASE c = h BY <1>8, <2>1
  <2>2. CASE c # h BY <1>0, <1>4, <1>8, <2>2 DEF NoAnswerLost
  <2> QED BY <2>1, <2>2
<1>14. AnsweredOk'
  <2> SUFFICES ASSUME NEW c \in Callers, result'[c] = "ok" \/ caller[c] = "ok"
               PROVE  \E i \in 1..Len(sent') : sent'[i] = c
    BY <1>1 DEF AnsweredOk
  <2>1. CASE result[c] = "ok" \/ caller[c] = "ok"
    <3>1. PICK i \in 1..Len(sent) : sent[i] = c BY <1>0, <2>1 DEF AnsweredOk
    <3> QED BY <1>3, <1>7, <3>1
  <2>2. CASE c = h /\ res = "ok" BY <1>3, <1>7, <2>2
  <2> QED BY <1>8, <2>1, <2>2
<1>15. NoLostWakeup' /\ BatchInHand' BY <1>1 DEF NoLostWakeup, BatchInHand
<1> QED BY <1>9, <1>10, <1>11, <1>12, <1>13, <1>14, <1>15 DEF IInv

\* failPending answers whoever still waits.
LEMMA FailInv ==
  ASSUME IInv, failPending
  PROVE  IInv'
<1>0. /\ TypeOK /\ NoAnswerLost /\ NoLostWakeup /\ BatchInHand /\ AnsweredOk
      /\ Aligned /\ OncePerCaller /\ StoredBefore
  BY DEF IInv
<1>1. /\ result' = Answer(Range(queue), "err") /\ queue' = <<>>
      /\ pc = "fail" /\ pc' = "stopped"
      /\ UNCHANGED <<wake, batch, closed, caller, ctxDone, sent, order>>
  BY DEF failPending
<1>2. batch = <<>> /\ Len(batch) = 0 /\ Range(batch) = {}
  BY <1>0, <1>1 DEF BatchInHand, Range
<1>3. Len(order) \in Nat /\ Len(queue) \in Nat BY <1>0, LenProperties DEF TypeOK, Aligned
<1>4. Done' = Len(order) /\ Done =< Done' /\ Done \in Nat
  <2>1. Len(queue') = 0 BY <1>1
  <2>2. Done' = Len(order) - 0 - 0 BY <1>1, <1>2, <2>1 DEF Done
  <2>3. Done = Len(order) - 0 - Len(queue) /\ Done >= 0 BY <1>0, <1>2 DEF Done, Aligned
  <2> QED BY <1>3, <2>2, <2>3
<1>5. /\ result' \in [Callers -> {"none", "ok", "err"}]
      /\ \A c \in Callers : result'[c] = IF c \in Range(queue) \ Async THEN "err" ELSE result[c]
  BY <1>0, <1>1 DEF Answer, TypeOK
<1>6. TypeOK' BY <1>0, <1>1, <1>5, SendOptionsNormalized DEF TypeOK, Steps
<1>7. Aligned' BY <1>0, <1>1, <1>2, <1>3, <1>4 DEF Aligned
<1>8. OncePerCaller' BY <1>0, <1>1 DEF OncePerCaller
<1>9. StoredBefore'
  <2>1. 1..Done \subseteq 1..Done' BY <1>3, <1>4
  <2> QED BY <1>0, <1>1, <2>1 DEF StoredBefore
<1>10. NoAnswerLost' BY <1>0, <1>1, <1>2, <1>5 DEF NoAnswerLost
<1>11. AnsweredOk' BY <1>0, <1>1, <1>5 DEF AnsweredOk
<1>12. NoLostWakeup' /\ BatchInHand' BY <1>1, <1>2 DEF NoLostWakeup, BatchInHand
<1> QED BY <1>6, <1>7, <1>8, <1>9, <1>10, <1>11, <1>12 DEF IInv

-----------------------------------------------------------------------------
(* The theorems *)

\* Whatever a caller, Run or Close does keeps the invariant.
LEMMA Inductive ==
  IInv /\ [Next]_vars => IInv'
<1> SUFFICES ASSUME IInv, [Next]_vars PROVE IInv' OBVIOUS
<1>1. CASE Run
  <2>1. CASE Top \/ FlushDue \/ Woken \/ Cancelled \/ Timer \/ BatchDone \/ StartPush
    BY <2>1, MoveInv
  <2>2. CASE dequeue BY <2>2, DequeueInv
  <2>3. CASE SkipItem
    <3>1. FinishFirst(FALSE, "err") BY <2>3 DEF SkipItem, FinishFirst
    <3> QED BY <3>1, FinishInv
  <2>4. CASE PushReturns
    <3>1. batch # <<>> BY <2>4 DEF PushReturns, IInv, BatchInHand
    <3>2. PICK stored \in BOOLEAN, ok \in BOOLEAN :
            /\ ok => stored
            /\ sent' = IF stored THEN Append(sent, Head(batch)) ELSE sent
            /\ result' = Answer({Head(batch)}, IF ok THEN "ok" ELSE "err")
      BY <2>4 DEF PushReturns
    <3>3. FinishFirst(stored, IF ok THEN "ok" ELSE "err")
      BY <2>4, <3>1, <3>2 DEF PushReturns, FinishFirst
    <3>4. CASE ok BY <3>2, <3>3, <3>4, FinishInv
    <3>5. CASE ~ok BY <3>3, <3>5, FinishInv
    <3> QED BY <3>4, <3>5
  <2>5. CASE failPending BY <2>5, FailInv
  <2> QED BY <1>1, <2>1, <2>2, <2>3, <2>4, <2>5 DEF Run
<1>2. CASE Close BY <1>2, MoveInv
<1>3. ASSUME NEW c \in Callers, Call(c) \/ Returns(c) \/ CancelCaller(c) PROVE IInv'
  BY <1>3, EnqueueInv, CallerInv DEF Call, Returns
<1>4. CASE UNCHANGED vars
  <2>1. UNCHANGED <<queue, wake, pc, batch, closed, caller, result, ctxDone, sent, order>>
    BY <1>4 DEF vars
  <2>2. TypeOK' /\ NoAnswerLost' /\ NoLostWakeup'
    BY <2>1 DEF IInv, TypeOK, NoAnswerLost, NoLostWakeup
  <2>3. Aligned' /\ OncePerCaller' /\ StoredBefore' /\ BatchInHand' /\ AnsweredOk'
    BY <2>1 DEF IInv, Aligned, OncePerCaller, StoredBefore, BatchInHand, AnsweredOk, Done
  <2> QED BY <2>2, <2>3 DEF IInv
<1> QED BY <1>1, <1>2, <1>3, <1>4 DEF Next

\* Nothing is queued when the shaper is made.
LEMMA Initially ==
  Init => IInv
<1> SUFFICES ASSUME Init PROVE IInv OBVIOUS
<1>1. /\ queue = <<>> /\ batch = <<>> /\ sent = <<>> /\ order = <<>> /\ pc = "top"
      /\ wake = FALSE /\ closed = FALSE /\ ctxDone = {}
      /\ caller = [c \in Callers |-> "idle"] /\ result = [c \in Callers |-> "none"]
  BY DEF Init
<1>2. Len(queue) = 0 /\ Len(batch) = 0 /\ Len(sent) = 0 /\ Len(order) = 0 BY <1>1
<1>d. Done = 0 BY <1>2 DEF Done
<1>3. <<>> \in Seq(Callers) OBVIOUS
<1>4. wake \in BOOLEAN /\ closed \in BOOLEAN BY <1>1
<1>5. TypeOK BY <1>1, <1>2, <1>3, <1>4, SendOptionsNormalized DEF TypeOK, Steps
<1>6. NoAnswerLost /\ NoLostWakeup BY <1>1 DEF NoAnswerLost, NoLostWakeup, Waiting
<1>7. Aligned /\ OncePerCaller /\ StoredBefore
  BY <1>1, <1>2, <1>3, <1>d DEF Aligned, OncePerCaller, StoredBefore
<1>8. BatchInHand /\ AnsweredOk BY <1>1 DEF BatchInHand, AnsweredOk
<1> QED BY <1>5, <1>6, <1>7, <1>8 DEF IInv

\* A caller that has its success is among what the relay has stored.
LEMMA Drops ==
  IInv => NothingDropped
<1> SUFFICES ASSUME IInv PROVE OkMeansSent BY DEF IInv, NothingDropped
<1>1. sent \in Seq(Callers) BY DEF IInv, Aligned
<1>2. Range(sent) = {sent[i] : i \in 1..Len(sent)} BY <1>1, Elements
<1>3. \A c \in Callers : caller[c] = "ok" => \E i \in 1..Len(sent) : sent[i] = c
  BY DEF IInv, AnsweredOk
<1> QED BY <1>2, <1>3 DEF OkMeansSent

\* What is stored lies in the order of arrival, where no request occurs twice.
LEMMA Orders ==
  IInv => SentInOrder
<1> SUFFICES ASSUME IInv PROVE SentInOrder OBVIOUS
<1>0. Aligned /\ OncePerCaller /\ StoredBefore /\ TypeOK BY DEF IInv
<1>1. /\ sent \in Seq(Callers) /\ order \in Seq(Callers)
      /\ queue \in Seq(Callers) /\ batch \in Seq(Callers)
  BY <1>0 DEF Aligned, TypeOK
<1>2. /\ DOMAIN sent = 1..Len(sent) /\ DOMAIN order = 1..Len(order) /\ Len(sent) \in Nat
      /\ Len(order) \in Nat /\ Len(queue) \in Nat /\ Len(batch) \in Nat
  BY <1>1, LenProperties
<1>3. 1..Done \subseteq 1..Len(order)
  <2>1. Done = Len(order) - Len(batch) - Len(queue) BY DEF Done
  <2> QED BY <1>2, <2>1
<1>4. ASSUME NEW i \in 1..Len(sent), NEW j \in 1..Len(sent), sent[i] = sent[j] PROVE i = j
  <2>1. PICK k \in 1..Len(order) : sent[i] = order[k] BY <1>0, <1>3 DEF StoredBefore
  <2>2. ~(i < j) /\ ~(j < i)
    <3>1. ~(k < k) OBVIOUS
    <3> QED BY <1>0, <1>4, <2>1, <3>1 DEF StoredBefore
  <2> QED BY <1>2, <2>2
<1>5. IsInjective(sent) BY <1>2, <1>4 DEF IsInjective
<1> QED BY <1>0, <1>2, <1>5 DEF SentInOrder, StoredBefore

\* For any callers, any queue and any batch size: no request, answer or signal
\* is lost between Enqueue, EnqueueWait and Run, and whoever is told of success
\* has its message in the relay.
THEOREM ShaperDropsNothing == Spec => []NothingDropped
<1>1. Init => IInv BY Initially
<1>2. IInv /\ [Next]_vars => IInv' BY Inductive
<1>3. IInv => NothingDropped BY Drops
<1> QED BY <1>1, <1>2, <1>3, PTL DEF Spec

\* The relay stores the requests at most once, in the order in which the
\* callers queued them, however Run cuts the queue into batches and however
\* the pushes fail.
THEOREM ShaperKeepsOrder == Spec => []SentInOrder
<1>1. Init => IInv BY Initially
<1>2. IInv /\ [Next]_vars => IInv' BY Inductive
<1>3. IInv => SentInOrder BY Orders
<1> QED BY <1>1, <1>2, <1>3, PTL DEF Spec
=============================================================================
