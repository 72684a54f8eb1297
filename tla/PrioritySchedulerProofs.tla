---------------------- MODULE PrioritySchedulerProofs ----------------------
(* Proofs about the inbound scheduler, for every set of peers and batches and *)
(* every limit and weight that Options.normalize lets through.                *)
EXTENDS PriorityScheduler, SequenceTheorems, FiniteSetTheorems, FunctionTheorems,
        WellFoundedInduction, TLAPS

-----------------------------------------------------------------------------
(* The service pattern. *)

\* The pattern is not empty and every turn belongs to a class.
LEMMA PatternType ==
    /\ PatternLen \in Nat /\ PatternLen >= 3
    /\ \A i \in 0 .. PatternLen - 1 : pattern[i] \in PriorityClass
  BY OptionsNormalized DEF PatternLen, pattern, PriorityClass,
     PriorityCritical, PriorityNormal, PriorityBackground

\* A position of the pattern stays one when it is advanced and wrapped.
LEMMA Wrap ==
    ASSUME NEW k \in Nat
    PROVE  k % PatternLen \in 0 .. PatternLen - 1
  BY PatternType

\* The class whose turn it is, at any distance, is one of the three.
LEMMA SlotType ==
    ASSUME TypeOK, NEW i \in 0 .. PatternLen - 1
    PROVE  Slot(i) \in PriorityClass
  <1>1. patIdx + i \in Nat
    BY PatternType DEF TypeOK
  <1>. QED
    BY <1>1, PatternType, Wrap DEF Slot

-----------------------------------------------------------------------------
(* Dropping a prefix of a queue, as fifoQueue.Pop does. *)

\* What is left of a queue after a prefix is dropped is a queue, as much shorter
\* as the prefix is long.
LEMMA DropType ==
    ASSUME NEW S, NEW q \in Seq(S), NEW n \in 0 .. Len(q)
    PROVE  /\ Drop(q, n) \in Seq(S)
           /\ Len(Drop(q, n)) = Len(q) - n
           /\ \A i \in 1 .. Len(q) - n : Drop(q, n)[i] = q[i + n]
  <1>1. n + 1 \in 1 .. Len(q) + 1 /\ Len(q) \in Nat
    BY LenProperties
  <1>2. Len(q) \in n .. Len(q)
    BY <1>1
  <1>. QED
    BY <1>1, <1>2, SubSeqProperties DEF Drop

-----------------------------------------------------------------------------
(* Counting the batches of a peer. *)

\* The positions of the batches of p, of which QueuedOf is the number.
QueuedAt(q, p) == {i \in 1 .. Len(q) : q[i].peer = p}

\* The positions of the batches of one peer are finitely many.
LEMMA QueuedAtFinite ==
    ASSUME NEW q \in Seq(Item), NEW p
    PROVE  /\ IsFiniteSet(QueuedAt(q, p))
           /\ QueuedOf(q, p) = Cardinality(QueuedAt(q, p))
           /\ QueuedOf(q, p) \in Nat
  <1>1. IsFiniteSet(1 .. Len(q))
    BY LenProperties, FS_Interval
  <1>2. IsFiniteSet(QueuedAt(q, p))
    BY <1>1, FS_Subset DEF QueuedAt
  <1>. QED
    BY <1>2, FS_CardinalityType DEF QueuedOf, QueuedAt

\* A batch pushed to a queue counts for its own peer only.
LEMMA QueuedOfAppend ==
    ASSUME NEW q \in Seq(Item), NEW it \in Item, NEW p
    PROVE  QueuedOf(Append(q, it), p) =
               IF it.peer = p THEN QueuedOf(q, p) + 1 ELSE QueuedOf(q, p)
  <1>1. /\ Append(q, it) \in Seq(Item)
        /\ Len(Append(q, it)) = Len(q) + 1
        /\ \A i \in 1 .. Len(q) : Append(q, it)[i] = q[i]
        /\ Append(q, it)[Len(q) + 1] = it
    BY AppendProperties
  <1>2. Len(q) \in Nat
    BY LenProperties
  <1>3. QueuedAt(Append(q, it), p) =
            IF it.peer = p THEN QueuedAt(q, p) \cup {Len(q) + 1} ELSE QueuedAt(q, p)
    BY <1>1, <1>2 DEF QueuedAt
  <1>4. Len(q) + 1 \notin QueuedAt(q, p)
    BY <1>2 DEF QueuedAt
  <1>5. it.peer = p => Cardinality(QueuedAt(q, p) \cup {Len(q) + 1})
                          = Cardinality(QueuedAt(q, p)) + 1
    BY Zenon, <1>4, QueuedAtFinite, FS_AddElement
  <1>. QED
    BY Zenon, <1>1, <1>3, <1>5, QueuedAtFinite

\* A queue without its first n batches holds no more batches of p; without its
\* head, one less of the head's peer.
LEMMA QueuedOfDrop ==
    ASSUME NEW q \in Seq(Item), NEW n \in 0 .. Len(q), NEW p
    PROVE  QueuedOf(Drop(q, n), p) <= QueuedOf(q, p)
  <1>. DEFINE S == QueuedAt(Drop(q, n), p)
              T == QueuedAt(q, p)
              f == [i \in S |-> i + n]
  <1>1. /\ Drop(q, n) \in Seq(Item)
        /\ Len(Drop(q, n)) = Len(q) - n
        /\ \A i \in 1 .. Len(q) - n : Drop(q, n)[i] = q[i + n]
    BY DropType
  <1>2. Len(q) \in Nat /\ n \in Nat
    BY LenProperties
  <1>3. \A i \in S : i \in Nat /\ i + n \in T
    BY <1>1, <1>2 DEF QueuedAt
  <1>4. f \in Injection(S, T)
    BY <1>2, <1>3, Fun_IsInj
  <1>5. IsFiniteSet(T) /\ QueuedOf(q, p) = Cardinality(T)
    BY QueuedAtFinite
  <1>6. QueuedOf(Drop(q, n), p) = Cardinality(S)
    BY <1>1, QueuedAtFinite
  <1>7. Cardinality(S) <= Cardinality(T)
    BY <1>4, <1>5, FS_Injection
  <1>. QED
    BY <1>5, <1>6, <1>7

\* Handing out the head of a queue leaves one batch less of its peer and as many
\* of every other.
LEMMA QueuedOfTail ==
    ASSUME NEW q \in Seq(Item), q # <<>>, NEW p
    PROVE  QueuedOf(Tail(q), p) <= QueuedOf(q, p) - (IF Head(q).peer = p THEN 1 ELSE 0)
  <1>. DEFINE S == QueuedAt(Tail(q), p)
              T == QueuedAt(q, p) \ {1}
              f == [i \in S |-> i + 1]
  <1>1. /\ Tail(q) \in Seq(Item)
        /\ Len(Tail(q)) = Len(q) - 1
        /\ \A i \in 1 .. Len(Tail(q)) : Tail(q)[i] = q[i + 1]
    BY HeadTailProperties
  <1>2. Len(q) \in Nat /\ Len(q) >= 1 /\ Head(q) = q[1]
    BY LenProperties, EmptySeq
  <1>3. \A i \in S : i \in Nat /\ i + 1 \in T
    BY <1>1, <1>2 DEF QueuedAt
  <1>4. f \in Injection(S, T)
    BY <1>3, Fun_IsInj
  <1>5. /\ IsFiniteSet(QueuedAt(q, p))
        /\ QueuedOf(q, p) = Cardinality(QueuedAt(q, p))
        /\ QueuedOf(q, p) \in Nat
    BY QueuedAtFinite
  <1>6. QueuedOf(Tail(q), p) = Cardinality(S) /\ QueuedOf(Tail(q), p) \in Nat
    BY Zenon, <1>1, QueuedAtFinite
  <1>7. /\ IsFiniteSet(T)
        /\ Cardinality(T) = IF 1 \in QueuedAt(q, p) THEN QueuedOf(q, p) - 1 ELSE QueuedOf(q, p)
    BY <1>5, FS_RemoveElement
  <1>8. Cardinality(S) <= Cardinality(T)
    BY <1>4, <1>7, FS_Injection
  <1>9. 1 \in QueuedAt(q, p) <=> Head(q).peer = p
    BY <1>2 DEF QueuedAt
  <1>. QED
    BY <1>5, <1>6, <1>7, <1>8, <1>9

-----------------------------------------------------------------------------
(* The inductive invariant.  TypeOK alone is not inductive: that Next leaves   *)
(* every count a natural number rests on the quota covering the queue.         *)


\* The three classes are the numbers 0, 1 and 2.
LEMMA ClassMembers ==
    /\ PriorityClass = {0, 1, 2}
    /\ PriorityCritical = 0 /\ PriorityNormal = 1 /\ PriorityBackground = 2
  BY DEF PriorityClass, PriorityCritical, PriorityNormal, PriorityBackground

\* A peer without a record has the empty quota, so that QuotaOf is always a quota.
LEMMA QuotaOfType ==
    ASSUME TypeOK, NEW p
    PROVE  /\ QuotaOf(p) \in Quota
           /\ QuotaOf(p).total \in Nat
           /\ \A c \in PriorityClass : QuotaOf(p).used[c] \in Nat
  <1>1. NoQuota \in Quota
    BY DEF NoQuota, Quota
  <1>2. QuotaOf(p) \in Quota
    BY <1>1 DEF QuotaOf, TypeOK
  <1>. QED
    BY <1>2 DEF Quota

\* Eviction keeps the critical queue, takes prefixes of the other two and, when
\* it can make enough room, takes exactly the excess.
LEMMA EvictedFacts ==
    ASSUME TypeOK
    PROVE  /\ Evicted \in [PriorityClass -> Seq(Item)]
           /\ Evicted[PriorityCritical] = queue[PriorityCritical]
           /\ Excess = 0 => Evicted = queue
           /\ \A c \in PriorityClass, p \in Peers :
                    QueuedOf(Evicted[c], p) <= QueuedOf(queue[c], p)
           /\ Len(Evicted[0]) + Len(Evicted[1]) + Len(Evicted[2]) <= QueuedTotal
           /\ CanEvict => Len(Evicted[0]) + Len(Evicted[1]) + Len(Evicted[2])
                                = QueuedTotal - Excess
  <1>. DEFINE q0 == queue[0]
              q1 == queue[1]
              q2 == queue[2]
              n0 == Len(q0)
              n1 == Len(q1)
              n2 == Len(q2)
              e == Excess
              fromB == IF e <= n2 THEN e ELSE n2
              fromN == IF e - fromB <= n1 THEN e - fromB ELSE n1
  <1>0. /\ q0 \in Seq(Item) /\ q1 \in Seq(Item) /\ q2 \in Seq(Item)
        /\ queue \in [PriorityClass -> Seq(Item)]
    BY ClassMembers DEF TypeOK
  <1>1. n0 \in Nat /\ n1 \in Nat /\ n2 \in Nat
    BY <1>0, LenProperties
  <1>9. QueuedTotal = n0 + n1 + n2
    BY Zenon DEF QueuedTotal, PriorityCritical, PriorityNormal, PriorityBackground
  <1>10. QueuedTotal \in Nat
    <2>. HIDE DEF n0, n1, n2
    <2>. QED
      BY <1>1, <1>9
  <1>13. CanEvict <=> e <= n2 + n1
    BY Zenon DEF CanEvict, PriorityNormal, PriorityBackground
  <1>2. e \in Nat
    BY <1>10, OptionsNormalized DEF Excess
  <1>3. /\ fromB \in 0 .. n2 /\ fromN \in 0 .. n1
        /\ e = 0 => fromB = 0 /\ fromN = 0
        /\ CanEvict => fromB + fromN = e
    <2>. HIDE DEF n0, n1, n2, e
    <2>. QED
      BY <1>1, <1>2, <1>13
  <1>4. Evicted = [queue EXCEPT ![2] = Drop(q2, fromB), ![1] = Drop(q1, fromN)]
    BY DEF Evicted, PriorityCritical, PriorityNormal, PriorityBackground
  <1>5. /\ Drop(q2, fromB) \in Seq(Item) /\ Len(Drop(q2, fromB)) = n2 - fromB
        /\ Drop(q1, fromN) \in Seq(Item) /\ Len(Drop(q1, fromN)) = n1 - fromN
    <2>. HIDE DEF fromB, fromN, q1, q2
    <2>. QED
      BY <1>0, <1>3, DropType
  <1>6. /\ Evicted[0] = q0 /\ Evicted[1] = Drop(q1, fromN) /\ Evicted[2] = Drop(q2, fromB)
        /\ Evicted \in [PriorityClass -> Seq(Item)]
    <2>. HIDE DEF fromB, fromN
    <2>. QED
      BY <1>0, <1>4, <1>5, ClassMembers
  <1>7. \A p \in Peers : /\ QueuedOf(q0, p) \in Nat
                         /\ QueuedOf(Drop(q1, fromN), p) <= QueuedOf(q1, p)
                         /\ QueuedOf(Drop(q2, fromB), p) <= QueuedOf(q2, p)
    <2>. HIDE DEF fromB, fromN, q0, q1, q2
    <2>. QED
      BY <1>0, <1>3, QueuedOfDrop, QueuedAtFinite
  <1>8. Excess = 0 => Evicted = queue
    <2>2. \A q \in Seq(Item) : Drop(q, 0) = q
      BY SubSeqFull DEF Drop
    <2>. HIDE DEF fromB, fromN
    <2>. QED
      BY <1>0, <1>3, <1>4, <2>2
  <1>. HIDE DEF fromB, fromN
  <1>11. \A c \in PriorityClass, p \in Peers : QueuedOf(Evicted[c], p) <= QueuedOf(queue[c], p)
    BY <1>6, <1>7, ClassMembers
  <1>12. /\ Len(Evicted[0]) + Len(Evicted[1]) + Len(Evicted[2]) <= QueuedTotal
         /\ CanEvict => Len(Evicted[0]) + Len(Evicted[1]) + Len(Evicted[2])
                             = QueuedTotal - Excess
    <2>1. Len(Evicted[0]) = n0 /\ Len(Evicted[1]) = n1 - fromN /\ Len(Evicted[2]) = n2 - fromB
      BY <1>5, <1>6
    <2>. HIDE DEF n0, n1, n2, e
    <2>2. /\ Len(Evicted[0]) + Len(Evicted[1]) + Len(Evicted[2]) <= QueuedTotal
          /\ CanEvict => Len(Evicted[0]) + Len(Evicted[1]) + Len(Evicted[2]) = QueuedTotal - e
      BY <1>1, <1>2, <1>3, <1>9, <2>1
    <2>. QED
      BY Zenon, <2>2 DEF e
  <1>. QED
    BY Zenon, <1>6, <1>8, <1>11, <1>12 DEF PriorityCritical

\* The number of queued batches is a natural number, for the queues of any state
\* of the right type.
LEMMA QueuedTotalType ==
    ASSUME TypeOK
    PROVE  /\ QueuedTotal \in Nat
           /\ QueuedTotal = Len(queue[0]) + Len(queue[1]) + Len(queue[2])
           /\ \A c \in PriorityClass : Len(queue[c]) \in Nat
           /\ Excess \in Nat
  <1>. DEFINE n0 == Len(queue[0])
              n1 == Len(queue[1])
              n2 == Len(queue[2])
  <1>1. \A c \in PriorityClass : Len(queue[c]) \in Nat
    BY LenProperties DEF TypeOK
  <1>2. n0 \in Nat /\ n1 \in Nat /\ n2 \in Nat
    BY <1>1, ClassMembers
  <1>3. QueuedTotal = n0 + n1 + n2
    BY Zenon DEF QueuedTotal, PriorityCritical, PriorityNormal, PriorityBackground
  <1>4. QueuedTotal \in Nat
    <2>. HIDE DEF n0, n1, n2
    <2>. QED
      BY <1>2, <1>3
  <1>5. Excess \in Nat
    BY <1>4, OptionsNormalized DEF Excess
  <1>. QED
    BY Zenon, <1>1, <1>3, <1>4, <1>5

\* A new scheduler has the invariant.
LEMMA InitIInv ==
    ASSUME Init
    PROVE  SchedulerInv
  <1>1. TypeOK
    BY PatternType, EmptySeq DEF Init, TypeOK
  <1>2. QueuedTotal = 0
    BY ClassMembers DEF Init, QueuedTotal
  <1>3. ASSUME NEW p \in Peers, NEW c \in PriorityClass
        PROVE  QueuedOf(queue[c], p) <= QuotaOf(p).used[c]
    <2>1. queue[c] = <<>> /\ QuotaOf(p) = NoQuota
      BY DEF Init, QuotaOf
    <2>2. QueuedOf(<<>>, p) = 0
      BY FS_EmptySet DEF QueuedOf
    <2>. QED
      BY <2>1, <2>2 DEF NoQuota
  <1>4. DOMAIN quota = {}
    BY DEF Init
  <1>. QED
    BY <1>1, <1>2, <1>3, <1>4, OptionsNormalized DEF SchedulerInv, QueueBounded, QuotaCoversQueued

\* Charging p one more in a class that has room keeps its quota consistent.
LEMMA ChargeFacts ==
    ASSUME TypeOK, QuotaCoversQueued, NEW p \in Peers, NEW c \in PriorityClass, Fits(p, c),
           quota' = Charge(p, c)
    PROVE  /\ DOMAIN quota' = DOMAIN quota \cup {p}
           /\ \A x \in DOMAIN quota' : quota'[x] \in Quota
           /\ \A x \in DOMAIN quota' :
                /\ quota'[x].total = quota'[x].used[0] + quota'[x].used[1] + quota'[x].used[2]
                /\ quota'[x].total <= MaxPerPeer
                /\ \A d \in PriorityClass : quota'[x].used[d] <= MaxClass[d]
           /\ \A x \in Peers, d \in PriorityClass :
                QuotaOf(x)'.used[d] =
                    IF x = p /\ d = c THEN QuotaOf(x).used[d] + 1 ELSE QuotaOf(x).used[d]
  <1>. DEFINE old == QuotaOf(p)
              new == [total |-> old.total + 1, used |-> [old.used EXCEPT ![c] = @ + 1]]
  <1>1. /\ old \in Quota /\ old.total \in Nat
        /\ \A d \in PriorityClass : old.used[d] \in Nat
        /\ old.used \in [PriorityClass -> Nat]
    BY QuotaOfType DEF Quota
  <1>2. /\ old.total = old.used[0] + old.used[1] + old.used[2]
        /\ \A d \in PriorityClass : old.used[d] <= MaxClass[d]
    BY ClassMembers, OptionsNormalized DEF QuotaCoversQueued, QuotaOf, NoQuota
  <1>3. /\ new \in Quota /\ new.total = old.total + 1
        /\ \A d \in PriorityClass :
                new.used[d] = IF d = c THEN old.used[d] + 1 ELSE old.used[d]
    <2>. HIDE DEF old
    <2>. QED
      BY <1>1 DEF Quota
  <1>4. /\ DOMAIN quota' = DOMAIN quota \cup {p}
        /\ quota'[p] = new
        /\ \A x \in DOMAIN quota' \ {p} : x \in DOMAIN quota /\ quota'[x] = quota[x]
    BY DEF Charge, WithQuota
  <1>5. old.total < MaxPerPeer /\ old.used[c] < MaxClass[c]
    BY DEF Fits
  <1>6. /\ new.total = new.used[0] + new.used[1] + new.used[2]
        /\ new.total <= MaxPerPeer
        /\ \A d \in PriorityClass : new.used[d] <= MaxClass[d]
    <2>. HIDE DEF old, new
    <2>. QED
      BY <1>1, <1>2, <1>3, <1>5, ClassMembers, OptionsNormalized
  <1>7. \A x \in Peers, d \in PriorityClass :
            QuotaOf(x)'.used[d] =
                IF x = p /\ d = c THEN QuotaOf(x).used[d] + 1 ELSE QuotaOf(x).used[d]
    <2>1. QuotaOf(p)' = new
      BY <1>4 DEF QuotaOf
    <2>2. \A x \in Peers \ {p} : QuotaOf(x)' = QuotaOf(x)
      BY <1>4 DEF QuotaOf
    <2>. HIDE DEF new
    <2>. QED
      BY <1>3, <2>1, <2>2
  <1>. HIDE DEF new, old
  <1>. QED
    BY <1>3, <1>4, <1>6, <1>7 DEF TypeOK, QuotaCoversQueued

\* Enqueue returning true preserves the invariant.
LEMMA AcceptIInv ==
    ASSUME SchedulerInv, NEW p \in Peers, NEW cls \in PriorityClass, NEW m \in Msgs,
           EnqueueAccept(p, cls, m)
    PROVE  SchedulerInv'
  <1>. DEFINE it == [peer |-> p, msg |-> m]
  <1>0. TypeOK /\ QueueBounded /\ QuotaCoversQueued
    BY DEF SchedulerInv
  <1>1. PICK c \in PriorityClass :
            /\ Admitted(p, cls, c)
            /\ Excess = 0 \/ (c = PriorityCritical /\ CanEvict)
            /\ queue' = [Evicted EXCEPT ![c] = Append(@, it)]
            /\ quota' = Charge(p, c)
            /\ patIdx' = patIdx
    BY Zenon DEF EnqueueAccept
  <1>2. Fits(p, c)
    BY <1>1 DEF Admitted
  <1>3. it \in Item /\ it.peer = p
    BY DEF Item
  <1>4. /\ Evicted \in [PriorityClass -> Seq(Item)]
        /\ Excess = 0 => Evicted = queue
        /\ \A d \in PriorityClass, x \in Peers : QueuedOf(Evicted[d], x) <= QueuedOf(queue[d], x)
        /\ CanEvict => Len(Evicted[0]) + Len(Evicted[1]) + Len(Evicted[2]) = QueuedTotal - Excess
    BY Zenon, <1>0, EvictedFacts
  <1>. HIDE DEF it
  <1>5. /\ queue' \in [PriorityClass -> Seq(Item)]
        /\ queue'[c] = Append(Evicted[c], it)
        /\ \A d \in PriorityClass \ {c} : queue'[d] = Evicted[d]
        /\ Evicted[c] \in Seq(Item)
    BY <1>1, <1>3, <1>4, AppendProperties
  <1>6. TypeOK'
    BY Zenon, <1>0, <1>1, <1>2, <1>5, ChargeFacts DEF TypeOK
  <1>7. QueueBounded'
    <2>. DEFINE e0 == Len(Evicted[0])
                e1 == Len(Evicted[1])
                e2 == Len(Evicted[2])
                r0 == Len(queue'[0])
                r1 == Len(queue'[1])
                r2 == Len(queue'[2])
                sum == QueuedTotal
    <2>1. Len(queue'[c]) = Len(Evicted[c]) + 1
      BY <1>3, <1>5, AppendProperties
    <2>2. e0 \in Nat /\ e1 \in Nat /\ e2 \in Nat
      BY <1>4, ClassMembers, LenProperties
    <2>3. \A d \in PriorityClass \ {c} : Len(queue'[d]) = Len(Evicted[d])
      BY <1>5
    <2>4. r0 + r1 + r2 = e0 + e1 + e2 + 1
      <3>1. CASE c = 0
        <4>1. r0 = e0 + 1 /\ r1 = e1 /\ r2 = e2
          BY <2>1, <2>3, <3>1, ClassMembers
        <4>. HIDE DEF r0, r1, r2, e0, e1, e2
        <4>. QED
          BY <2>2, <4>1
      <3>2. CASE c = 1
        <4>1. r0 = e0 /\ r1 = e1 + 1 /\ r2 = e2
          BY <2>1, <2>3, <3>2, ClassMembers
        <4>. HIDE DEF r0, r1, r2, e0, e1, e2
        <4>. QED
          BY <2>2, <4>1
      <3>3. CASE c = 2
        <4>1. r0 = e0 /\ r1 = e1 /\ r2 = e2 + 1
          BY <2>1, <2>3, <3>3, ClassMembers
        <4>. HIDE DEF r0, r1, r2, e0, e1, e2
        <4>. QED
          BY <2>2, <4>1
      <3>. QED
        BY Zenon, <3>1, <3>2, <3>3, ClassMembers
    <2>5. QueuedTotal' = r0 + r1 + r2
      BY Zenon DEF QueuedTotal, PriorityCritical, PriorityNormal, PriorityBackground
    <2>6. CanEvict
      <3>. DEFINE n1 == Len(queue[1])
                  n2 == Len(queue[2])
      <3>1. n1 \in Nat /\ n2 \in Nat
        BY <1>0, QueuedTotalType, ClassMembers
      <3>2. CanEvict <=> Excess <= n2 + n1
        BY Zenon DEF CanEvict, PriorityNormal, PriorityBackground
      <3>. HIDE DEF n1, n2
      <3>. QED
        BY <1>1, <3>1, <3>2
    <2>7. e0 + e1 + e2 = sum - Excess /\ sum \in Nat /\ sum <= MaxTotal
      BY Zenon, <1>0, <1>4, <2>6, QueuedTotalType DEF QueueBounded
    <2>8. Excess = IF sum >= MaxTotal THEN sum - MaxTotal + 1 ELSE 0
      BY Zenon DEF Excess
    <2>9. QueuedTotal' <= MaxTotal
      <3>. HIDE DEF r0, r1, r2, e0, e1, e2, sum
      <3>. QED
        BY <2>4, <2>5, <2>7, <2>8, OptionsNormalized
    <2>. QED
      BY <2>9 DEF QueueBounded
  <1>8. QuotaCoversQueued'
    <2>0. \A x \in Peers, d \in PriorityClass :
            QuotaOf(x)'.used[d] =
                IF x = p /\ d = c THEN QuotaOf(x).used[d] + 1 ELSE QuotaOf(x).used[d]
      BY Zenon, <1>0, <1>1, <1>2, ChargeFacts
    <2>1. ASSUME NEW x \in Peers, NEW d \in PriorityClass
          PROVE  QueuedOf(queue'[d], x) <= QuotaOf(x)'.used[d]
      <3>0. QuotaOf(x).used[d] \in Nat
        BY <1>0, QuotaOfType
      <3>1. QuotaOf(x)'.used[d] =
                IF x = p /\ d = c THEN QuotaOf(x).used[d] + 1 ELSE QuotaOf(x).used[d]
        BY Zenon, <2>0
      <3>2. QueuedOf(Evicted[d], x) <= QueuedOf(queue[d], x)
        BY <1>4
      <3>3. QueuedOf(queue[d], x) <= QuotaOf(x).used[d]
        BY <1>0 DEF QuotaCoversQueued
      <3>4. QueuedOf(Evicted[d], x) \in Nat /\ QueuedOf(queue[d], x) \in Nat
        BY <1>0, <1>4, QueuedAtFinite DEF TypeOK
      <3>5. QueuedOf(queue'[d], x) =
                IF x = p /\ d = c THEN QueuedOf(Evicted[d], x) + 1 ELSE QueuedOf(Evicted[d], x)
        <4>1. CASE d # c
          BY <1>5, <4>1
        <4>2. CASE d = c
          <5>1. QueuedOf(Append(Evicted[c], it), x) =
                    IF it.peer = x THEN QueuedOf(Evicted[c], x) + 1 ELSE QueuedOf(Evicted[c], x)
            BY <1>3, <1>5, QueuedOfAppend
          <5>. QED
            BY Zenon, <1>3, <1>5, <4>2, <5>1
        <4>. QED
          BY <4>1, <4>2
      <3>. QED
        BY <3>0, <3>1, <3>2, <3>3, <3>4, <3>5
    <2>. QED
      BY Zenon, <1>0, <1>1, <1>2, <2>1, ChargeFacts DEF QuotaCoversQueued
  <1>. QED
    BY <1>6, <1>7, <1>8 DEF SchedulerInv

\* Enqueue returning false preserves the invariant, whatever it popped.
LEMMA RefuseIInv ==
    ASSUME SchedulerInv, NEW p \in Peers, NEW cls \in PriorityClass, EnqueueRefuse(p, cls)
    PROVE  SchedulerInv'
  <1>0. TypeOK /\ QueueBounded /\ QuotaCoversQueued
    BY DEF SchedulerInv
  <1>1. queue' = queue \/ queue' = Evicted
    BY DEF EnqueueRefuse
  <1>2. /\ quota' = WithQuota(p, QuotaOf(p))
        /\ patIdx' = patIdx
    BY DEF EnqueueRefuse
  <1>3. /\ queue' \in [PriorityClass -> Seq(Item)]
        /\ \A d \in PriorityClass, x \in Peers : QueuedOf(queue'[d], x) <= QueuedOf(queue[d], x)
        /\ Len(queue'[0]) + Len(queue'[1]) + Len(queue'[2]) <= QueuedTotal
    <2>1. CASE queue' = queue
      <3>1. \A d \in PriorityClass, x \in Peers : QueuedOf(queue[d], x) \in Nat
        BY <1>0, QueuedAtFinite DEF TypeOK
      <3>2. QueuedTotal = Len(queue[0]) + Len(queue[1]) + Len(queue[2]) /\ QueuedTotal \in Nat
        BY Zenon, <1>0, QueuedTotalType
      <3>3. Len(queue[0]) + Len(queue[1]) + Len(queue[2]) <= QueuedTotal
        BY <3>2
      <3>4. \A d \in PriorityClass, x \in Peers : QueuedOf(queue[d], x) <= QueuedOf(queue[d], x)
        BY <3>1
      <3>5. queue \in [PriorityClass -> Seq(Item)]
        BY <1>0 DEF TypeOK
      <3>. QED
        BY Zenon, <2>1, <3>3, <3>4, <3>5
    <2>2. CASE queue' = Evicted
      BY Zenon, <1>0, <2>2, EvictedFacts
    <2>. QED
      BY Zenon, <1>1, <2>1, <2>2
  <1>4. /\ DOMAIN quota' = DOMAIN quota \cup {p}
        /\ quota'[p] = QuotaOf(p)
        /\ \A x \in DOMAIN quota : quota'[x] = quota[x]
    BY <1>2 DEF WithQuota, QuotaOf
  <1>5. \A x \in Peers : QuotaOf(x)' = QuotaOf(x)
    BY <1>4 DEF QuotaOf
  <1>6. TypeOK'
    BY <1>0, <1>2, <1>3, <1>4, QuotaOfType DEF TypeOK
  <1>7. QueueBounded'
    <2>1. QueuedTotal' = Len(queue'[0]) + Len(queue'[1]) + Len(queue'[2])
      BY Zenon DEF QueuedTotal, PriorityCritical, PriorityNormal, PriorityBackground
    <2>2. QueuedTotal' <= QueuedTotal
      BY Zenon, <1>3, <2>1
    <2>3. QueuedTotal' \in Int
      <3>. DEFINE r0 == Len(queue'[0])
                  r1 == Len(queue'[1])
                  r2 == Len(queue'[2])
      <3>1. r0 \in Nat /\ r1 \in Nat /\ r2 \in Nat
        BY <1>3, ClassMembers, LenProperties
      <3>. HIDE DEF r0, r1, r2
      <3>. QED
        BY <2>1, <3>1 DEF r0, r1, r2
    <2>4. QueuedTotal \in Nat /\ QueuedTotal <= MaxTotal
      BY Zenon, <1>0, QueuedTotalType DEF QueueBounded
    <2>5. QueuedTotal' <= MaxTotal
      BY <2>2, <2>3, <2>4, OptionsNormalized
    <2>. QED
      BY <2>5 DEF QueueBounded
  <1>8. QuotaCoversQueued'
    <2>1. ASSUME NEW x \in Peers, NEW d \in PriorityClass
          PROVE  QueuedOf(queue'[d], x) <= QuotaOf(x)'.used[d]
      <3>1. QueuedOf(queue'[d], x) <= QueuedOf(queue[d], x)
        BY <1>3
      <3>2. QueuedOf(queue[d], x) <= QuotaOf(x).used[d]
        BY <1>0 DEF QuotaCoversQueued
      <3>3. /\ QueuedOf(queue'[d], x) \in Nat /\ QueuedOf(queue[d], x) \in Nat
            /\ QuotaOf(x).used[d] \in Nat
        BY <1>0, <1>3, QueuedAtFinite, QuotaOfType DEF TypeOK
      <3>4. QuotaOf(x)' = QuotaOf(x)
        BY <1>5
      <3>. QED
        BY <3>1, <3>2, <3>3, <3>4
    <2>2. ASSUME NEW x \in DOMAIN quota'
          PROVE  /\ quota'[x].total = quota'[x].used[0] + quota'[x].used[1] + quota'[x].used[2]
                 /\ quota'[x].total <= MaxPerPeer
                 /\ \A c \in PriorityClass : quota'[x].used[c] <= MaxClass[c]
      <3>1. CASE x \in DOMAIN quota
        BY <1>0, <1>4, <3>1 DEF QuotaCoversQueued
      <3>2. CASE x \notin DOMAIN quota
        <4>1. quota'[x] = NoQuota
          BY <1>4, <3>2 DEF QuotaOf
        <4>. QED
          BY <4>1, OptionsNormalized, ClassMembers DEF NoQuota
      <3>. QED
        BY <3>1, <3>2
    <2>. QED
      BY <2>1, <2>2 DEF QuotaCoversQueued
  <1>. QED
    BY <1>6, <1>7, <1>8 DEF SchedulerInv

\* Refunding p one batch of a class it is charged for.
LEMMA RefundFacts ==
    ASSUME TypeOK, QuotaCoversQueued, NEW p \in DOMAIN quota, NEW c \in PriorityClass,
           quota[p].used[c] >= 1, quota' = Refund(p, c)
    PROVE  /\ DOMAIN quota' \subseteq DOMAIN quota
           /\ \A x \in DOMAIN quota' : quota'[x] \in Quota
           /\ \A x \in DOMAIN quota' :
                /\ quota'[x].total = quota'[x].used[0] + quota'[x].used[1] + quota'[x].used[2]
                /\ quota'[x].total <= MaxPerPeer
                /\ \A d \in PriorityClass : quota'[x].used[d] <= MaxClass[d]
           /\ \A x \in Peers, d \in PriorityClass :
                QuotaOf(x)'.used[d] =
                    IF x = p /\ d = c THEN QuotaOf(x).used[d] - 1 ELSE QuotaOf(x).used[d]
  <1>. DEFINE old == quota[p]
              new == [total |-> old.total - 1, used |-> [old.used EXCEPT ![c] = @ - 1]]
  <1>1. /\ old.total \in Nat /\ old.used \in [PriorityClass -> Nat]
        /\ \A d \in PriorityClass : old.used[d] \in Nat
    BY DEF TypeOK, Quota
  <1>2. /\ old.total = old.used[0] + old.used[1] + old.used[2]
        /\ old.total <= MaxPerPeer
        /\ \A d \in PriorityClass : old.used[d] <= MaxClass[d]
    BY DEF QuotaCoversQueued
  <1>3. old.used[c] >= 1 /\ old.total >= 1
    <2>. DEFINE u0 == old.used[0]
                u1 == old.used[1]
                u2 == old.used[2]
    <2>1. u0 \in Nat /\ u1 \in Nat /\ u2 \in Nat
      BY <1>1, ClassMembers
    <2>2. u0 >= 1 \/ u1 >= 1 \/ u2 >= 1
      BY ClassMembers
    <2>3. u0 + u1 + u2 >= 1
      <3>. HIDE DEF u0, u1, u2
      <3>. QED
        BY <2>1, <2>2
    <2>. QED
      BY <1>2, <2>3
  <1>4. CASE old.total - 1 <= 0
    <2>1. quota' = [x \in DOMAIN quota \ {p} |-> quota[x]]
      BY <1>4 DEF Refund
    <2>2. /\ \A x \in Peers \ {p} : QuotaOf(x)' = QuotaOf(x)
          /\ QuotaOf(p)' = NoQuota
          /\ QuotaOf(p) = old
      BY <2>1 DEF QuotaOf
    <2>3. \A d \in PriorityClass : NoQuota.used[d] = IF d = c THEN old.used[d] - 1 ELSE old.used[d]
      <3>1. \A d \in PriorityClass : NoQuota.used[d] = 0
        BY DEF NoQuota
      <3>. DEFINE u0 == old.used[0]
                  u1 == old.used[1]
                  u2 == old.used[2]
                  t == old.total
      <3>2. u0 \in Nat /\ u1 \in Nat /\ u2 \in Nat /\ t \in Nat /\ t <= 1 /\ t = u0 + u1 + u2
        BY <1>1, <1>2, <1>4, ClassMembers
      <3>3. /\ c = 0 => u0 = 1 /\ u1 = 0 /\ u2 = 0
            /\ c = 1 => u0 = 0 /\ u1 = 1 /\ u2 = 0
            /\ c = 2 => u0 = 0 /\ u1 = 0 /\ u2 = 1
        <4>1. /\ c = 0 => u0 >= 1
              /\ c = 1 => u1 >= 1
              /\ c = 2 => u2 >= 1
          BY <1>3
        <4>. HIDE DEF u0, u1, u2, t
        <4>. QED
          BY <3>2, <4>1
      <3>. QED
        BY <3>1, <3>3, ClassMembers
    <2>4. \A x \in Peers, d \in PriorityClass :
            QuotaOf(x)'.used[d] =
                IF x = p /\ d = c THEN QuotaOf(x).used[d] - 1 ELSE QuotaOf(x).used[d]
      <3>. HIDE DEF old
      <3>. QED
        BY <2>2, <2>3
    <2>. QED
      BY <2>1, <2>4 DEF TypeOK, QuotaCoversQueued
  <1>5. CASE ~(old.total - 1 <= 0)
    <2>1. quota' = [quota EXCEPT ![p] = new]
      BY <1>5 DEF Refund
    <2>2. /\ new \in Quota /\ new.total = old.total - 1
          /\ \A d \in PriorityClass :
                  new.used[d] = IF d = c THEN old.used[d] - 1 ELSE old.used[d]
      <3>. HIDE DEF old
      <3>. QED
        BY <1>1, <1>3 DEF Quota
    <2>3. /\ new.total = new.used[0] + new.used[1] + new.used[2]
          /\ new.total <= MaxPerPeer
          /\ \A d \in PriorityClass : new.used[d] <= MaxClass[d]
      <3>. HIDE DEF old, new
      <3>. QED
        BY <1>1, <1>2, <1>3, <2>2, ClassMembers, OptionsNormalized
    <2>4. /\ DOMAIN quota' = DOMAIN quota
          /\ quota'[p] = new
          /\ \A x \in DOMAIN quota \ {p} : quota'[x] = quota[x]
      BY <2>1
    <2>5. /\ \A x \in Peers \ {p} : QuotaOf(x)' = QuotaOf(x)
          /\ QuotaOf(p)' = new
          /\ QuotaOf(p) = old
      BY <2>4 DEF QuotaOf
    <2>6. \A x \in Peers, d \in PriorityClass :
            QuotaOf(x)'.used[d] =
                IF x = p /\ d = c THEN QuotaOf(x).used[d] - 1 ELSE QuotaOf(x).used[d]
      <3>. HIDE DEF old, new
      <3>. QED
        BY <2>2, <2>5
    <2>. HIDE DEF old, new
    <2>7. \A x \in DOMAIN quota' : quota'[x] \in Quota
      BY <2>2, <2>4 DEF TypeOK
    <2>8. \A x \in DOMAIN quota' :
            /\ quota'[x].total = quota'[x].used[0] + quota'[x].used[1] + quota'[x].used[2]
            /\ quota'[x].total <= MaxPerPeer
            /\ \A d \in PriorityClass : quota'[x].used[d] <= MaxClass[d]
      BY <2>3, <2>4 DEF QuotaCoversQueued
    <2>. QED
      BY <2>4, <2>6, <2>7, <2>8
  <1>. QED
    BY <1>4, <1>5

\* Next preserves the invariant: the batch it hands out is charged to its peer,
\* so the refund is well defined.
LEMMA DequeueIInv ==
    ASSUME SchedulerInv, Dequeue
    PROVE  SchedulerInv'
  <1>0. TypeOK /\ QueueBounded /\ QuotaCoversQueued
    BY DEF SchedulerInv
  <1>1. PICK i \in 0 .. PatternLen - 1 :
            /\ FirstTurn(i)
            /\ queue' = [queue EXCEPT ![Slot(i)] = Tail(@)]
            /\ quota' = Refund(Head(queue[Slot(i)]).peer, Slot(i))
            /\ patIdx' = (patIdx + i + 1) % PatternLen
    BY Zenon DEF Dequeue
  <1>. DEFINE c == Slot(i)
              q == queue[c]
              p == Head(q).peer
  <1>2. c \in PriorityClass
    BY <1>0, SlotType
  <1>3. q \in Seq(Item) /\ q # <<>> /\ queue \in [PriorityClass -> Seq(Item)]
    BY <1>0, <1>1, <1>2 DEF FirstTurn, TypeOK
  <1>4. p \in Peers /\ Tail(q) \in Seq(Item) /\ Len(Tail(q)) = Len(q) - 1
    <2>1. Head(q) \in Item /\ Tail(q) \in Seq(Item) /\ Len(Tail(q)) = Len(q) - 1
      BY Zenon, <1>3, HeadTailProperties
    <2>. QED
      BY <2>1 DEF Item
  <1>5. /\ queue' \in [PriorityClass -> Seq(Item)]
        /\ queue'[c] = Tail(q)
        /\ \A d \in PriorityClass \ {c} : queue'[d] = queue[d]
    BY <1>1, <1>2, <1>3, <1>4
  <1>. HIDE DEF c, q, p
  <1>6. \A x : /\ QueuedOf(Tail(q), x) \in Nat
               /\ QueuedOf(q, x) \in Nat
               /\ QueuedOf(Tail(q), x) <= QueuedOf(q, x) - (IF p = x THEN 1 ELSE 0)
    BY Zenon, <1>3, <1>4, QueuedAtFinite, QueuedOfTail DEF p
  <1>7. QuotaOf(p).used[c] >= 1
    <2>1. QueuedOf(q, p) >= 1
      BY <1>6
    <2>2. QueuedOf(q, p) <= QuotaOf(p).used[c]
      BY <1>0, <1>2, <1>4 DEF QuotaCoversQueued, q
    <2>3. QueuedOf(q, p) \in Nat /\ QuotaOf(p).used[c] \in Nat
      BY <1>0, <1>2, <1>6, QuotaOfType
    <2>. QED
      BY <2>1, <2>2, <2>3
  <1>8. p \in DOMAIN quota /\ quota[p].used[c] >= 1
    BY <1>2, <1>7 DEF QuotaOf, NoQuota
  <1>9. quota' = Refund(p, c)
    BY <1>1 DEF p, q, c
  <1>10. /\ DOMAIN quota' \subseteq DOMAIN quota
         /\ \A x \in DOMAIN quota' : quota'[x] \in Quota
         /\ \A x \in DOMAIN quota' :
                /\ quota'[x].total = quota'[x].used[0] + quota'[x].used[1] + quota'[x].used[2]
                /\ quota'[x].total <= MaxPerPeer
                /\ \A d \in PriorityClass : quota'[x].used[d] <= MaxClass[d]
         /\ \A x \in Peers, d \in PriorityClass :
                QuotaOf(x)'.used[d] =
                    IF x = p /\ d = c THEN QuotaOf(x).used[d] - 1 ELSE QuotaOf(x).used[d]
    BY Zenon, <1>0, <1>2, <1>8, <1>9, RefundFacts
  <1>11. TypeOK'
    <2>1. patIdx' \in 0 .. PatternLen - 1
      <3>1. patIdx + i + 1 \in Nat
        BY <1>0, PatternType DEF TypeOK
      <3>. QED
        BY <1>1, <3>1, Wrap
    <2>. QED
      BY <1>0, <1>5, <1>10, <2>1 DEF TypeOK
  <1>12. QueueBounded'
    <2>. DEFINE n0 == Len(queue[0])
                n1 == Len(queue[1])
                n2 == Len(queue[2])
                r0 == Len(queue'[0])
                r1 == Len(queue'[1])
                r2 == Len(queue'[2])
    <2>1. \A d \in PriorityClass : Len(queue'[d]) \in Nat /\ Len(queue[d]) \in Nat
      BY <1>3, <1>5, LenProperties
    <2>2. \A d \in PriorityClass : Len(queue'[d]) <= Len(queue[d])
      <3>1. Len(queue'[c]) = Len(queue[c]) - 1
        BY <1>4, <1>5 DEF q
      <3>2. ASSUME NEW d \in PriorityClass
            PROVE  Len(queue'[d]) <= Len(queue[d])
        <4>. DEFINE n == Len(queue[d])
                    r == Len(queue'[d])
        <4>1. n \in Nat /\ r \in Nat
          BY <2>1
        <4>2. r = n \/ r = n - 1
          BY Zenon, <1>5, <3>1
        <4>. HIDE DEF n, r
        <4>3. r <= n
          BY <4>1, <4>2
        <4>. QED
          BY <4>3 DEF n, r
      <3>. QED
        BY <3>2
    <2>3. /\ n0 \in Nat /\ n1 \in Nat /\ n2 \in Nat
          /\ r0 \in Nat /\ r1 \in Nat /\ r2 \in Nat
          /\ r0 <= n0 /\ r1 <= n1 /\ r2 <= n2
      BY <2>1, <2>2, ClassMembers
    <2>4. QueuedTotal = n0 + n1 + n2 /\ QueuedTotal' = r0 + r1 + r2
      BY Zenon DEF QueuedTotal, PriorityCritical, PriorityNormal, PriorityBackground
    <2>5. QueuedTotal <= MaxTotal
      BY <1>0 DEF QueueBounded
    <2>6. QueuedTotal' <= MaxTotal
      <3>. HIDE DEF n0, n1, n2, r0, r1, r2
      <3>. QED
        BY <2>3, <2>4, <2>5, OptionsNormalized
    <2>. QED
      BY <2>6 DEF QueueBounded
  <1>13. QuotaCoversQueued'
    <2>1. ASSUME NEW x \in Peers, NEW d \in PriorityClass
          PROVE  QueuedOf(queue'[d], x) <= QuotaOf(x)'.used[d]
      <3>1. QuotaOf(x)'.used[d] =
                IF x = p /\ d = c THEN QuotaOf(x).used[d] - 1 ELSE QuotaOf(x).used[d]
        BY Zenon, <1>10
      <3>2. QueuedOf(queue[d], x) <= QuotaOf(x).used[d]
        BY <1>0 DEF QuotaCoversQueued
      <3>3. QueuedOf(queue[d], x) \in Nat
        BY <1>3, QueuedAtFinite
      <3>4. QuotaOf(x).used[d] \in Nat
        BY <1>0, QuotaOfType
      <3>5. CASE d # c
        BY <1>5, <3>1, <3>2, <3>5
      <3>6. CASE d = c
        <4>1. queue'[d] = Tail(q) /\ queue[d] = q
          BY <1>5, <3>6 DEF q
        <4>2. QueuedOf(Tail(q), x) <= QueuedOf(q, x) - (IF p = x THEN 1 ELSE 0)
          BY <1>6
        <4>3. QueuedOf(Tail(q), x) \in Nat /\ QueuedOf(q, x) \in Nat
          BY <1>6
        <4>. QED
          BY <3>1, <3>2, <3>4, <3>6, <4>1, <4>2, <4>3
      <3>. QED
        BY <3>5, <3>6
    <2>. QED
      BY Zenon, <1>10, <2>1 DEF QuotaCoversQueued
  <1>. QED
    BY <1>11, <1>12, <1>13 DEF SchedulerInv

-----------------------------------------------------------------------------
\* Every step preserves the invariant.
LEMMA NextIInv ==
    ASSUME SchedulerInv, [Next]_vars
    PROVE  SchedulerInv'
  <1>1. CASE Next
    <2>1. ASSUME NEW p \in Peers, NEW cls \in PriorityClass, NEW m \in Msgs, Enqueue(p, cls, m)
          PROVE  SchedulerInv'
      BY <2>1, AcceptIInv, RefuseIInv DEF Enqueue
    <2>. QED
      BY <1>1, <2>1, DequeueIInv DEF Next
  <1>2. CASE UNCHANGED vars
    BY Zenon, <1>2 DEF vars, SchedulerInv, TypeOK, QueueBounded, QueuedTotal, QuotaCoversQueued, QuotaOf, QueuedOf
  <1>. QED
    BY <1>1, <1>2

\* The scheduler's accounting: the queues stay within maxTotal, and every queued
\* batch is charged to its peer within the limits per class and per peer, for
\* every number of peers and every normalized limit and weight.
THEOREM SchedulerInvariant == Spec => []SchedulerInv
  <1>1. Init => SchedulerInv
    BY InitIInv
  <1>2. SchedulerInv /\ [Next]_vars => SchedulerInv'
    BY NextIInv
  <1>. QED
    BY <1>1, <1>2, PTL DEF Spec

\* A queued critical batch leaves the scheduler only through Next, in the order
\* it was accepted: Enqueue's eviction never takes one.
THEOREM CriticalBatchesKept == Spec => CriticalNeverEvicted
  <1>. DEFINE Kept ==
                LET q == queue[PriorityCritical]
                    r == queue'[PriorityCritical]
                IN  \/ r = q
                    \/ \E it \in Item : r = Append(q, it)
                    \/ Dequeue /\ q # <<>> /\ r = Tail(q)
  <1>1. ASSUME TypeOK, NEW p \in Peers, NEW cls \in PriorityClass, NEW m \in Msgs,
               EnqueueAccept(p, cls, m)
        PROVE  Kept
    <2>. DEFINE it == [peer |-> p, msg |-> m]
    <2>1. PICK c \in PriorityClass : queue' = [Evicted EXCEPT ![c] = Append(@, it)]
      BY Zenon, <1>1 DEF EnqueueAccept
    <2>2. Evicted \in [PriorityClass -> Seq(Item)] /\ Evicted[PriorityCritical] = queue[PriorityCritical]
      BY <1>1, EvictedFacts
    <2>3. it \in Item /\ PriorityCritical \in PriorityClass
      BY ClassMembers DEF Item
    <2>. HIDE DEF it
    <2>. QED
      BY Zenon, <2>1, <2>2, <2>3
  <1>2. ASSUME TypeOK, NEW p \in Peers, NEW cls \in PriorityClass, EnqueueRefuse(p, cls)
        PROVE  Kept
    BY <1>2, EvictedFacts DEF EnqueueRefuse
  <1>3. ASSUME TypeOK, Dequeue
        PROVE  Kept
    <2>1. PICK i \in 0 .. PatternLen - 1 :
              FirstTurn(i) /\ queue' = [queue EXCEPT ![Slot(i)] = Tail(@)]
      BY Zenon, <1>3 DEF Dequeue
    <2>2. Slot(i) \in PriorityClass /\ queue[Slot(i)] # <<>>
      BY <1>3, <2>1, SlotType DEF FirstTurn
    <2>3. queue \in [PriorityClass -> Seq(Item)] /\ PriorityCritical \in PriorityClass
      BY <1>3, ClassMembers DEF TypeOK
    <2>. QED
      BY <1>3, <2>1, <2>2, <2>3
  <1>4. TypeOK /\ [Next]_vars => [Kept]_vars
    BY <1>1, <1>2, <1>3 DEF Next, Enqueue
  <1>5. SchedulerInv => TypeOK
    BY DEF SchedulerInv
  <1>6. Spec => [][Kept]_vars
    BY <1>4, <1>5, SchedulerInvariant, PTL DEF Spec
  <1>. QED
    BY <1>6 DEF CriticalNeverEvicted

-----------------------------------------------------------------------------
(* No class is starved. *)

\* A set of natural numbers that is not empty has a least one.
LEMMA Least ==
    ASSUME NEW T \in SUBSET Nat, T # {}
    PROVE  \E x \in T : \A y \in T : x <= y
  <1>1. IsWellFoundedOn(OpToRel(<, Nat), Nat)
    BY Zenon, NatLessThanWellFounded
  <1>2. PICK x \in T : \A y \in T : ~(<<y, x>> \in OpToRel(<, Nat))
    BY Zenon, <1>1, WFMin
  <1>3. \A y \in T : ~(y < x)
    BY Zenon, <1>2 DEF OpToRel
  <1>. QED
    BY <1>3

\* A position that Next advances past the end of the pattern starts over.
LEMMA Around ==
    ASSUME NEW k \in 0 .. PatternLen - 1
    PROVE  k % PatternLen = k /\ (k + PatternLen) % PatternLen = k
  <1>1. ASSUME NEW N \in Nat \ {0}, NEW n \in 0 .. N - 1
        PROVE  n % N = n /\ (n + N) % N = n
    BY <1>1
  <1>. QED
    BY <1>1, PatternType

\* The class whose turn comes i positions after p, and the turns until class c is
\* tried from p on.
TurnAt(p, i) == pattern[(p + i) % PatternLen]

FirstAt(p, c) ==
    CHOOSE i \in 0 .. PatternLen - 1 :
        TurnAt(p, i) = c /\ \A j \in 0 .. i - 1 : TurnAt(p, j) # c

\* From every position each class has a turn, since its weight is not zero.
LEMMA SomeTurn ==
    ASSUME NEW p \in 0 .. PatternLen - 1, NEW c \in PriorityClass
    PROVE  \E i \in 0 .. PatternLen - 1 : TurnAt(p, i) = c
  <1>1. PICK k \in 0 .. PatternLen - 1 : pattern[k] = c
    <2>. DEFINE k == IF c = PriorityCritical THEN 0
                     ELSE IF c = PriorityNormal THEN ClassWeight[PriorityCritical]
                     ELSE ClassWeight[PriorityCritical] + ClassWeight[PriorityNormal]
    <2>1. k \in 0 .. PatternLen - 1 /\ pattern[k] = c
      BY OptionsNormalized DEF PatternLen, pattern, PriorityClass,
         PriorityCritical, PriorityNormal, PriorityBackground
    <2>. QED
      BY <2>1
  <1>2. CASE k >= p
    <2>1. k - p \in 0 .. PatternLen - 1 /\ p + (k - p) = k
      BY <1>2, PatternType
    <2>2. k % PatternLen = k
      BY Around, PatternType
    <2>. QED
      BY <1>1, <2>1, <2>2 DEF TurnAt
  <1>3. CASE k < p
    <2>1. k - p + PatternLen \in 0 .. PatternLen - 1 /\ p + (k - p + PatternLen) = k + PatternLen
      BY <1>3, PatternType
    <2>2. (k + PatternLen) % PatternLen = k
      BY Around, PatternType
    <2>. QED
      BY <1>1, <2>1, <2>2 DEF TurnAt
  <1>. QED
    BY <1>2, <1>3, PatternType

\* The first of them is the distance.
LEMMA FirstAtIs ==
    ASSUME NEW p \in 0 .. PatternLen - 1, NEW c \in PriorityClass
    PROVE  /\ FirstAt(p, c) \in 0 .. PatternLen - 1
           /\ TurnAt(p, FirstAt(p, c)) = c
           /\ \A j \in 0 .. FirstAt(p, c) - 1 : TurnAt(p, j) # c
  <1>. DEFINE T == {i \in 0 .. PatternLen - 1 : TurnAt(p, i) = c}
  <1>1. T \in SUBSET Nat /\ T # {}
    <2>1. PICK i \in 0 .. PatternLen - 1 : TurnAt(p, i) = c
      BY SomeTurn
    <2>2. i \in T
      BY <2>1
    <2>3. 0 .. PatternLen - 1 \subseteq Nat
      BY PatternType
    <2>. QED
      BY <2>2, <2>3
  <1>2. PICK i \in T : \A j \in T : i <= j
    BY Zenon, <1>1, Least
  <1>3. i \in 0 .. PatternLen - 1 /\ TurnAt(p, i) = c
    BY <1>2
  <1>4. \A j \in 0 .. i - 1 : TurnAt(p, j) # c
    BY <1>2, <1>3, PatternType
  <1>. QED
    BY <1>3, <1>4 DEF FirstAt

\* Next skips turns of empty classes only: a class that has something queued is
\* served, or its first turn is as much closer as the pattern has advanced.
LEMMA Closer ==
    ASSUME TypeOK, Dequeue, NEW c \in PriorityClass, queue[c] # <<>>
    PROVE  queue'[c] = Tail(queue[c]) \/ Distance(c)' < Distance(c)
  <1>0. patIdx \in 0 .. PatternLen - 1 /\ queue \in [PriorityClass -> Seq(Item)]
    BY DEF TypeOK
  <1>1. PICK i \in 0 .. PatternLen - 1 :
            /\ FirstTurn(i)
            /\ queue' = [queue EXCEPT ![Slot(i)] = Tail(@)]
            /\ patIdx' = (patIdx + i + 1) % PatternLen
    BY Zenon DEF Dequeue
  <1>2. CASE c = Slot(i)
    BY <1>0, <1>1, <1>2
  <1>3. CASE c # Slot(i)
    <2>. DEFINE P == PatternLen
                d == FirstAt(patIdx, c)
    <2>1. /\ d \in 0 .. P - 1 /\ Slot(d) = c
      BY <1>0, FirstAtIs DEF Slot, TurnAt
    <2>2. d > i
      <3>1. d \notin 0 .. i - 1
        BY <1>1, <2>1 DEF FirstTurn
      <3>2. d # i
        BY <1>3, <2>1
      <3>. QED
        BY <2>1, <3>1, <3>2, PatternType
    <2>3. patIdx' \in 0 .. P - 1 /\ d - i - 1 \in 0 .. P - 1
      <3>1. patIdx + i + 1 \in Nat
        BY <1>0, PatternType
      <3>2. patIdx' \in 0 .. P - 1
        BY <1>1, <3>1, Wrap
      <3>. HIDE DEF d
      <3>3. d - i - 1 \in 0 .. P - 1
        BY <2>1, <2>2, PatternType
      <3>. QED
        BY <3>2, <3>3
    <2>4. (patIdx' + (d - i - 1)) % P = (patIdx + d) % P
      <3>1. CASE patIdx + i + 1 < P
        <4>0. patIdx + i + 1 \in 0 .. P - 1
          BY <1>0, <3>1, PatternType
        <4>1. patIdx' = patIdx + i + 1
          BY <1>1, <4>0, Around
        <4>2. patIdx' + (d - i - 1) = patIdx + d
          BY <1>0, <2>1, <4>1, PatternType
        <4>. QED
          BY <4>2
      <3>2. CASE patIdx + i + 1 >= P
        <4>. DEFINE k == patIdx + i + 1 - P
        <4>1. k \in 0 .. P - 1 /\ patIdx + i + 1 = k + P
          BY <1>0, <3>2, PatternType
        <4>2. patIdx' = k
          BY <1>1, <4>1, Around
        <4>3. k + (d - i - 1) \in 0 .. P - 1 /\ patIdx + d = (k + (d - i - 1)) + P
          BY <1>0, <2>1, <2>3, <4>1, PatternType
        <4>. QED
          BY <4>2, <4>3, Around
      <3>. QED
        BY <1>0, <3>1, <3>2, PatternType
    <2>5. TurnAt(patIdx', d - i - 1) = c
      BY <2>1, <2>4 DEF TurnAt, Slot
    <2>6. FirstAt(patIdx', c) < d
      <3>1. /\ FirstAt(patIdx', c) \in 0 .. P - 1
            /\ \A j \in 0 .. FirstAt(patIdx', c) - 1 : TurnAt(patIdx', j) # c
        BY <2>3, FirstAtIs
      <3>2. ~(d - i - 1 < FirstAt(patIdx', c))
        BY <2>3, <2>5, <3>1
      <3>. QED
        BY <2>1, <2>3, <3>1, <3>2, PatternType
    <2>7. Distance(c) = d /\ Distance(c)' = FirstAt(patIdx', c)
      BY Zenon DEF Distance, FirstAt, TurnAt, Slot
    <2>. QED
      BY <2>6, <2>7
  <1>. QED
    BY <1>2, <1>3

\* While a class has something queued, every call of Next serves it or brings its
\* turn closer, for all positive weights: no class is starved by another.
THEOREM NoClassStarved == Spec => BoundedBypass
  <1>. DEFINE Closing ==
                Dequeue =>
                    \A c \in PriorityClass :
                        queue[c] # <<>> =>
                            \/ queue'[c] = Tail(queue[c])
                            \/ Distance(c)' < Distance(c)
  <1>1. TypeOK => [Closing]_vars
    BY Closer
  <1>2. SchedulerInv => TypeOK
    BY DEF SchedulerInv
  <1>3. Spec => [][Closing]_vars
    BY <1>1, <1>2, SchedulerInvariant, PTL
  <1>. QED
    BY <1>3 DEF BoundedBypass

=============================================================================
