------------------------- MODULE PriorityScheduler -------------------------
(***************************************************************************)
(* The inbound scheduler of pkg/ledgersync/service.go.  Event batches that  *)
(* arrived from peers wait in three FIFO queues, one per priority class;    *)
(* Enqueue charges them to a per-peer quota and Next hands them out in a    *)
(* weighted round robin.  Both run under the scheduler's mutex, so each is  *)
(* one atomic action.                                                       *)
(***************************************************************************)
EXTENDS Integers, Sequences, FiniteSets

CONSTANTS
    Peers,       \* peer identifiers, after trimming ("unknown" may be one of them)
    Msgs,        \* event batches
    MaxTotal,    \* SchedulerMaxQueuedTotal
    MaxPerPeer,  \* SchedulerMaxQueuedPerPeer
    MaxClass,    \* SchedulerMaxQueuedCritical / Normal / Bg, by class
    ClassWeight  \* SchedulerCriticalWeight / Normal / Background, by class

PriorityCritical == 0
PriorityNormal == 1
PriorityBackground == 2
PriorityClass == 0 .. 2

\* What Options.normalize guarantees of the limits and the weights.
ASSUME OptionsNormalized ==
    /\ MaxTotal \in Nat \ {0}
    /\ MaxPerPeer \in 1 .. MaxTotal
    /\ MaxClass \in [PriorityClass -> Nat \ {0}]
    /\ ClassWeight \in [PriorityClass -> Nat \ {0}]

VARIABLES
    queue,  \* qC, qN, qB: the queue of each class
    quota,  \* peers: the quota record of every peer that has one
    patIdx  \* position in the service pattern

vars == <<queue, quota, patIdx>>

-----------------------------------------------------------------------------
Item == [peer : Peers, msg : Msgs]

\* peerQuota: what a peer is charged, in total and per class (c, n, b).
Quota == [total : Nat, used : [PriorityClass -> Nat]]
NoQuota == [total |-> 0, used |-> [c \in PriorityClass |-> 0]]

\* The pattern the constructor lays out: all critical turns, then the normal
\* ones, then the background ones.
PatternLen ==
    ClassWeight[PriorityCritical] + ClassWeight[PriorityNormal] + ClassWeight[PriorityBackground]

pattern ==
    [i \in 0 .. PatternLen - 1 |->
        IF i < ClassWeight[PriorityCritical] THEN PriorityCritical
        ELSE IF i < ClassWeight[PriorityCritical] + ClassWeight[PriorityNormal]
             THEN PriorityNormal
             ELSE PriorityBackground]

QueuedTotal ==
    Len(queue[PriorityCritical]) + Len(queue[PriorityNormal]) + Len(queue[PriorityBackground])

\* The quota of a peer, and the fresh record Enqueue inserts for a peer without one.
QuotaOf(p) == IF p \in DOMAIN quota THEN quota[p] ELSE NoQuota

WithQuota(p, q) ==
    [x \in DOMAIN quota \cup {p} |-> IF x = p THEN q ELSE quota[x]]

-----------------------------------------------------------------------------
Init ==
    /\ queue = [c \in PriorityClass |-> <<>>]
    /\ quota = [p \in {} |-> NoQuota]
    /\ patIdx = 0

\* Class c has room for one more batch of p.
Fits(p, c) ==
    /\ QuotaOf(p).used[c] < MaxClass[c]
    /\ QuotaOf(p).total < MaxPerPeer

\* A batch whose class is full is demoted to the next lower class that has room.
Admitted(p, cls, c) ==
    /\ c \in cls .. PriorityBackground
    /\ Fits(p, c)
    /\ \A d \in cls .. c - 1 : ~Fits(p, d)

\* How many batches have to go before one more is within maxTotal.
Excess == IF QueuedTotal >= MaxTotal THEN QueuedTotal - MaxTotal + 1 ELSE 0

Drop(q, n) == SubSeq(q, n + 1, Len(q))

\* Defect: eviction takes the oldest batch of any class, critical ones first.
Evicted_Oldest ==
    LET c == IF queue[PriorityCritical] # <<>> THEN PriorityCritical ELSE PriorityBackground
    IN  IF Excess > 0 THEN [queue EXCEPT ![c] = Drop(@, 1)] ELSE queue

\* Eviction in favour of a critical batch: background first, then normal, in
\* queue order.  The quota of the evicted batch's peer is left as it is.
Evicted ==
    LET fromB == IF Excess <= Len(queue[PriorityBackground])
                 THEN Excess ELSE Len(queue[PriorityBackground])
        fromN == IF Excess - fromB <= Len(queue[PriorityNormal])
                 THEN Excess - fromB ELSE Len(queue[PriorityNormal])
    IN  [queue EXCEPT ![PriorityBackground] = Drop(@, fromB),
                      ![PriorityNormal] = Drop(@, fromN)]

\* Eviction can make enough room.
CanEvict == Excess <= Len(queue[PriorityBackground]) + Len(queue[PriorityNormal])

Charge(p, c) ==
    WithQuota(p, [total |-> QuotaOf(p).total + 1,
                  used |-> [QuotaOf(p).used EXCEPT ![c] = @ + 1]])

\* Enqueue returns true: the batch is queued in class c and charged to p.
EnqueueAccept(p, cls, m) ==
    \E c \in PriorityClass :
        /\ Admitted(p, cls, c)
        /\ Excess = 0 \/ (c = PriorityCritical /\ CanEvict)
        /\ queue' = [Evicted EXCEPT ![c] = Append(@, [peer |-> p, msg |-> m])]
        /\ quota' = Charge(p, c)
        /\ UNCHANGED patIdx

\* Enqueue returns false: no class has room, or the scheduler is full.  What an
\* unsuccessful eviction popped stays popped, and p keeps a quota record.
EnqueueRefuse(p, cls) ==
    /\ \/ /\ \A c \in PriorityClass : ~Admitted(p, cls, c)
          /\ UNCHANGED queue
       \/ \E c \in PriorityClass :
            /\ Admitted(p, cls, c)
            /\ Excess > 0
            /\ \/ c # PriorityCritical /\ UNCHANGED queue
               \/ c = PriorityCritical /\ ~CanEvict /\ queue' = Evicted
    /\ quota' = WithQuota(p, QuotaOf(p))
    /\ UNCHANGED patIdx

Enqueue(p, cls, m) == EnqueueAccept(p, cls, m) \/ EnqueueRefuse(p, cls)

\* The class whose turn comes after i further positions of the pattern.
Slot(i) == pattern[(patIdx + i) % PatternLen]

\* The first turn, from patIdx on, of a class that has something queued.
FirstTurn(i) ==
    /\ i \in 0 .. PatternLen - 1
    /\ queue[Slot(i)] # <<>>
    /\ \A j \in 0 .. i - 1 : queue[Slot(j)] = <<>>

\* Defect: the quota record is deleted as soon as its class is empty.
Refund_EarlyDelete(p, c) ==
    IF quota[p].used[c] - 1 <= 0 THEN [x \in DOMAIN quota \ {p} |-> quota[x]]
    ELSE [quota EXCEPT ![p] = [total |-> quota[p].total - 1,
                               used |-> [quota[p].used EXCEPT ![c] = @ - 1]]]

\* Next gives a dequeued batch of class c back to its peer's quota; a quota
\* that reaches zero is deleted.
Refund(p, c) ==
    LET total == quota[p].total - 1
    IN  IF p \notin DOMAIN quota THEN quota
        ELSE IF total <= 0 THEN [x \in DOMAIN quota \ {p} |-> quota[x]]
        ELSE [quota EXCEPT ![p] = [total |-> total,
                                   used |-> [quota[p].used EXCEPT ![c] = @ - 1]]]

\* Defect: every call starts again at the head of the pattern.
Dequeue_Restart ==
    \E i \in 0 .. PatternLen - 1 :
        /\ FirstTurn(i)
        /\ queue' = [queue EXCEPT ![Slot(i)] = Tail(@)]
        /\ quota' = Refund(Head(queue[Slot(i)]).peer, Slot(i))
        /\ patIdx' = 0

\* Next: the scheduler hands out one batch.
Dequeue ==
    \E i \in 0 .. PatternLen - 1 :
        /\ FirstTurn(i)
        /\ queue' = [queue EXCEPT ![Slot(i)] = Tail(@)]
        /\ quota' = Refund(Head(queue[Slot(i)]).peer, Slot(i))
        /\ patIdx' = (patIdx + i + 1) % PatternLen

Next ==
    \/ \E p \in Peers, cls \in PriorityClass, m \in Msgs : Enqueue(p, cls, m)
    \/ Dequeue

Spec == Init /\ [][Next]_vars

-----------------------------------------------------------------------------
TypeOK ==
    /\ queue \in [PriorityClass -> Seq(Item)]
    /\ DOMAIN quota \subseteq Peers
    /\ \A p \in DOMAIN quota : quota[p] \in Quota
    /\ patIdx \in 0 .. PatternLen - 1

\* The number of batches of peer p in queue q.
QueuedOf(q, p) == Cardinality({i \in 1 .. Len(q) : q[i].peer = p})

\* The queues together never hold more than maxTotal batches, whatever mixture
\* of demotions and evictions Enqueue went through.
QueueBounded == QueuedTotal <= MaxTotal

\* Every queued batch is charged to its peer: in each class the quota counts at
\* least the batches queued there, the total is the sum of the classes, and no
\* quota exceeds the limits.  Hence one peer never holds more than maxPerPeer of
\* the queue, and Next never deletes the quota of a peer with queued batches.
QuotaCoversQueued ==
    /\ \A p \in Peers, c \in PriorityClass :
            QueuedOf(queue[c], p) <= QuotaOf(p).used[c]
    /\ \A p \in DOMAIN quota :
            /\ quota[p].total = quota[p].used[0] + quota[p].used[1] + quota[p].used[2]
            /\ quota[p].total <= MaxPerPeer
            /\ \A c \in PriorityClass : quota[p].used[c] <= MaxClass[c]

\* The three together: they are inductive, so Enqueue and Next keep them from any
\* state that has them.
SchedulerInv == TypeOK /\ QueueBounded /\ QuotaCoversQueued

\* A queued critical batch is only removed by being handed out: eviction in
\* Enqueue takes background and normal batches, and handing out is FIFO.
CriticalNeverEvicted ==
    [][ LET q == queue[PriorityCritical]
            r == queue'[PriorityCritical]
        IN  \/ r = q
            \/ \E it \in Item : r = Append(q, it)
            \/ Dequeue /\ q # <<>> /\ r = Tail(q) ]_vars

\* Turns until class c is tried again.
Distance(c) ==
    CHOOSE i \in 0 .. PatternLen - 1 :
        Slot(i) = c /\ \A j \in 0 .. i - 1 : Slot(j) # c

\* No class is passed over for ever: while a class has something queued, every
\* call of Next serves it or brings its turn closer, so it waits for fewer calls
\* than the pattern is long.
BoundedBypass ==
    [][ Dequeue =>
            \A c \in PriorityClass :
                queue[c] # <<>> =>
                    \/ queue'[c] = Tail(queue[c])
                    \/ Distance(c)' < Distance(c) ]_vars
=============================================================================
