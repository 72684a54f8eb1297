------------------------------ MODULE DevSync ------------------------------
(***************************************************************************)
(* Replication of one person's events between their devices (pkg/devsync   *)
(* behind the Sync* calls of pkg/mobile).  Every call loads devsync.enc,   *)
(* changes the state and saves it.  Batches travel over a relay that may   *)
(* delay, reorder, duplicate or lose them.                                 *)
(*                                                                         *)
(* The store keeps its events sorted by Lamport time, device and sequence  *)
(* number, so the events are a set here and the order is ByLamport.  The   *)
(* caps of 50000 events and 100000 seen ids are never reached.             *)
(***************************************************************************)
EXTENDS Integers, Sequences, FiniteSets, SequencesExt

CONSTANTS
    Devices,     \* device ids, integers: the store compares them
    Limit,       \* events in a batch
    MaxBackoff,  \* longest wait before an outbox retry
    OutboxTTL,   \* lifetime of an outbox item
    MaxSeq,      \* events a device records
    MaxBatches,  \* batches sent
    MaxTime,
    MaxRetries   \* failed sends

VARIABLES
    ds,          \* ds[i]: the State in device i's devsync.enc
    net,         \* batches on the relay
    now,
    retries,     \* failed sends so far
    discarded,   \* history: <<i, event>> refused by i without holding it
    viaOutbox    \* whether single events also travel from the outbox

vars == <<ds, net, now, retries, discarded, viaOutbox>>

NewState == [seq |-> 0, lamport |-> 0, events |-> {}, seen |-> {}, outbox |-> <<>>,
             cursors |-> [d \in Devices |-> 0]]

eventID(e) == <<e.dev, e.seq>>

ByLamport(e, f) ==
    \/ e.lamport < f.lamport
    \/ e.lamport = f.lamport /\ e.dev < f.dev
    \/ e.lamport = f.lamport /\ e.dev = f.dev /\ e.seq < f.seq

Larger(a, b) == IF a < b THEN b ELSE a

----------------------------------------------------------------------------
(* Recording *)

\* The event of device i's next Record; deps, a history field, holds the
\* ids of the events the device held when it recorded this one.
NewEvent(i, s) ==
    [dev |-> i, seq |-> s.seq + 1, lamport |-> Larger(s.lamport, s.seq + 1) + 1,
     deps |-> {eventID(e) : e \in s.events}]

Record(i, s, expiry) ==
    LET ev == NewEvent(i, s)
    IN  [s EXCEPT !.seq = ev.seq,
                  !.lamport = ev.lamport,
                  !.events = @ \cup {ev},
                  !.cursors[i] = ev.seq,
                  !.seen = @ \cup {eventID(ev)},
                  !.outbox = Append(@, [id |-> eventID(ev), retry |-> 0, at |-> now,
                                        expires |-> now + expiry])]

SyncRecordEvent(i) ==
    /\ ds[i].seq < MaxSeq
    /\ \E expiry \in {1, OutboxTTL} : ds' = [ds EXCEPT ![i] = Record(i, ds[i], expiry)]
    /\ UNCHANGED <<net, now, retries, discarded, viaOutbox>>

----------------------------------------------------------------------------
(* Batches *)

Batch(i, evs) == [from |-> i, events |-> evs, cursors |-> ds[i].cursors]

\* Mutant: a full batch takes the newest events instead of the oldest.
BuildBatchNewest(i, peerCursors) ==
    LET missing == {e \in ds[i].events : e.seq > peerCursors[e.dev]}
        evs == SetToSortSeq(missing, ByLamport)
    IN  Batch(i, SubSeq(evs, IF Len(evs) < Limit THEN 1 ELSE Len(evs) - Limit + 1, Len(evs)))

BuildBatch(i, peerCursors) ==
    LET missing == {e \in ds[i].events : e.seq > peerCursors[e.dev]}
        evs == SetToSortSeq(missing, ByLamport)
    IN  Batch(i, SubSeq(evs, 1, IF Len(evs) < Limit THEN Len(evs) ELSE Limit))

\* What i may know of j's cursors: nothing yet, what a batch said, or what
\* j's last SyncApplyBatch returned.
KnownCursors(j) ==
    {NewState.cursors, ds[j].cursors} \cup {b.cursors : b \in {x \in net : x.from = j}}

Send(b) ==
    /\ Cardinality(net) < MaxBatches
    /\ net' = net \cup {b}

SyncBuildBatch(i, j) ==
    /\ i # j
    /\ \E cur \in KnownCursors(j) :
        /\ BuildBatch(i, cur).events # <<>>
        /\ Send(BuildBatch(i, cur))
    /\ UNCHANGED <<ds, now, retries, discarded, viaOutbox>>

\* Mutant: the receiver's clock does not catch up with the event's.
ApplyEventNoMerge(s, e) ==
    IF eventID(e) \in s.seen THEN s
    ELSE IF e.seq <= s.cursors[e.dev] THEN [s EXCEPT !.seen = @ \cup {eventID(e)}]
    ELSE [s EXCEPT !.lamport = @ + 1,
                   !.events = @ \cup {e},
                   !.cursors[e.dev] = e.seq,
                   !.seen = @ \cup {eventID(e)}]

ApplyEvent(s, e) ==
    IF eventID(e) \in s.seen THEN s
    ELSE IF e.seq <= s.cursors[e.dev] THEN [s EXCEPT !.seen = @ \cup {eventID(e)}]
    ELSE [s EXCEPT !.lamport = Larger(@, e.lamport) + 1,
                   !.events = @ \cup {e},
                   !.cursors[e.dev] = e.seq,
                   !.seen = @ \cup {eventID(e)}]

ApplyBatch(s, b) == FoldLeft(ApplyEvent, s, b.events)

\* A batch stays on the relay until Lose: it may be applied again.
SyncApplyBatch(i, b) ==
    LET s == ApplyBatch(ds[i], b)
    IN  /\ b \in net
        /\ b.from # i
        /\ ds' = [ds EXCEPT ![i] = s]
        /\ discarded' = discarded \cup
              {<<i, e>> : e \in {x \in ToSet(b.events) :
                                    x \notin s.events /\ eventID(x) \in s.seen}}
        /\ UNCHANGED <<net, now, retries, viaOutbox>>

Lose(b) ==
    /\ net' = net \ {b}
    /\ UNCHANGED <<ds, now, retries, discarded, viaOutbox>>

----------------------------------------------------------------------------
(* The outbox *)

\* The positions of the items that are due.
Due(s) == {k \in DOMAIN s.outbox : /\ s.outbox[k].expires > now
                                   /\ s.outbox[k].at <= now
                                   /\ \E e \in s.events : eventID(e) = s.outbox[k].id}

NextOutbox(s) ==
    LET k == CHOOSE k \in Due(s) : \A l \in Due(s) : k <= l
    IN  CHOOSE e \in s.events : eventID(e) = s.outbox[k].id

AckEvent(s, id) == [s EXCEPT !.outbox = SelectSeq(@, LAMBDA it : it.id # id)]

Backoff(n) == IF 2^n < MaxBackoff THEN 2^n ELSE MaxBackoff

MarkEventRetry(s, id) ==
    [s EXCEPT !.outbox = [k \in DOMAIN @ |->
        IF @[k].id = id
        THEN [@[k] EXCEPT !.retry = @ + 1, !.at = now + Backoff(s.outbox[k].retry + 1)]
        ELSE @[k]]]

\* The app sends the event SyncNextOutbox returned and acknowledges it...
SyncAckEvent(i) ==
    /\ viaOutbox
    /\ Due(ds[i]) # {}
    /\ Send(Batch(i, <<NextOutbox(ds[i])>>))
    /\ ds' = [ds EXCEPT ![i] = AckEvent(@, eventID(NextOutbox(ds[i])))]
    /\ UNCHANGED <<now, retries, discarded, viaOutbox>>

\* ... or could not send it and lets it wait.
SyncMarkEventRetry(i) ==
    /\ viaOutbox
    /\ retries < MaxRetries
    /\ Due(ds[i]) # {}
    /\ ds' = [ds EXCEPT ![i] = MarkEventRetry(@, eventID(NextOutbox(ds[i])))]
    /\ retries' = retries + 1
    /\ UNCHANGED <<net, now, discarded, viaOutbox>>

Tick ==
    /\ now < MaxTime
    /\ now' = now + 1
    /\ UNCHANGED <<ds, net, retries, discarded, viaOutbox>>

Init ==
    /\ ds = [i \in Devices |-> NewState]
    /\ net = {}
    /\ now = 0
    /\ retries = 0
    /\ discarded = {}
    /\ viaOutbox \in BOOLEAN

Next ==
    \/ \E i \in Devices : \/ SyncRecordEvent(i)
                          \/ SyncAckEvent(i)
                          \/ SyncMarkEventRetry(i)
                          \/ \E j \in Devices : SyncBuildBatch(i, j)
                          \/ \E b \in net : SyncApplyBatch(i, b)
    \/ \E b \in net : Lose(b)
    \/ Tick

Spec == Init /\ [][Next]_vars

----------------------------------------------------------------------------
(* Properties *)

\* Lamport times respect causality, which last-writer-wins needs: an event
\* recorded after another was applied (ApplyBatch merges the clock) has the
\* larger time, so no replica prefers the older write.
CausalLamport ==
    \A i \in Devices : \A e, f \in ds[i].events :
        eventID(f) \in e.deps => f.lamport < e.lamport

\* With batches alone, however they are delayed, repeated or lost, a cursor
\* stands for the events up to it: a device holds exactly the first
\* cursors[d] events of every device d, so BuildBatch's comparison with the
\* peer's cursors never skips one.
CursorIsPrefix ==
    ~viaOutbox =>
        \A i, d \in Devices :
            {e.seq : e \in {x \in ds[i].events : x.dev = d}} = 1..ds[i].cursors[d]

\* "Devices use a combination of MessageID and devsync.Seen maps to silently
\* discard duplicate deliveries" (doc/sync_persistence_design.md:47): an
\* event a device refuses is one it already holds.
OnlyDuplicatesDiscarded == discarded = {}
=============================================================================
