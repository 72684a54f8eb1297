----------------------------- MODULE RelaySync -----------------------------
(***************************************************************************)
(* Ledger events that travel through relay mailboxes                       *)
(* (pkg/ledgersync/service.go).  A sender publishes event batches to a     *)
(* mailbox, directly or through a hop that forwards them.  They are taken  *)
(* in one of two ways:                                                     *)
(*   "pull"  PullAndApplyFromRelay, which acknowledges what it took;       *)
(*   "wire"  TryApplyWirePlaintext, called by the daemon's pollers, one    *)
(*           per persona, which acknowledge whatever they handed over.     *)
(* Each mailbox is a peer of its own.  Takers share the scheduler and take *)
(* its lock once per Enqueue and once per Next.                            *)
(*                                                                         *)
(* A message carries at most one batch per priority class; its session id  *)
(* makes its plaintext unique.  Time is counted in rate windows.           *)
(***************************************************************************)
EXTENDS SecurityLayer, Sequences, SequencesExt

CONSTANTS
    Boxes,                                        \* mailboxes, one taker each
    MaxTotal, MaxPerPeer, MaxClass, ClassWeight,  \* the scheduler's limits
    Limit,             \* messages one pull asks for
    DrainMax,          \* batches one call drains
    MaxInboundMsgs, PenaltyBase, PenaltyMax, RecentMsgTTL,
    Shapes,            \* what may be published: type, parts, size, bad
    MaxPublished, MaxAckFailures

VARIABLES
    way,               \* "pull" or "wire"
    queue, quota, patIdx,
    hop, box,          \* messages at the hop and in the mailbox, oldest first
    gate,              \* gate[b]: peerState of the mailbox's peer
    trust,             \* trust[b]: its trust record
    call,              \* call[b]: the taker of b
    held, refused,     \* batches the ledger took, or refused
    overflow,          \* history: batches the scheduler turned away or evicted
    dropped,           \* history: messages turned away for good
    sent,              \* history: messages published
    ackFailures

sched == <<queue, quota, patIdx>>
vars == <<way, sched, hop, box, gate, trust, call, held, refused, overflow, dropped,
          sent, ackFailures>>

PriorityClass == 0 .. 2
Messages == {[mid |-> i, type |-> s.type, parts |-> s.parts, size |-> s.size, bad |-> s.bad] :
                i \in 1 .. MaxPublished, s \in Shapes}

S == INSTANCE PriorityScheduler WITH Peers <- Boxes, Msgs <- Messages

QueuedIn(q) == UNION {{<<it.msg, c>> : it \in ToSet(q[c])} : c \in PriorityClass}
Queued == QueuedIn(queue)

----------------------------------------------------------------------------
(* Publishing and forwarding *)

\* The relay gives every pushed message an id of its own.
Push(b, m) == box' = [box EXCEPT ![b] = Append(@, [id |-> <<m.mid, ackFailures>>, m |-> m])]

\* The batch a publisher is about to push.
NextBatch == {m \in Messages : m.mid = Cardinality(sent) + 1}

\* A publisher pushes one batch after the other; a failed push ends the
\* call, so what is on its way is what was pushed.
PublishEventsToRelay(b) ==
    /\ Cardinality(sent) < MaxPublished
    /\ \E m \in NextBatch : sent' = sent \cup {m} /\ Push(b, m)
    /\ UNCHANGED <<way, sched, hop, gate, trust, call, held, refused, overflow, dropped, ackFailures>>

\* The same through a hop: the outer layer is addressed to the hop, the
\* inner one to b.
PublishEventsToRelayMultiHop(b) ==
    /\ Cardinality(sent) < MaxPublished
    /\ \E m \in NextBatch : sent' = sent \cup {m} /\ hop' = [hop EXCEPT ![b] = Append(@, m)]
    /\ UNCHANGED <<way, sched, box, gate, trust, call, held, refused, overflow, dropped, ackFailures>>

\* The hop acknowledges after the push; a lost acknowledgement makes it
\* forward the message again.
ForwardRelayOnce(b) ==
    /\ hop[b] # <<>>
    /\ Push(b, Head(hop[b]))
    /\ \/ hop' = [hop EXCEPT ![b] = Tail(@)] /\ UNCHANGED ackFailures
       \/ ackFailures < MaxAckFailures /\ ackFailures' = ackFailures + 1 /\ UNCHANGED hop
    /\ UNCHANGED <<way, sched, gate, trust, call, held, refused, overflow, dropped, sent>>

----------------------------------------------------------------------------
(* The gate *)

NewGate == [inMsgs |-> 0, penalty |-> 0, left |-> 0, seen |-> [i \in 1 .. MaxPublished |-> 0]]

\* Mutant: a message during the penalty starts it anew.
allowInboundExtends(g) ==
    LET counted == [g EXCEPT !.inMsgs = @ + 1]
    IN  IF g.left > 0 THEN [ok |-> FALSE, g |-> [g EXCEPT !.left = PenaltyMax]]
        ELSE IF counted.inMsgs <= MaxInboundMsgs THEN [ok |-> TRUE, g |-> counted]
        ELSE [ok |-> FALSE, g |-> [counted EXCEPT !.penalty = PenaltyMax, !.left = PenaltyMax]]

\* Over the limit the peer is turned away for a time that doubles.
allowInbound(g) ==
    LET wait == IF g.penalty < PenaltyBase THEN PenaltyBase ELSE AtMost(2 * g.penalty, PenaltyMax)
        counted == [g EXCEPT !.inMsgs = @ + 1]
    IN  IF g.left > 0 THEN [ok |-> FALSE, g |-> g]
        ELSE IF counted.inMsgs <= MaxInboundMsgs THEN [ok |-> TRUE, g |-> counted]
        ELSE [ok |-> FALSE, g |-> [counted EXCEPT !.penalty = wait, !.left = wait]]

alreadySeenMsg(g, m) == g.seen[m.mid] > 0
seenMsg(g, m) == [g EXCEPT !.seen[m.mid] = RecentMsgTTL]

----------------------------------------------------------------------------
(* Taking messages *)

Idle == [pc |-> "idle", todo |-> <<>>, acks |-> {}, enq |-> FALSE, cls |-> 0, left |-> 0]

Start(b) ==
    /\ call[b].pc = "idle"
    /\ box[b] # <<>> \/ (way = "pull" /\ Queued # {})
    /\ call' = [call EXCEPT ![b] = [Idle EXCEPT !.pc = "next",
                    !.todo = SubSeq(box[b], 1, AtMost(Len(box[b]), Limit))]]
    /\ UNCHANGED <<way, sched, hop, box, gate, trust, held, refused, overflow, dropped,
                   sent, ackFailures>>

\* On to the next message; acked says whether this one will be acknowledged.
Done(b, acked) ==
    [call[b] EXCEPT !.pc = "next", !.todo = Tail(@),
                    !.acks = IF acked THEN @ \cup {Head(call[b].todo).id} ELSE @]

\* What PullAndApplyFromRelay does with a message before it is enqueued.
\* Mutant: a message the security layer turns away is acknowledged too.
PullChecksAckAll(b, m, g, d) ==
    IF ~g.ok THEN [gate |-> g.g, ps |-> trust[b], call |-> Done(b, FALSE), drop |-> FALSE]
    ELSE IF alreadySeenMsg(g.g, m) THEN [gate |-> g.g, ps |-> trust[b], call |-> Done(b, TRUE), drop |-> FALSE]
    ELSE IF m.type = "foreign"
    THEN [gate |-> seenMsg(g.g, m), ps |-> trust[b], call |-> Done(b, TRUE), drop |-> TRUE]
    ELSE IF d.decision # "accept" \/ m.type # "events"
    THEN [gate |-> g.g, ps |-> d.ps, call |-> Done(b, TRUE), drop |-> FALSE]
    ELSE [gate |-> g.g, ps |-> d.ps, drop |-> FALSE,
          call |-> [call[b] EXCEPT !.pc = "enqueue", !.cls = 0, !.enq = FALSE]]

PullChecks(b, m, g, d) ==
    IF ~g.ok THEN [gate |-> g.g, ps |-> trust[b], call |-> Done(b, FALSE), drop |-> FALSE]
    ELSE IF alreadySeenMsg(g.g, m) THEN [gate |-> g.g, ps |-> trust[b], call |-> Done(b, TRUE), drop |-> FALSE]
    ELSE IF m.type = "foreign"
    THEN [gate |-> seenMsg(g.g, m), ps |-> trust[b], call |-> Done(b, TRUE), drop |-> TRUE]
    ELSE IF d.decision # "accept" \/ m.type # "events"
    THEN [gate |-> g.g, ps |-> d.ps, call |-> Done(b, FALSE), drop |-> FALSE]
    ELSE [gate |-> g.g, ps |-> d.ps, drop |-> FALSE,
          call |-> [call[b] EXCEPT !.pc = "enqueue", !.cls = 0, !.enq = FALSE]]

\* TryApplyWirePlaintext marks the message as seen first; whatever it turns
\* away is gone, except that chat gets what is not a ledger message.
WireChecks(b, m, g, d) ==
    IF ~g.ok THEN [gate |-> g.g, ps |-> trust[b], call |-> Done(b, TRUE), drop |-> TRUE]
    ELSE IF alreadySeenMsg(g.g, m) THEN [gate |-> g.g, ps |-> trust[b], call |-> Done(b, TRUE), drop |-> FALSE]
    ELSE IF m.type # "events"
    THEN [gate |-> seenMsg(g.g, m), ps |-> trust[b], call |-> Done(b, TRUE), drop |-> TRUE]
    ELSE IF d.decision # "accept"
    THEN [gate |-> seenMsg(g.g, m), ps |-> d.ps, call |-> Done(b, TRUE), drop |-> TRUE]
    ELSE [gate |-> seenMsg(g.g, m), ps |-> d.ps, drop |-> FALSE,
          call |-> [call[b] EXCEPT !.pc = "enqueue", !.cls = 0, !.enq = FALSE]]

Check(b) ==
    LET m == Head(call[b].todo).m
        d == ObserveInbound(trust[b], m.type, m.size)
        g == allowInbound(gate[b])
        r == IF way = "pull" THEN PullChecks(b, m, g, d) ELSE WireChecks(b, m, g, d)
    IN  /\ call[b].pc = "next" /\ call[b].todo # <<>>
        /\ gate' = [gate EXCEPT ![b] = r.gate]
        /\ trust' = [trust EXCEPT ![b] = r.ps]
        /\ call' = [call EXCEPT ![b] = r.call]
        /\ dropped' = IF r.drop THEN dropped \cup {m.mid} ELSE dropped
        /\ UNCHANGED <<way, sched, hop, box, held, refused, overflow, sent, ackFailures>>

\* The batches a step takes from the queue to make room.
Evicted == {<<b[1], b[2], "evicted">> : b \in Queued \ QueuedIn(queue')}

\* One Enqueue per class the message has a batch for.
EnqueueBatch(b) ==
    LET m == Head(call[b].todo).m
        c == call[b].cls
    IN  /\ call[b].pc = "enqueue" /\ c \in m.parts
        /\ \/ /\ S!EnqueueAccept(b, c, m)
              /\ call' = [call EXCEPT ![b].enq = TRUE, ![b].cls = c + 1]
              /\ overflow' = overflow \cup Evicted
           \/ /\ S!EnqueueRefuse(b, c)
              /\ call' = [call EXCEPT ![b].cls = c + 1]
              /\ overflow' = overflow \cup Evicted \cup {<<m, c, "full">>}
        /\ UNCHANGED <<way, hop, box, gate, trust, held, refused, dropped, sent, ackFailures>>

NoBatch(b) ==
    /\ call[b].pc = "enqueue" /\ call[b].cls \in PriorityClass \ Head(call[b].todo).m.parts
    /\ call' = [call EXCEPT ![b].cls = @ + 1]
    /\ UNCHANGED <<way, sched, hop, box, gate, trust, held, refused, overflow, dropped,
                   sent, ackFailures>>

\* After the last class.  A pull drains once, at the end; a wire message is
\* drained for at once, and is handed over whether it was queued or not.
EndEnqueue(b) ==
    LET m == Head(call[b].todo).m
    IN  /\ call[b].pc = "enqueue" /\ call[b].cls \notin PriorityClass
        /\ IF way = "pull"
           THEN /\ call' = [call EXCEPT ![b] = Done(b, call[b].enq)]
                /\ gate' = IF call[b].enq THEN [gate EXCEPT ![b] = seenMsg(@, m)] ELSE gate
           ELSE /\ call' = [call EXCEPT ![b] =
                        IF call[b].enq THEN [Done(b, TRUE) EXCEPT !.pc = "drain", !.left = DrainMax]
                        ELSE Done(b, TRUE)]
                /\ UNCHANGED gate
        /\ UNCHANGED <<way, sched, hop, box, trust, held, refused, overflow, dropped,
                       sent, ackFailures>>

EndPull(b) ==
    /\ way = "pull" /\ call[b].pc = "next" /\ call[b].todo = <<>>
    /\ call' = [call EXCEPT ![b].pc = "drain", ![b].left = DrainMax]
    /\ UNCHANGED <<way, sched, hop, box, gate, trust, held, refused, overflow, dropped,
                   sent, ackFailures>>

Report(part) ==
    [applied |-> IF part \in held \/ part[1].bad THEN 0 ELSE 1,
     dupe |-> IF part \in held THEN 1 ELSE 0,
     rejected |-> IF part[1].bad THEN 1 ELSE 0]

\* drainInbound: one batch, of whichever mailbox.
Drain(b) ==
    /\ call[b].pc = "drain" /\ call[b].left > 0
    /\ S!Dequeue
    /\ \E c \in PriorityClass :
        /\ queue'[c] # queue[c]
        /\ LET it == Head(queue[c])
               part == <<it.msg, c>>
           IN  /\ held' = IF it.msg.bad THEN held ELSE held \cup {part}
               /\ refused' = IF it.msg.bad THEN refused \cup {part} ELSE refused
               /\ trust' = [trust EXCEPT ![it.peer] = ObserveApplyReport(@, Report(part))]
    /\ call' = [call EXCEPT ![b].left = @ - 1]
    /\ UNCHANGED <<way, hop, box, gate, overflow, dropped, sent, ackFailures>>

EndDrain(b) ==
    /\ call[b].pc = "drain"
    /\ call[b].left = 0 \/ \A c \in PriorityClass : queue[c] = <<>>
    /\ call' = [call EXCEPT ![b].pc = IF way = "pull" THEN "ack" ELSE "next"]
    /\ UNCHANGED <<way, sched, hop, box, gate, trust, held, refused, overflow, dropped,
                   sent, ackFailures>>

\* The acknowledgement ends a pull, or the poller's handling of its batch.
Ack(b) ==
    /\ \/ call[b].pc = "ack"
       \/ way = "wire" /\ call[b].pc = "next" /\ call[b].todo = <<>>
    /\ \/ /\ box' = [box EXCEPT ![b] = SelectSeq(@, LAMBDA e : e.id \notin call[b].acks)]
          /\ UNCHANGED ackFailures
       \/ /\ ackFailures < MaxAckFailures /\ ackFailures' = ackFailures + 1
          /\ UNCHANGED box
    /\ call' = [call EXCEPT ![b] = Idle]
    /\ UNCHANGED <<way, sched, hop, gate, trust, held, refused, overflow, dropped, sent>>

\* A rate window passes.  A call reads the clock once, when it starts.
Tick ==
    /\ \A b \in Boxes : call[b].pc = "idle"
    /\ gate' = [b \in Boxes |-> [gate[b] EXCEPT !.inMsgs = 0,
                    !.left = IF @ > 0 THEN @ - 1 ELSE 0,
                    !.seen = [i \in DOMAIN @ |-> IF @[i] > 0 THEN @[i] - 1 ELSE 0]]]
    /\ trust' = [b \in Boxes |-> Elapse(trust[b])]
    /\ UNCHANGED <<way, sched, hop, box, call, held, refused, overflow, dropped,
                   sent, ackFailures>>

Init ==
    /\ way \in {"pull", "wire"}
    /\ S!Init
    /\ hop = [b \in Boxes |-> <<>>] /\ box = [b \in Boxes |-> <<>>]
    /\ gate = [b \in Boxes |-> NewGate]
    /\ trust = [b \in Boxes |-> NewPeer("relay")]
    /\ call = [b \in Boxes |-> Idle]
    /\ held = {} /\ refused = {} /\ overflow = {} /\ dropped = {}
    /\ sent = {} /\ ackFailures = 0

Take(b) ==
    \/ Start(b) \/ Check(b) \/ EnqueueBatch(b) \/ NoBatch(b) \/ EndEnqueue(b)
    \/ EndPull(b) \/ Drain(b) \/ EndDrain(b) \/ Ack(b)

Next ==
    \/ \E b \in Boxes : \/ PublishEventsToRelay(b) \/ PublishEventsToRelayMultiHop(b)
                        \/ ForwardRelayOnce(b) \/ Take(b)
    \/ Tick

\* The host keeps pulling and hops keep forwarding; time passes.
Fairness ==
    /\ \A b \in Boxes : WF_vars(Take(b)) /\ WF_vars(ForwardRelayOnce(b))
    /\ SF_vars(Tick)

Spec == Init /\ [][Next]_vars /\ Fairness

----------------------------------------------------------------------------
(* Properties *)

OnRelay(m) == \E b \in Boxes : m \in ToSet(hop[b]) \/ \E e \in ToSet(box[b]) : e.m = m

Settled(m, c) == <<m, c>> \in held \cup refused \cup Queued

\* Nothing is lost silently: a batch of an events message that is no longer
\* on the relay is in the ledger, was refused by it, waits in the scheduler
\* or was turned away or evicted by the full scheduler.  A pull never
\* acknowledges a message of which nothing was queued (enq == 0, or a
\* verdict of the rate limit or the security layer); the pollers' way loses
\* those.  Demotion keeps a batch, under the class it was demoted to.
AckedAccounted ==
    \A m \in {x \in sent : x.type = "events" /\ ~OnRelay(x)} :
        /\ \A c \in m.parts :
            \/ \E d \in c .. 2 : Settled(m, d)
            \/ \E why \in {"full", "evicted"}, d \in c .. 2 : <<m, d, why>> \in overflow
            \/ way = "wire" /\ m.mid \in dropped
        /\ way = "pull" =>
            \E d \in PriorityClass : Settled(m, d) \/ <<m, d, "evicted">> \in overflow

\* Messages a pull leaves where they are: not events, or more than a new
\* peer may send.
Stuck(b) == {e \in ToSet(box[b]) : e.m.type = "other" \/ e.m.size > ColdMaxInbound}

\* Pulling empties the mailbox: an ordinary events message is acknowledged
\* in the end, through rate limits, lost acknowledgements and a full
\* scheduler, unless its peer's score fell to the bottom or messages that
\* are never taken fill the pull.
RelayDrains ==
    \A b \in Boxes, i \in 1 .. MaxPublished :
        (way = "pull" /\ \E e \in ToSet(box[b]) \ Stuck(b) : e.m.mid = i)
            ~> \/ \A e \in ToSet(box[b]) : e.m.mid # i
               \/ trust[b].score <= MinScore
               \/ Cardinality(Stuck(b)) >= Limit
=============================================================================
