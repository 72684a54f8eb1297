----------------------------- MODULE MemoryRelay -----------------------------
(***************************************************************************)
(* The relay that keeps its mailboxes in memory (pkg/relay/memory.go): one *)
(* queue per mailbox, in the order of arrival, and no quotas.  It differs  *)
(* from FileRelay at the deadline itself: a message is still delivered in  *)
(* the second in which it expires.                                         *)
(***************************************************************************)
EXTENDS Integers, FiniteSets, FiniteSetsExt, SequencesExt

CONSTANTS MailboxIDs, MessageIDs, Limits, TTLs, Delays, MaxNow

VARIABLES mailboxQ,  \* the queue of each mailbox that has one
          used,      \* the message ids drawn so far
          reply,     \* what the last Pull returned, in order
          now        \* the clock

memVars == <<mailboxQ, used, reply, now>>

Stored == [id : MessageIDs, mailbox : MailboxIDs, receivedAt : Nat,
           deadline : Nat, availAt : Nat]

Queue(Q, mb) == IF mb \in DOMAIN Q THEN Q[mb] ELSE <<>>

With(Q, mb, q) ==
  [x \in DOMAIN Q \cup {mb} |-> IF x = mb THEN q ELSE Q[x]]

-----------------------------------------------------------------------------
Live(m) == m.deadline = 0 \/ now <= m.deadline

\* pruneLocked: drop what has expired, and the queues left empty.
pruneLocked_Queue ==
  LET kept == [mb \in DOMAIN mailboxQ |->
                 IF \E i \in DOMAIN mailboxQ[mb] : ~Live(mailboxQ[mb][i])
                 THEN <<>> ELSE mailboxQ[mb]]
  IN  [mb \in {x \in DOMAIN kept : kept[x] # <<>>} |-> kept[mb]]

pruneLocked ==
  LET kept == [mb \in DOMAIN mailboxQ |-> SelectSeq(mailboxQ[mb], Live)]
  IN  [mb \in {x \in DOMAIN kept : kept[x] # <<>>} |-> kept[mb]]

\* pullAvailableLocked: what is due, oldest first, cut at the limit.  Arrival
\* order is already the order of receivedAt.
pullAvailableLocked(Q, mb, limit) ==
  LET Due(m) == m.availAt = 0 \/ now >= m.availAt
      due == SelectSeq(Queue(Q, mb), Due)
  IN  SubSeq(due, 1, Min({limit, Len(due)}))

-----------------------------------------------------------------------------
Init == mailboxQ = <<>> /\ used = {} /\ reply = <<>> /\ now = 1

Push(mb, ttl, delay) ==
  /\ \E id \in MessageIDs \ used :
       LET m == [id |-> id, mailbox |-> mb, receivedAt |-> now,
                 deadline |-> IF ttl = 0 THEN 0 ELSE now + ttl,
                 availAt |-> IF delay = 0 THEN 0 ELSE now + delay]
       IN  /\ mailboxQ' = With(pruneLocked, mb, Append(Queue(pruneLocked, mb), m))
           /\ used' = used \cup {id}
  /\ UNCHANGED <<reply, now>>

\* One round of the loop of Pull.
Pull(mb, limit) ==
  /\ mailboxQ' = pruneLocked
  /\ reply' = pullAvailableLocked(pruneLocked, mb, limit)
  /\ UNCHANGED <<used, now>>

\* Ack may leave an empty queue in the map: the next pruning removes it.
Ack(mb, ids) ==
  LET Kept(m) == m.id \notin ids
  IN  /\ mailboxQ' = IF mb \in DOMAIN pruneLocked
                     THEN [pruneLocked EXCEPT ![mb] = SelectSeq(@, Kept)]
                     ELSE pruneLocked
      /\ UNCHANGED <<used, reply, now>>

Tick == now < MaxNow /\ now' = now + 1 /\ UNCHANGED <<mailboxQ, used, reply>>

Next ==
  \/ \E mb \in MailboxIDs, ttl \in TTLs, delay \in Delays : Push(mb, ttl, delay)
  \/ \E mb \in MailboxIDs, limit \in Limits : Pull(mb, limit)
  \/ \E mb \in MailboxIDs, ids \in SUBSET MessageIDs : Ack(mb, ids)
  \/ Tick

Spec == Init /\ [][Next]_memVars

-----------------------------------------------------------------------------
(* Properties. *)

\* MemoryRelay keeps the promise of the Relay interface as FileRelay does,
\* although it drops a message one second later: pruning the queues in place
\* loses no message that is neither expired nor acknowledged, and Pull returns
\* the oldest messages that are due.
Promise == INSTANCE Mailbox
             WITH pending <- UNION {ToSet(mailboxQ[mb]) : mb \in DOMAIN mailboxQ},
                  got <- ToSet(reply)

KeepsMailbox == Promise!Spec
=============================================================================
