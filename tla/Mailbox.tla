------------------------------- MODULE Mailbox -------------------------------
(***************************************************************************)
(* What a relay promises to the two sides of a mailbox (the Relay          *)
(* interface of pkg/relay/relay.go): a message that Push accepted stays    *)
(* until it is acknowledged or its deadline passes, and Pull hands out the *)
(* oldest messages that are due.  How a message is stored, and when        *)
(* expired messages are really dropped, is left to the implementation.     *)
(***************************************************************************)
EXTENDS Integers, FiniteSets, FiniteSetsExt

CONSTANTS MailboxIDs, MessageIDs

VARIABLES pending,  \* the accepted messages that are not gone yet
          got,      \* what the last Pull returned
          now       \* the relay's clock, in seconds

vars == <<pending, got, now>>

\* A stored message.  A deadline or an availAt of 0 means that there is none.
Message == [id : MessageIDs, mailbox : MailboxIDs, receivedAt : Nat,
            deadline : Nat, availAt : Nat]

IDs(M) == {m.id : m \in M}

Expired(m) == m.deadline > 0 /\ now >= m.deadline

Due(m) == m.availAt = 0 \/ now >= m.availAt

\* The oldest n messages of M.  Messages of the same second are in any order.
Oldest(M, n) ==
  {B \in SUBSET M : /\ Cardinality(B) = Min({n, Cardinality(M)})
                    /\ \A b \in B, m \in M \ B : b.receivedAt <= m.receivedAt}

Init == pending = {} /\ got = {} /\ now = 1

\* Any call may drop expired messages, and only those, before it does its work.
Survivors == {pending \ gone : gone \in SUBSET {m \in pending : Expired(m)}}

Push ==
  /\ \E P \in Survivors : \E m \in pending' :
       /\ m \in Message /\ m.id \notin IDs(pending)
       /\ m.receivedAt = now
       /\ pending' = P \cup {m}
  /\ UNCHANGED <<got, now>>

Deliver ==
  /\ pending' \in Survivors
  /\ \E mb \in MailboxIDs, n \in 1..Cardinality(pending) + 1 :
       got' \in Oldest({m \in pending' : m.mailbox = mb /\ Due(m)}, n)
  /\ UNCHANGED now

Acknowledge ==
  /\ \E P \in Survivors, mb \in MailboxIDs, ids \in SUBSET IDs(pending) :
       pending' = {m \in P : ~(m.mailbox = mb /\ m.id \in ids)}
  /\ UNCHANGED <<got, now>>

Sweep == pending' \in Survivors /\ UNCHANGED <<got, now>>

Tick == now' = now + 1 /\ UNCHANGED <<pending, got>>

Next == Push \/ Deliver \/ Acknowledge \/ Sweep \/ Tick

Spec == Init /\ [][Next]_vars
=============================================================================
