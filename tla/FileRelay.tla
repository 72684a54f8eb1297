------------------------------ MODULE FileRelay ------------------------------
(***************************************************************************)
(* The relay that keeps its mailboxes on disk (pkg/relay/file_relay.go):   *)
(* one directory per mailbox, one file per message, written to a temporary *)
(* file and renamed.  Every call holds the mutex, so it is one step; a     *)
(* crash between the temporary file and the rename is a step of its own.   *)
(* A process crash loses nothing else, since all the state is on disk.     *)
(***************************************************************************)
EXTENDS Integers, FiniteSets, FiniteSetsExt

CONSTANTS MailboxIDs, MessageIDs,
          MaxTotalPending, MaxPendingPerMailbox,
          Limits,     \* the limits a Pull may ask for, after Normalize
          TTLs,       \* ttl_sec of a push; 0 is no deadline
          Delays,     \* delay_sec of a push
          MaxNow,     \* bound on the clock
          MaxTorn     \* bound on crashes in the middle of a write

ASSUME QuotasSet ==
  MaxTotalPending \in Nat \ {0} /\ MaxPendingPerMailbox \in Nat \ {0}
ASSUME RequestsValid ==
  Limits \subseteq Nat \ {0} /\ TTLs \subseteq Nat /\ Delays \subseteq Nat

VARIABLES files,    \* the msg_*.json files
          dirs,     \* the mailboxes that have a directory
          torn,     \* per mailbox, the tmp_* files crashed writes left behind
          used,     \* the message ids drawn so far
          reply,    \* what the last Pull returned
          now       \* the clock, in seconds

relayVars == <<files, dirs, torn, used, reply, now>>

Message == [id : MessageIDs, mailbox : MailboxIDs, receivedAt : Nat,
            deadline : Nat, availAt : Nat]

-----------------------------------------------------------------------------
(* Helpers that run under the mutex. *)

Lapsed(m) == m.deadline > 0 /\ now >= m.deadline

\* pruneLocked: drop the expired files, then the directories left empty.  A
\* directory that holds a stray temporary file cannot be removed.
pruned == {m \in files : ~Lapsed(m)}

pruneDirs ==
  {d \in dirs : torn[d] > 0 \/ \E m \in pruned : m.mailbox = d}

totalPendingLocked == Cardinality(pruned)

mailboxPendingLocked(mb) == Cardinality({m \in pruned : m.mailbox = mb})

HasRoom_Total(mb) == totalPendingLocked < MaxTotalPending

HasRoom(mb) ==
  /\ totalPendingLocked < MaxTotalPending
  /\ mailboxPendingLocked(mb) < MaxPendingPerMailbox

\* pullAvailableLocked: the files of the mailbox that are due, sorted by the
\* second they arrived in and cut at the limit.  The sort is not stable.
Available_Early(mb) == {m \in pruned : m.mailbox = mb}

Available(mb) ==
  {m \in pruned : m.mailbox = mb /\ (m.availAt = 0 \/ now >= m.availAt)}

pullAvailableLocked(mb, limit) ==
  LET due == Available(mb)
  IN  {B \in SUBSET due :
         /\ Cardinality(B) = Min({limit, Cardinality(due)})
         /\ \A b \in B, m \in due \ B : b.receivedAt <= m.receivedAt}

\* The record that Push writes.
Stored(id, mb, ttl, delay) ==
  [id |-> id, mailbox |-> mb, receivedAt |-> now,
   deadline |-> IF ttl = 0 THEN 0 ELSE now + ttl,
   availAt |-> IF delay = 0 THEN 0 ELSE now + delay]

-----------------------------------------------------------------------------
Init ==
  /\ files = {} /\ dirs = {} /\ torn = [mb \in MailboxIDs |-> 0]
  /\ used = {} /\ reply = {} /\ now = 1

\* Push with the temporary file renamed into place.
Push(mb, ttl, delay) ==
  /\ HasRoom(mb)
  /\ \E id \in MessageIDs \ used :
       /\ files' = pruned \cup {Stored(id, mb, ttl, delay)}
       /\ used' = used \cup {id}
  /\ dirs' = pruneDirs \cup {mb}
  /\ UNCHANGED <<torn, reply, now>>

\* Push refused by a quota: the pruning has happened all the same.
PushFull(mb) ==
  /\ ~HasRoom(mb)
  /\ files' = pruned /\ dirs' = pruneDirs
  /\ UNCHANGED <<torn, used, reply, now>>

\* Push whose write fails: the directory was made, the temporary file removed.
PushFail(mb) ==
  /\ HasRoom(mb)
  /\ files' = pruned /\ dirs' = pruneDirs \cup {mb}
  /\ UNCHANGED <<torn, used, reply, now>>

\* The process dies in writeFileAtomic, before the rename, and comes back.
PushCrash(mb) ==
  /\ HasRoom(mb) /\ torn[mb] < MaxTorn
  /\ files' = pruned /\ dirs' = pruneDirs \cup {mb}
  /\ torn' = [torn EXCEPT ![mb] = @ + 1]
  /\ UNCHANGED <<used, reply, now>>

\* One round of the loop of Pull.
Pull(mb, limit) ==
  /\ reply' \in pullAvailableLocked(mb, limit)
  /\ files' = pruned /\ dirs' = pruneDirs
  /\ UNCHANGED <<torn, used, now>>

\* Ack removes the named files; the directory waits for the next pruning.
Ack(mb, ids) ==
  /\ files' = {m \in pruned : ~(m.mailbox = mb /\ m.id \in ids)}
  /\ dirs' = pruneDirs
  /\ UNCHANGED <<torn, used, reply, now>>

Tick ==
  /\ now < MaxNow /\ now' = now + 1
  /\ UNCHANGED <<files, dirs, torn, used, reply>>

Sending ==
  \/ \E mb \in MailboxIDs, ttl \in TTLs, delay \in Delays : Push(mb, ttl, delay)
  \/ \E mb \in MailboxIDs : PushFull(mb) \/ PushFail(mb) \/ PushCrash(mb)

Next ==
  \/ Sending
  \/ \E mb \in MailboxIDs, limit \in Limits : Pull(mb, limit)
  \/ \E mb \in MailboxIDs, ids \in SUBSET MessageIDs : Ack(mb, ids)
  \/ Tick

Spec == Init /\ [][Next]_relayVars

-----------------------------------------------------------------------------
(* Properties. *)

\* The state is well typed; a deadline lies after the second of arrival.
TypeOK ==
  /\ files \subseteq Message /\ reply \subseteq Message
  /\ dirs \subseteq MailboxIDs /\ torn \in [MailboxIDs -> Nat]
  /\ used \subseteq MessageIDs /\ now \in Nat
  /\ \A m \in files : m.deadline # 0 => m.deadline > m.receivedAt

\* Push counts the files again after pruning, so the store and each mailbox
\* stay within the quotas of FileRelayOptions in every interleaving of pushes,
\* acknowledgements, expiry and crashes in the middle of a write.
WithinQuotas ==
  /\ Cardinality(files) <= MaxTotalPending
  /\ \A mb \in MailboxIDs :
       Cardinality({m \in files : m.mailbox = mb}) <= MaxPendingPerMailbox

\* A message file always has its directory, and no two files share an id: the
\* removal of empty directories never takes a directory that is in use.
FilesHaveDirs ==
  /\ \A m \in files : m.mailbox \in dirs
  /\ \A m, n \in files : m.id = n.id => m = n
  /\ \A m \in files : m.id \in used

\* The store on disk is consistent after every call and every crash.
StoreConsistent == TypeOK /\ WithinQuotas /\ FilesHaveDirs

\* FileRelay keeps the promise of the Relay interface: an accepted message is
\* only dropped by an acknowledgement for its mailbox or after its deadline,
\* and Pull returns the oldest messages that are due.
Promise == INSTANCE Mailbox WITH pending <- files, got <- reply

KeepsMailbox == Promise!Spec
=============================================================================
