-------------------------- MODULE FileRelayProofs --------------------------
(***************************************************************************)
(* Proofs about the relay on disk, for any mailboxes, ids, quotas, limits, *)
(* lifetimes and delays, any number of crashes and any clock: the store is *)
(* consistent, and FileRelay implements the promise of Mailbox.            *)
(***************************************************************************)
EXTENDS FileRelay, FiniteSetTheorems, TLAPS

\* The store is finite: cardinalities are counts.
RelayInv == StoreConsistent /\ IsFiniteSet(files)

InBox(M, mb) == {m \in M : m.mailbox = mb}

\* A call with any limit: a poller has one of its own.
Call ==
  \/ Sending
  \/ \E mb \in MailboxIDs, limit \in Nat \ {0} : Pull(mb, limit)
  \/ \E mb \in MailboxIDs, ids \in SUBSET MessageIDs : Ack(mb, ids)
  \/ Tick

\* Limits are among them (PullRequest.Normalize).
LEMMA NextCalls == [Next]_relayVars => [Call]_relayVars
BY RequestsValid DEF Next, Call

-----------------------------------------------------------------------------
(* Pruning *)

\* A store that loses files stays within its quotas (pruneLocked, Ack).
LEMMA FewerFiles ==
  ASSUME RelayInv, NEW M \in SUBSET files
  PROVE  /\ IsFiniteSet(M)
         /\ Cardinality(M) \in Nat /\ Cardinality(M) =< MaxTotalPending
         /\ \A mb \in MailboxIDs : /\ Cardinality(InBox(M, mb)) \in Nat
                                   /\ Cardinality(InBox(M, mb)) =< MaxPendingPerMailbox
<1>1. IsFiniteSet(files) /\ WithinQuotas BY DEF RelayInv, StoreConsistent
<1>2. IsFiniteSet(M) /\ Cardinality(M) =< Cardinality(files) BY <1>1, FS_Subset
<1>3. Cardinality(M) \in Nat /\ Cardinality(files) \in Nat BY <1>1, <1>2, FS_CardinalityType
<1>4. ASSUME NEW mb \in MailboxIDs
      PROVE  /\ Cardinality(InBox(M, mb)) \in Nat
             /\ Cardinality(InBox(M, mb)) =< MaxPendingPerMailbox
  <2>1. InBox(files, mb) \in SUBSET files /\ InBox(M, mb) \in SUBSET InBox(files, mb)
    BY DEF InBox
  <2>2. IsFiniteSet(InBox(files, mb)) BY <1>1, <2>1, FS_Subset
  <2>3. /\ IsFiniteSet(InBox(M, mb))
        /\ Cardinality(InBox(M, mb)) =< Cardinality(InBox(files, mb))
    BY <2>1, <2>2, FS_Subset
  <2>4. Cardinality(InBox(M, mb)) \in Nat /\ Cardinality(InBox(files, mb)) \in Nat
    BY <2>2, <2>3, FS_CardinalityType
  <2> QED BY <1>1, <2>3, <2>4, QuotasSet DEF WithinQuotas, InBox
<1> QED BY <1>1, <1>2, <1>3, <1>4, QuotasSet DEF WithinQuotas

\* After a call that removes files, and directories that hold none of those left,
\* the store is consistent (pruneLocked, Ack).
LEMMA Removed ==
  ASSUME RelayInv, NEW M \in SUBSET files, files' = M,
         dirs' \subseteq MailboxIDs, \A m \in M : m.mailbox \in dirs',
         torn' \in [MailboxIDs -> Nat], reply' \subseteq Message,
         used' = used, now' = now
  PROVE  RelayInv'
<1>1. TypeOK' BY DEF RelayInv, StoreConsistent, TypeOK
<1>2. WithinQuotas'
  BY FewerFiles DEF WithinQuotas, InBox
<1>3. FilesHaveDirs' BY DEF RelayInv, StoreConsistent, FilesHaveDirs
<1>4. IsFiniteSet(files') BY FewerFiles
<1> QED BY <1>1, <1>2, <1>3, <1>4 DEF RelayInv, StoreConsistent

\* pruneLocked keeps the directories of the files it keeps.
LEMMA Pruning ==
  ASSUME RelayInv
  PROVE  /\ pruned \in SUBSET files
         /\ pruneDirs \subseteq dirs
         /\ \A m \in pruned : m.mailbox \in pruneDirs
         /\ dirs \subseteq MailboxIDs
BY DEF RelayInv, StoreConsistent, TypeOK, FilesHaveDirs, pruned, pruneDirs

-----------------------------------------------------------------------------
(* Consistency *)

\* The record that Push writes is a message, with its deadline after now.
LEMMA StoredType ==
  ASSUME TypeOK, NEW id \in MessageIDs, NEW mb \in MailboxIDs,
         NEW ttl \in TTLs, NEW delay \in Delays
  PROVE  /\ Stored(id, mb, ttl, delay) \in Message
         /\ Stored(id, mb, ttl, delay).deadline # 0
              => Stored(id, mb, ttl, delay).deadline > Stored(id, mb, ttl, delay).receivedAt
<1>1. ttl \in Nat /\ delay \in Nat /\ now \in Nat BY RequestsValid DEF TypeOK
<1> QED BY <1>1 DEF Stored, Message

\* A push that finds room leaves the store within its quotas.
LEMMA PushConsistent ==
  ASSUME RelayInv, NEW mb \in MailboxIDs, NEW ttl \in TTLs, NEW delay \in Delays,
         Push(mb, ttl, delay)
  PROVE  RelayInv'
<1>1. PICK id \in MessageIDs \ used :
        files' = pruned \cup {Stored(id, mb, ttl, delay)} /\ used' = used \cup {id}
  BY DEF Push
<1> DEFINE m == Stored(id, mb, ttl, delay)
<1>2. m \in Message /\ (m.deadline # 0 => m.deadline > m.receivedAt)
  BY StoredType DEF RelayInv, StoreConsistent
<1>3. m.id = id /\ m.mailbox = mb BY DEF Stored
<1> HIDE DEF m
<1>4. UNCHANGED <<torn, reply, now>> /\ dirs' = pruneDirs \cup {mb} BY DEF Push
<1>5. TypeOK' BY <1>1, <1>2, <1>4, Pruning DEF RelayInv, StoreConsistent, TypeOK, m
<1>6. FilesHaveDirs'
  BY <1>1, <1>3, <1>4, Pruning DEF RelayInv, StoreConsistent, FilesHaveDirs, m
<1>7. WithinQuotas' /\ IsFiniteSet(files')
  <2>1. files' = pruned \cup {m} BY <1>1 DEF m
  <2>2. /\ IsFiniteSet(pruned) /\ Cardinality(pruned) \in Nat
        /\ \A x \in MailboxIDs : /\ Cardinality(InBox(pruned, x)) \in Nat
                                 /\ Cardinality(InBox(pruned, x)) =< MaxPendingPerMailbox
    BY FewerFiles, Pruning
  <2>3. Cardinality(pruned) < MaxTotalPending /\ Cardinality(InBox(pruned, mb)) < MaxPendingPerMailbox
    BY DEF Push, HasRoom, totalPendingLocked, mailboxPendingLocked, InBox
  <2>4. IsFiniteSet(files') /\ Cardinality(files') =< Cardinality(pruned) + 1
    <3>1. IsFiniteSet(pruned \cup {m})
          /\ Cardinality(pruned \cup {m}) = IF m \in pruned THEN Cardinality(pruned)
                                            ELSE Cardinality(pruned) + 1
      BY <2>2, FS_AddElement
    <3> QED BY <2>1, <2>2, <3>1
  <2>5. Cardinality(files') \in Nat BY <2>4, FS_CardinalityType
  <2>6. Cardinality(files') =< MaxTotalPending BY <2>2, <2>3, <2>4, <2>5, QuotasSet
  <2>7. ASSUME NEW x \in MailboxIDs
        PROVE  Cardinality(InBox(files', x)) =< MaxPendingPerMailbox
    <3>1. CASE x # mb
      <4>1. InBox(files', x) = InBox(pruned, x) BY <1>3, <2>1, <3>1 DEF InBox
      <4> QED BY <2>2, <4>1
    <3>2. CASE x = mb
      <4>1. InBox(files', x) = InBox(pruned, x) \cup {m} BY <1>3, <2>1, <3>2 DEF InBox
      <4>2. IsFiniteSet(InBox(pruned, x)) BY <2>2, FS_Subset DEF InBox
      <4>3. Cardinality(InBox(files', x)) =< Cardinality(InBox(pruned, x)) + 1
        <5>1. Cardinality(InBox(pruned, x) \cup {m})
                = IF m \in InBox(pruned, x) THEN Cardinality(InBox(pruned, x))
                  ELSE Cardinality(InBox(pruned, x)) + 1
          BY <4>2, FS_AddElement
        <5> QED BY <2>2, <4>1, <5>1
      <4>4. Cardinality(InBox(files', x)) \in Nat BY <4>1, <4>2, FS_AddElement, FS_CardinalityType
      <4> QED BY <2>2, <2>3, <3>2, <4>3, <4>4, QuotasSet
    <3> QED BY <3>1, <3>2
  <2> QED BY <2>4, <2>6, <2>7 DEF WithinQuotas, InBox
<1> QED BY <1>5, <1>6, <1>7 DEF RelayInv, StoreConsistent

\* Every call, crash and tick keeps the store consistent.
LEMMA CallConsistent ==
  ASSUME RelayInv, [Call]_relayVars
  PROVE  RelayInv'
<1> USE Pruning
<1>0. /\ torn \in [MailboxIDs -> Nat] /\ reply \subseteq Message /\ now \in Nat
      /\ files \subseteq Message
  BY DEF RelayInv, StoreConsistent, TypeOK
<1>1. ASSUME NEW mb \in MailboxIDs, NEW ttl \in TTLs, NEW delay \in Delays,
             Push(mb, ttl, delay)
      PROVE  RelayInv'
  BY <1>1, PushConsistent
<1>2. ASSUME NEW mb \in MailboxIDs, PushFull(mb) \/ PushFail(mb) PROVE RelayInv'
  BY <1>0, <1>2, Removed DEF PushFull, PushFail
<1>3. ASSUME NEW mb \in MailboxIDs, PushCrash(mb) PROVE RelayInv'
  BY <1>0, <1>3, Removed DEF PushCrash
<1>4. ASSUME NEW mb \in MailboxIDs, NEW limit \in Nat \ {0}, Pull(mb, limit) PROVE RelayInv'
  <2>1. reply' \subseteq Message
    BY <1>0, <1>4 DEF Pull, pullAvailableLocked, Available
  <2> QED BY <1>0, <1>4, <2>1, Removed DEF Pull
<1>5. ASSUME NEW mb \in MailboxIDs, NEW ids \in SUBSET MessageIDs, Ack(mb, ids) PROVE RelayInv'
  <2> DEFINE M == {m \in pruned : ~(m.mailbox = mb /\ m.id \in ids)}
  <2>1. M \in SUBSET files /\ \A m \in M : m.mailbox \in pruneDirs OBVIOUS
  <2>2. files' = M /\ dirs' = pruneDirs /\ UNCHANGED <<torn, used, reply, now>>
    BY <1>5 DEF Ack
  <2> HIDE DEF M
  <2> QED BY <1>0, <2>1, <2>2, Removed
<1>6. CASE Tick
  BY <1>6 DEF Tick, RelayInv, StoreConsistent, TypeOK, WithinQuotas, FilesHaveDirs
<1>7. CASE UNCHANGED relayVars
  BY <1>7 DEF relayVars, RelayInv, StoreConsistent, TypeOK, WithinQuotas, FilesHaveDirs
<1> QED BY <1>1, <1>2, <1>3, <1>4, <1>5, <1>6, <1>7 DEF Call, Sending

\* A relay starts with an empty store.
LEMMA InitConsistent ==
  ASSUME Init
  PROVE  RelayInv
<1>1. TypeOK BY DEF Init, TypeOK
<1>2. WithinQuotas
  <2>1. \A mb \in MailboxIDs : {m \in files : m.mailbox = mb} = {} BY DEF Init
  <2> QED BY <2>1, FS_EmptySet, QuotasSet DEF Init, WithinQuotas
<1> QED BY <1>1, <1>2, FS_EmptySet DEF Init, RelayInv, StoreConsistent, FilesHaveDirs

\* For any quotas and in every interleaving of pushes, pulls, acknowledgements,
\* expiry and crashes in the middle of a write, the store on disk is well typed and
\* within its quotas, and no message file is without its directory.
THEOREM StoreSafe == Spec => []StoreConsistent
<1>1. RelayInv => StoreConsistent BY DEF RelayInv
<1> QED BY <1>1, InitConsistent, CallConsistent, NextCalls, PTL DEF Spec

-----------------------------------------------------------------------------
(* The promise of the Relay interface *)

\* What pruning leaves are survivors in the sense of Mailbox.
LEMMA PrunedSurvive == pruned \in Promise!Survivors
<1>1. pruned = files \ {m \in files : Promise!Expired(m)} BY DEF pruned, Lapsed, Promise!Expired
<1> QED BY <1>1 DEF Promise!Survivors

\* Mailbox counts as FileRelay does.
LEMMA SameCount == \A S : Promise!Cardinality(S) = Cardinality(S)
BY DEF Promise!Cardinality, Cardinality

\* Likewise for the smallest of a set.
LEMMA SameMin == \A S : Promise!Min(S) = Min(S)
BY DEF Promise!Min, Min

\* A pull hands out what Mailbox allows: the limit may exceed what is stored.
LEMMA PullDelivers ==
  ASSUME RelayInv, NEW mb \in MailboxIDs, NEW limit \in Nat \ {0}, Pull(mb, limit)
  PROVE  Promise!Deliver
<1> DEFINE due == Available(mb)
           n == IF limit =< Cardinality(files) THEN limit ELSE Cardinality(files) + 1
<1>1. due \in SUBSET files /\ IsFiniteSet(files) BY DEF Available, pruned, RelayInv
<1>2. /\ Cardinality(due) \in Nat /\ Cardinality(files) \in Nat
      /\ Cardinality(due) =< Cardinality(files)
  BY <1>1, FS_Subset, FS_CardinalityType
<1>3. limit \in Nat \ {0} OBVIOUS
<1>4. n \in 1..Cardinality(files) + 1 BY <1>2, <1>3
<1>5. Min({n, Cardinality(due)}) = Min({limit, Cardinality(due)})
  <2>1. CASE limit =< Cardinality(files) BY <2>1
  <2>2. CASE limit > Cardinality(files)
    <3>1. n = Cardinality(files) + 1 BY <1>2, <1>3, <2>2
    <3>2. ASSUME NEW k \in Nat, k > Cardinality(due)
          PROVE  Min({k, Cardinality(due)}) = Cardinality(due)
      <4> DEFINE S == {k, Cardinality(due)}
      <4>1. \A x \in S : (\A y \in S : x =< y) <=> x = Cardinality(due) BY <1>2, <3>2
      <4> HIDE DEF due
      <4> QED BY <4>1 DEF Min
    <3> QED BY <1>2, <1>3, <2>2, <3>1, <3>2
  <2> QED BY <1>2, <1>3, <2>1, <2>2
<1>6. files' = pruned /\ now' = now /\ reply' \in pullAvailableLocked(mb, limit) BY DEF Pull
<1>7. due = {m \in files' : m.mailbox = mb /\ Promise!Due(m)}
  BY <1>6 DEF Available, Promise!Due
<1>8. reply' \in Promise!Oldest(due, n)
  BY <1>5, <1>6, SameCount, SameMin DEF pullAvailableLocked, Promise!Oldest
<1> HIDE DEF n, due
<1> QED BY <1>4, <1>6, <1>7, <1>8, PrunedSurvive, SameCount DEF Promise!Deliver

\* Every step of the relay is one that Mailbox allows, or leaves it as it is.
LEMMA CallPromised ==
  ASSUME RelayInv, [Call]_relayVars
  PROVE  [Promise!Next]_(Promise!vars)
<1>1. ASSUME NEW mb \in MailboxIDs, NEW ttl \in TTLs, NEW delay \in Delays,
             Push(mb, ttl, delay)
      PROVE  Promise!Push
  <2>1. PICK id \in MessageIDs \ used : files' = pruned \cup {Stored(id, mb, ttl, delay)}
    BY <1>1 DEF Push
  <2> DEFINE m == Stored(id, mb, ttl, delay)
  <2>2. m \in Promise!Message
    BY StoredType DEF RelayInv, StoreConsistent, Message, Promise!Message
  <2>3. m.id = id /\ m.receivedAt = now BY DEF Stored
  <2>4. m.id \notin Promise!IDs(files)
    BY <2>3 DEF RelayInv, StoreConsistent, FilesHaveDirs, Promise!IDs
  <2> HIDE DEF m
  <2>5. m \in files' /\ files' = pruned \cup {m} BY <2>1 DEF m
  <2> QED BY <1>1, <2>2, <2>3, <2>4, <2>5, PrunedSurvive DEF Push, Promise!Push, m
<1>2. ASSUME NEW mb \in MailboxIDs, PushFull(mb) \/ PushFail(mb) \/ PushCrash(mb)
      PROVE  Promise!Sweep
  BY <1>2, PrunedSurvive DEF PushFull, PushFail, PushCrash, Promise!Sweep
<1>3. ASSUME NEW mb \in MailboxIDs, NEW limit \in Nat \ {0}, Pull(mb, limit)
      PROVE  Promise!Deliver
  BY <1>3, PullDelivers
<1>4. ASSUME NEW mb \in MailboxIDs, NEW ids \in SUBSET MessageIDs, Ack(mb, ids)
      PROVE  Promise!Acknowledge
  <2> DEFINE known == ids \cap Promise!IDs(files)
  <2>1. known \in SUBSET Promise!IDs(files) OBVIOUS
  <2>2. {m \in pruned : ~(m.mailbox = mb /\ m.id \in ids)}
          = {m \in pruned : ~(m.mailbox = mb /\ m.id \in known)}
    BY DEF pruned, Promise!IDs
  <2> HIDE DEF known
  <2> QED BY <1>4, <2>1, <2>2, PrunedSurvive DEF Ack, Promise!Acknowledge
<1>5. CASE Tick BY <1>5 DEF Tick, Promise!Tick, Promise!Next
<1>6. CASE UNCHANGED relayVars BY <1>6 DEF relayVars, Promise!vars
<1> QED BY <1>1, <1>2, <1>3, <1>4, <1>5, <1>6 DEF Call, Sending, Promise!Next

\* FileRelay implements Mailbox: pruning, quotas, failed and torn writes lose no
\* accepted message that is neither expired nor acknowledged, and Pull returns the
\* oldest messages that are due.
THEOREM FileRelayKeepsMailbox == Spec => KeepsMailbox
<1>1. Init => Promise!Init BY DEF Init, Promise!Init
<1> QED BY <1>1, InitConsistent, CallConsistent, NextCalls, CallPromised, PTL
       DEF Spec, KeepsMailbox, Promise!Spec
=============================================================================
