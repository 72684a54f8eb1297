---------------------------- MODULE PollerProofs ----------------------------
(***************************************************************************)
(* Proofs about the poller over the relay on disk, for any mailboxes, ids, *)
(* limits and batch sizes that Normalize lets through and any number of    *)
(* restarts and rotations: no message is lost, every acknowledgement is    *)
(* accepted, and the relay keeps its promise under this use of it.         *)
(***************************************************************************)
EXTENDS Poller, FileRelayProofs

Steps == {"pull", "handle", "after", "flush"}

\* Types.
PollerTyped ==
  /\ pc \in Steps /\ mailbox \in MailboxIDs /\ retired \subseteq MailboxIDs
  /\ pending \subseteq MessageIDs /\ accepted \subseteq Message

\* Only ids whose batch was handled wait for an acknowledgement.
AcksHandled == pending \subseteq handled

\* The ids that wait are fewer than a batch, except right before the flush, and a
\* pull adds at most PollLimit of them.
BatchBounded ==
  /\ IsFiniteSet(pending)
  /\ pc # "flush" => Cardinality(pending) < AckBatchMax
  /\ pc = "handle" => IsFiniteSet(reply) /\ Cardinality(reply) =< PollLimit

\* The inductive invariant.
PollerInv ==
  RelayInv /\ PollerTyped /\ AcksHandled /\ NothingLost /\ BatchBounded /\ AckFits

-----------------------------------------------------------------------------
(* The poller as a user of the relay *)

\* Every step of the poller, of the senders and of the clock is one call of the
\* relay, or none.
LEMMA StepCalls ==
  ASSUME PollerTyped, [PNext]_vars
  PROVE  [Call]_relayVars
<1> USE DEF PollerTyped
<1>1. ASSUME Pulled \/ PullLost PROVE [Call]_relayVars
  BY <1>1, PollerNormalized DEF Pulled, PullLost, Call
<1>2. ASSUME FlushAcks PROVE [Call]_relayVars
  BY <1>2 DEF FlushAcks, Call
<1>3. ASSUME EndCycle PROVE [Call]_relayVars
  <2>1. {} \in SUBSET MessageIDs /\ 1 \in Nat \ {0} OBVIOUS
  <2> QED BY <1>3, <2>1 DEF EndCycle, Call
<1>4. ASSUME HandleOK \/ HandleErr \/ AckDue \/ FlushLost \/ Restart \/ Rotate
      PROVE  UNCHANGED relayVars
  BY <1>4 DEF HandleOK, HandleErr, AckDue, FlushLost, Restart, Rotate
<1>5. ASSUME Senders \/ Clock PROVE [Call]_relayVars
  BY <1>5 DEF Senders, Clock, Call
<1>6. CASE UNCHANGED vars BY <1>6 DEF vars, relayVars
<1> QED BY <1>1, <1>2, <1>3, <1>4, <1>5, <1>6 DEF PNext, Loop

\* The poller's variables are as they were.
LEMMA StepTyped ==
  ASSUME RelayInv, PollerTyped, AcksHandled, [PNext]_vars
  PROVE  PollerTyped' /\ AcksHandled'
<1> USE DEF PollerTyped, AcksHandled, Steps
<1>0. files \subseteq Message /\ reply \subseteq Message
  BY DEF RelayInv, StoreConsistent, TypeOK
<1>1. CASE Pulled BY <1>1 DEF Pulled
<1>2. CASE PullLost BY <1>2 DEF PullLost, pollVars
<1>3. CASE HandleOK
  BY <1>0, <1>3 DEF HandleOK, AfterHandle, IDs, Message
<1>4. CASE HandleErr \/ AckDue BY <1>4 DEF HandleErr, AckDue
<1>5. CASE FlushAcks \/ FlushLost BY <1>5 DEF FlushAcks, FlushLost
<1>6. CASE EndCycle BY <1>6 DEF EndCycle
<1>7. CASE Restart \/ Rotate BY <1>7 DEF Restart, Rotate
<1>8. CASE Senders
  <2>1. RelayInv' BY <1>8, StepCalls, CallConsistent DEF PNext
  <2>2. files' \subseteq Message BY <2>1 DEF RelayInv, StoreConsistent, TypeOK
  <2> QED BY <1>8, <2>2 DEF Senders, pollVars
<1>9. CASE Clock BY <1>9 DEF Clock, pollVars
<1>10. CASE UNCHANGED vars BY <1>10 DEF vars
<1> QED BY <1>1, <1>2, <1>3, <1>4, <1>5, <1>6, <1>7, <1>8, <1>9, <1>10 DEF PNext, Loop

-----------------------------------------------------------------------------
(* No message is lost *)

\* A deadline that has passed stays passed, whatever a call does to the store.
LEMMA LapsedStays ==
  ASSUME RelayInv, [Call]_relayVars, NEW m \in Message, Lapsed(m)
  PROVE  Lapsed(m)'
<1>1. now \in Nat BY DEF RelayInv, StoreConsistent, TypeOK
<1>2. now' = now \/ now' = now + 1
  BY DEF Call, Sending, Push, PushFull, PushFail, PushCrash, Pull, Ack, Tick, relayVars
<1> QED BY <1>1, <1>2 DEF Lapsed, Message

\* No call but Ack removes a message that has not lapsed, and Ack only those whose
\* ids it names.
LEMMA Keeps ==
  ASSUME NEW m \in files, ~Lapsed(m)
  PROVE  /\ Sending => m \in files'
         /\ \A mb, limit : Pull(mb, limit) => m \in files'
         /\ \A mb, ids : Ack(mb, ids) => m \in files' \/ m.id \in ids
         /\ Tick => m \in files'
BY DEF Sending, Push, PushFull, PushFail, PushCrash, Pull, Ack, Tick, pruned

\* No step loses a message that Push accepted.
LEMMA StepLosesNothing ==
  ASSUME RelayInv, PollerTyped, AcksHandled, NothingLost, [PNext]_vars
  PROVE  NothingLost'
<1>1. \A m \in accepted : Lapsed(m) => Lapsed(m)'
  BY StepCalls, LapsedStays DEF PollerTyped
<1>2. ASSUME handled \subseteq handled', accepted' = accepted \cup (files' \ files),
             \A m \in files : Lapsed(m) \/ m \in files' \/ m.id \in handled
      PROVE  NothingLost'
  BY <1>1, <1>2 DEF NothingLost
<1>3. ASSUME handled \subseteq handled', accepted' = accepted,
             \A m \in files : Lapsed(m) \/ m \in files' \/ m.id \in handled
      PROVE  NothingLost'
  BY <1>1, <1>3 DEF NothingLost
<1>4. CASE Pulled \/ PullLost
  BY <1>3, <1>4, Keeps DEF Pulled, PullLost, pollVars
<1>5. CASE HandleOK \/ HandleErr \/ AckDue \/ FlushLost \/ Restart \/ Rotate
  BY <1>3, <1>5 DEF HandleOK, HandleErr, AckDue, FlushLost, Restart, Rotate, relayVars
<1>6. CASE FlushAcks
  BY <1>3, <1>6, Keeps DEF FlushAcks, AcksHandled
<1>7. CASE EndCycle
  <2>1. \A m \in files : Lapsed(m) \/ m \in files'
    BY <1>7, Keeps DEF EndCycle, relayVars
  <2> QED BY <1>3, <1>7, <2>1 DEF EndCycle
<1>8. CASE Senders
  BY <1>2, <1>8, Keeps DEF Senders, pollVars
<1>9. CASE Clock
  BY <1>3, <1>9, Keeps DEF Clock, pollVars
<1>10. CASE UNCHANGED vars
  BY <1>3, <1>10 DEF vars
<1> QED BY <1>4, <1>5, <1>6, <1>7, <1>8, <1>9, <1>10 DEF PNext, Loop

-----------------------------------------------------------------------------
(* Acknowledgements fit *)

\* A batch has no more ids than messages.
LEMMA FewIDs ==
  ASSUME NEW M, IsFiniteSet(M)
  PROVE  IsFiniteSet(IDs(M)) /\ Cardinality(IDs(M)) =< Cardinality(M)
<1> DEFINE f == [m \in M |-> m.id]
<1>1. f \in Surjection(M, IDs(M)) BY DEF Surjection, IDs
<1> QED BY <1>1, FS_Surjection

\* The ids that wait and those of a batch are together at most as many as both.
LEMMA FewTogether ==
  ASSUME NEW A, IsFiniteSet(A), NEW B, IsFiniteSet(B)
  PROVE  /\ IsFiniteSet(A \cup B) /\ Cardinality(A \cup B) \in Nat
         /\ Cardinality(A \cup B) =< Cardinality(A) + Cardinality(B)
<1>1. /\ IsFiniteSet(A \cup B)
      /\ Cardinality(A \cup B) = Cardinality(A) + Cardinality(B) - Cardinality(A \cap B)
  BY FS_Union
<1>2. IsFiniteSet(A \cap B) BY FS_Intersection
<1>3. /\ Cardinality(A) \in Nat /\ Cardinality(B) \in Nat
      /\ Cardinality(A \cup B) \in Nat /\ Cardinality(A \cap B) \in Nat
  BY <1>1, <1>2, FS_CardinalityType
<1> QED BY <1>1, <1>3

\* A pull returns at most PollLimit messages.
LEMMA PullBounded ==
  ASSUME RelayInv, NEW mb, NEW limit \in Nat \ {0}, Pull(mb, limit)
  PROVE  IsFiniteSet(reply') /\ Cardinality(reply') =< limit
<1> DEFINE due == Available(mb)
<1>1. IsFiniteSet(files) /\ due \in SUBSET files BY DEF RelayInv, Available, pruned
<1>2. IsFiniteSet(due) /\ Cardinality(due) \in Nat BY <1>1, FS_Subset, FS_CardinalityType
<1>3. reply' \in SUBSET due /\ Cardinality(reply') = Min({limit, Cardinality(due)})
  BY DEF Pull, pullAvailableLocked
<1> HIDE DEF due
<1>4. Min({limit, Cardinality(due)}) =< limit
  <2> DEFINE S == {limit, Cardinality(due)}
  <2>1. \E x \in S : \A y \in S : x =< y
    <3>1. CASE limit =< Cardinality(due) BY <1>2, <3>1
    <3>2. CASE Cardinality(due) =< limit BY <1>2, <3>2
    <3> QED BY <1>2, <3>1, <3>2
  <2> QED BY <2>1 DEF Min
<1> QED BY <1>2, <1>3, <1>4, FS_Subset

\* An empty list of ids is short enough.
LEMMA NonePending ==
  /\ IsFiniteSet({}) /\ Cardinality({}) = 0
  /\ 0 < AckBatchMax /\ AckBatchMax =< maxAckIDs /\ 0 =< maxAckIDs
BY FS_EmptySet, PollerNormalized

\* No step lets the ids that wait outgrow an AckRequest.
LEMMA StepFits ==
  ASSUME RelayInv, PollerTyped, BatchBounded, AckFits, [PNext]_vars
  PROVE  BatchBounded' /\ AckFits'
<1> USE DEF BatchBounded, AckFits
<1>1. CASE Pulled
  <2>1. IsFiniteSet(reply') /\ Cardinality(reply') =< PollLimit
    BY <1>1, PullBounded, PollerNormalized DEF Pulled
  <2> QED BY <1>1, <2>1 DEF Pulled
<1>2. CASE PullLost
  BY <1>2 DEF PullLost, pollVars
<1>3. CASE HandleOK
  <2>1. /\ pc = "handle" /\ pending' = pending \cup IDs(reply)
        /\ pc' = IF Cardinality(pending') >= AckBatchMax THEN "flush" ELSE "after"
    BY <1>3 DEF HandleOK, AfterHandle
  <2>2. /\ IsFiniteSet(reply) /\ Cardinality(reply) =< PollLimit
        /\ IsFiniteSet(pending) /\ Cardinality(pending) < AckBatchMax
    BY <2>1
  <2>3. IsFiniteSet(IDs(reply)) /\ Cardinality(IDs(reply)) =< Cardinality(reply) BY <2>2, FewIDs
  <2>4. /\ IsFiniteSet(pending') /\ Cardinality(pending') \in Nat
        /\ Cardinality(pending') =< Cardinality(pending) + Cardinality(IDs(reply))
    BY <2>1, <2>2, <2>3, FewTogether
  <2>5. /\ Cardinality(pending) \in Nat /\ Cardinality(reply) \in Nat
        /\ Cardinality(IDs(reply)) \in Nat
    BY <2>2, <2>3, FS_CardinalityType
  <2>6. Cardinality(pending') =< maxAckIDs
    BY <2>2, <2>3, <2>4, <2>5, PollerNormalized
  <2>7. pc' # "flush" => Cardinality(pending') < AckBatchMax
    BY <2>1, <2>4, PollerNormalized
  <2>8. pc' # "handle" BY <2>1
  <2> QED BY <2>4, <2>6, <2>7, <2>8
<1>4. CASE HandleErr BY <1>4 DEF HandleErr
<1>5. CASE AckDue BY <1>5 DEF AckDue
<1>6. CASE FlushAcks \/ FlushLost BY <1>6, NonePending DEF FlushAcks, FlushLost
<1>7. CASE EndCycle BY <1>7 DEF EndCycle
<1>8. CASE Restart \/ Rotate BY <1>8, NonePending DEF Restart, Rotate
<1>9. CASE Senders
  <2>1. reply' = reply BY <1>9 DEF Senders, Sending, Push, PushFull, PushFail, PushCrash
  <2> QED BY <1>9, <2>1 DEF Senders, pollVars
<1>10. CASE Clock
  BY <1>10 DEF Clock, Tick, pollVars
<1>11. CASE UNCHANGED vars BY <1>11 DEF vars
<1> QED BY <1>1, <1>2, <1>3, <1>4, <1>5, <1>6, <1>7, <1>8, <1>9, <1>10, <1>11 DEF PNext, Loop

-----------------------------------------------------------------------------
(* The theorems *)

\* PollerInv is an inductive invariant of the poller, its relay and the senders.
LEMMA Inductive == PSpec => []PollerInv
<1>1. PInit => PollerInv
  <2> SUFFICES ASSUME PInit PROVE PollerInv OBVIOUS
  <2>1. RelayInv BY InitConsistent DEF PInit
  <2>2. PollerTyped /\ AcksHandled /\ NothingLost
    BY PollerNormalized DEF PInit, PollerTyped, Steps, AcksHandled, NothingLost
  <2>3. BatchBounded /\ AckFits BY NonePending DEF PInit, BatchBounded, AckFits
  <2> QED BY <2>1, <2>2, <2>3 DEF PollerInv
<1>2. PollerInv /\ [PNext]_vars => PollerInv'
  BY StepCalls, CallConsistent, StepTyped, StepLosesNothing, StepFits DEF PollerInv
<1> QED BY <1>1, <1>2, PTL DEF PSpec

\* At-least-once delivery, for any number of messages, mailboxes, lost calls, failed
\* handlers, restarts and rotations: a message that a Push was accepted for is
\* stored, or was handled, or its deadline has passed.
THEOREM AtLeastOnce == PSpec => []NothingLost
<1>1. PollerInv => NothingLost BY DEF PollerInv
<1> QED BY <1>1, Inductive, PTL

\* For all limits that Normalize lets through, no flush carries more ids than
\* AckRequest.Validate allows.
THEOREM AcksAccepted == PSpec => []AckFits
<1>1. PollerInv => AckFits BY DEF PollerInv
<1> QED BY <1>1, Inductive, PTL

\* Used by a poller and any senders, the relay implements Mailbox, and its store is
\* consistent.
THEOREM PolledRelayKeepsMailbox == PSpec => KeepsMailbox /\ []StoreConsistent
<1>1. PInit => Promise!Init BY DEF PInit, Init, Promise!Init
<1>2. PollerInv /\ [PNext]_vars => [Promise!Next]_(Promise!vars)
  BY StepCalls, CallPromised DEF PollerInv
<1>3. PollerInv => StoreConsistent BY DEF PollerInv, RelayInv
<1> QED BY <1>1, <1>2, <1>3, Inductive, PTL DEF PSpec, KeepsMailbox, Promise!Spec
=============================================================================
