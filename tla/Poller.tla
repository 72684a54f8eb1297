------------------------------- MODULE Poller -------------------------------
(***************************************************************************)
(* The receiving side of a mailbox: Poller.Run (pkg/relay/relay.go) against*)
(* a FileRelay, restarted and moved to the next mailbox by                 *)
(* runPersonaPollerRotationLoop (cmd/inside/daemon.go).  Messages are      *)
(* pulled, handled and acknowledged in batches; a pull or an               *)
(* acknowledgement may be lost, the handler may fail, and the poller may   *)
(* be stopped between any two steps, which forgets the ids it meant to     *)
(* acknowledge.  The batch in hand is the relay's last reply.              *)
(***************************************************************************)
EXTENDS FileRelay

CONSTANTS First,        \* the mailbox polled at the start
          PollLimit,    \* PollOptions.Limit
          AckBatchMax,  \* PollOptions.AckBatchMax
          maxAckIDs,    \* the most ids an AckRequest may carry
          MaxStops,     \* bound on the times the poller is stopped
          Watched       \* the ids whose delivery is followed; any one stands for all

ASSUME PollerNormalized ==
  /\ First \in MailboxIDs
  /\ PollLimit \in Nat \ {0} /\ AckBatchMax \in Nat \ {0}
  /\ maxAckIDs \in Nat /\ AckBatchMax + PollLimit <= maxAckIDs + 1

VARIABLES pc,        \* the step of the loop that comes next
          pending,   \* ids handled and not acknowledged yet
          mailbox,   \* the mailbox of this poller
          retired,   \* mailboxes polled before, now decoys
          restarts,  \* restarts so far
          accepted,  \* every message a Push was accepted for
          handled    \* the ids of batches for which Handle returned nil

pollVars == <<pc, pending, mailbox, retired, restarts, handled>>
vars == <<files, dirs, torn, used, reply, now, pc, pending, mailbox, retired,
          restarts, accepted, handled>>

IDs(M) == {m.id : m \in M}

-----------------------------------------------------------------------------
PInit ==
  /\ Init
  /\ pc = "pull" /\ pending = {} /\ mailbox = First /\ retired = {}
  /\ restarts = 0 /\ accepted = {} /\ handled = {}

Pulled ==
  /\ pc = "pull" /\ Pull(mailbox, PollLimit)
  /\ pc' = IF reply' = {} THEN "after" ELSE "handle"
  /\ UNCHANGED <<pending, mailbox, retired, restarts, accepted, handled>>

\* The answer is lost: the poller backs off and pulls again.
PullLost ==
  /\ pc = "pull" /\ Pull(mailbox, PollLimit)
  /\ UNCHANGED pollVars /\ UNCHANGED accepted

AfterHandle_Unbounded(ids) == "after"

AfterHandle(ids) ==
  IF Cardinality(ids) >= AckBatchMax THEN "flush" ELSE "after"

HandleOK ==
  /\ pc = "handle"
  /\ handled' = handled \cup IDs(reply)
  /\ pending' = pending \cup IDs(reply)
  /\ pc' = AfterHandle(pending')
  /\ UNCHANGED <<mailbox, retired, restarts, accepted>> /\ UNCHANGED relayVars

HandleErr_Acks ==
  /\ pc = "handle" /\ pc' = "after"
  /\ pending' = pending \cup IDs(reply)
  /\ UNCHANGED <<mailbox, retired, restarts, accepted, handled>>
  /\ UNCHANGED relayVars

\* Handle returned an error: nothing of the batch will be acknowledged.
HandleErr ==
  /\ pc = "handle" /\ pc' = "after"
  /\ UNCHANGED <<pending, mailbox, retired, restarts, accepted, handled>>
  /\ UNCHANGED relayVars

AckDue_FullBatch ==
  /\ pc = "after" /\ Cardinality(pending) >= AckBatchMax /\ pc' = "flush"
  /\ UNCHANGED <<pending, mailbox, retired, restarts, accepted, handled>>
  /\ UNCHANGED relayVars

\* AckBatchSec have passed since the last acknowledgement.
AckDue ==
  /\ pc = "after" /\ pending # {} /\ pc' = "flush"
  /\ UNCHANGED <<pending, mailbox, retired, restarts, accepted, handled>>
  /\ UNCHANGED relayVars

\* flushAcks forgets the ids before it sends them.
FlushAcks ==
  /\ pc = "flush" /\ Cardinality(pending) <= maxAckIDs
  /\ Ack(mailbox, pending)
  /\ pc' = "after" /\ pending' = {}
  /\ UNCHANGED <<mailbox, retired, restarts, accepted, handled>>

\* The call fails, or carries more ids than Validate allows; nobody looks.
FlushLost ==
  /\ pc = "flush" /\ pc' = "after" /\ pending' = {}
  /\ UNCHANGED <<mailbox, retired, restarts, accepted, handled>>
  /\ UNCHANGED relayVars

\* The end of the cycle, with or without a cover acknowledgement of random ids
\* or a decoy pull of an earlier mailbox, whose messages are thrown away.
EndCycle ==
  /\ pc = "after" /\ pc' = "pull"
  /\ \/ UNCHANGED relayVars
     \/ Ack(mailbox, {})
     \/ \E d \in retired : Pull(d, 1)
  /\ UNCHANGED <<pending, mailbox, retired, restarts, accepted, handled>>

\* The poller is cancelled, or the process dies, and a new one is started.
Restart ==
  /\ restarts + Cardinality(retired) < MaxStops /\ restarts' = restarts + 1
  /\ pc' = "pull" /\ pending' = {}
  /\ UNCHANGED <<mailbox, retired, accepted, handled>> /\ UNCHANGED relayVars

\* The mailbox rotates: the old poller is cancelled and one for the mailbox of
\* the next epoch is started.
Rotate ==
  /\ restarts + Cardinality(retired) < MaxStops
  /\ \E mb \in MailboxIDs \ (retired \cup {mailbox}) : mailbox' = mb
  /\ retired' = retired \cup {mailbox}
  /\ pc' = "pull" /\ pending' = {}
  /\ UNCHANGED <<restarts, accepted, handled>> /\ UNCHANGED relayVars

Senders ==
  /\ Sending
  /\ accepted' = accepted \cup (files' \ files)
  /\ UNCHANGED pollVars

Clock == Tick /\ UNCHANGED pollVars /\ UNCHANGED accepted

Loop == \/ Pulled \/ PullLost \/ HandleOK \/ HandleErr \/ AckDue
        \/ FlushAcks \/ FlushLost \/ EndCycle

PNext == Loop \/ Restart \/ Rotate \/ Senders \/ Clock

PSpec == PInit /\ [][PNext]_vars

\* The loop keeps running; a relay and a handler that are tried again and again
\* answer some of the time, and each cycle takes time, so AckBatchSec passes.
Fairness ==
  /\ WF_vars(Loop) /\ SF_vars(Pulled) /\ SF_vars(HandleOK)
  /\ SF_vars(AckDue) /\ SF_vars(FlushAcks)

FairSpec == PSpec /\ Fairness

-----------------------------------------------------------------------------
(* Properties. *)

\* At-least-once: a message that a Push was accepted for is still stored, or
\* Handle succeeded on a batch with it, or its deadline has passed, whatever
\* is lost, cancelled, restarted or rotated in between.
NothingLost ==
  \A m \in accepted : m \in files \/ m.id \in handled \/ Lapsed(m)

\* The ids of one acknowledgement fit an AckRequest: the batch is flushed
\* before another full pull could push it over the limit of Validate, which
\* would refuse the whole batch.
AckFits == Cardinality(pending) <= maxAckIDs

\* A message without a deadline is handled in the end, unless the poller moves
\* to another mailbox first: handled messages that are not acknowledged yet
\* may fill the limit of a pull, but never for ever.
EventuallyHandled ==
  \A id \in Watched :
    (\E m \in accepted : m.id = id /\ m.mailbox = mailbox /\ m.deadline = 0)
      ~> (id \in handled \/ \E m \in accepted : m.id = id /\ m.mailbox # mailbox)
=============================================================================
