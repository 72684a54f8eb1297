------------------------------ MODULE MCRelays -------------------------------
(***************************************************************************)
(* The two relays behind the Relay interface, FileRelay and MemoryRelay,   *)
(* against the one promise of Mailbox.  A behaviour is a behaviour of one  *)
(* of them, and which says of which.                                       *)
(*                                                                         *)
(* Two mailboxes and messages with and without deadline and delay.  The    *)
(* file relay gets four of them, with a quota of two per mailbox and of    *)
(* three in all, so that either quota can be the one that refuses a push;  *)
(* the memory relay gets three, and one second more, since it drops a      *)
(* message a second later.                                                 *)
(***************************************************************************)
EXTENDS FileRelay, TLC

CONSTANTS MaxMemoryNow, MaxMemoryMessages  \* bounds for the memory relay

VARIABLES which, mailboxQ, answer

fileVars == <<files, dirs, torn, reply>>
memoryVars == <<mailboxQ, answer>>

Memory == INSTANCE MemoryRelay WITH reply <- answer, MaxNow <- MaxMemoryNow

MCInit ==
  /\ Init /\ Memory!Init
  /\ which \in {"file", "memory"}

MCNext ==
  /\ UNCHANGED which
  /\ \/ which = "file" /\ Next /\ UNCHANGED memoryVars
     \/ /\ which = "memory" /\ Memory!Next /\ UNCHANGED fileVars
        /\ Cardinality(used') <= MaxMemoryMessages

MCSpec == MCInit /\ [][MCNext]_<<relayVars, memoryVars, which>>

Symmetry == Permutations(MessageIDs) \cup Permutations(MailboxIDs)

-----------------------------------------------------------------------------
\* Both relays keep the promise of the Relay interface: pruning, quotas, crashes
\* in a write and restarts lose no message that is neither expired nor
\* acknowledged, and Pull returns the oldest messages that are due.
RelaysKeepMailbox == KeepsMailbox /\ Memory!KeepsMailbox
=============================================================================
