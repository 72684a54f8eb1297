--------------------------- MODULE SecurityLayer ---------------------------
(***************************************************************************)
(* What a node remembers of a peer and how it judges the peer's messages:  *)
(* the trust record of pkg/ledgersync/security.go.  Every operator below   *)
(* runs under the layer's mutex, so it is one step of its caller; it takes *)
(* the peer's record and yields the new one, with the decision where there *)
(* is one.  A quarantine is kept as the time that is left of it.           *)
(***************************************************************************)
EXTENDS Integers, FiniteSets

CONSTANTS
    InitialScore, MinScore,
    QuarantineBase, QuarantineMax, QuarantineAfterRejects,
    SybilWarmupApplied,
    MaxInventorySize, MaxHeadsPerRound, MaxWantsPerRound,
    InventoryEchoThreshold, InventoryClusterThreshold,
    RelayMaxInbound, AgentMaxInbound,   \* sizes a relay or an agent may send
    ColdMaxInbound,                     \* size of events a new peer may send
    NoDigest

MaxScore == 120

AtMost(x, most) == IF x > most THEN most ELSE x

NewPeer(role) ==
    [role |-> role, score |-> InitialScore, penalty |-> 0, quarantine |-> 0,
     applied |-> 0, rejected |-> 0, digest |-> NoDigest, streak |-> 0]

Blocked(ps) == ps.quarantine > 0 \/ ps.score <= MinScore

isWarmLocked(ps) == ps.applied >= SybilWarmupApplied

\* The wait doubles with every penalty; it starts once the score is at the
\* bottom.
penalizeLocked(ps, amount) ==
    LET wait == IF ps.penalty < QuarantineBase THEN QuarantineBase
                ELSE AtMost(2 * ps.penalty, QuarantineMax)
        score == ps.score - amount
    IN  [ps EXCEPT !.score = score, !.penalty = wait,
                   !.quarantine = IF score <= MinScore THEN wait ELSE @]

Judge(decision, ps) == [decision |-> decision, ps |-> ps]

ObserveInbound(ps, type, size) ==
    IF Blocked(ps) THEN Judge("reject", ps)
    ELSE IF \/ ps.role = "relay" /\ size > RelayMaxInbound
            \/ ps.role = "agent" /\ size > AgentMaxInbound
    THEN Judge("reject", penalizeLocked(ps, 12))
    ELSE IF type = "events" /\ ~isWarmLocked(ps) /\ size > ColdMaxInbound
    THEN Judge("defer", ps)
    ELSE Judge("accept", ps)

\* alike: the other peers that showed this inventory within the window.
ObserveInventory(ps, inv, alike) ==
    LET known == inv.heads \cup inv.have # {}
        streak == IF ps.digest = inv THEN ps.streak + 1 ELSE 1
        noted == IF known THEN [ps EXCEPT !.digest = inv, !.streak = streak] ELSE ps
        echoed == IF known /\ streak >= InventoryEchoThreshold
                  THEN penalizeLocked(noted, 4) ELSE noted
    IN  IF Cardinality(inv.heads) > MaxHeadsPerRound THEN Judge("reject", penalizeLocked(ps, 6))
        ELSE IF Cardinality(inv.have) > MaxInventorySize
        THEN Judge("reject", penalizeLocked(ps, 8))
        ELSE IF known /\ streak >= InventoryEchoThreshold + 2 THEN Judge("defer", echoed)
        ELSE IF known /\ Cardinality(alike) + 1 >= InventoryClusterThreshold
        THEN Judge("defer", penalizeLocked(echoed, 3))
        ELSE Judge("accept", echoed)

ObserveWant(ps, want) ==
    LET n == Cardinality(want)
    IN  IF Blocked(ps) THEN Judge("reject", ps)
        ELSE IF n > 2 * MaxWantsPerRound THEN Judge("reject", penalizeLocked(ps, 10))
        ELSE IF n > MaxWantsPerRound THEN Judge("defer", penalizeLocked(ps, 6))
        ELSE IF \/ ps.role = "relay" /\ n > MaxWantsPerRound \div 2
                \/ ps.role = "agent" /\ n > MaxWantsPerRound \div 3
        THEN Judge("defer", penalizeLocked(ps, 4))
        ELSE Judge("accept", ps)

ObserveApplyReport(ps, rep) ==
    LET applied == [ps EXCEPT !.applied = @ + rep.applied,
                              !.score = @ + AtMost(2 * rep.applied, 8)
                                          - (IF rep.dupe > 8 THEN 2 ELSE 0)]
        rejected == penalizeLocked([applied EXCEPT !.rejected = @ + rep.rejected],
                                   AtMost(8 * rep.rejected, 30))
        judged == IF rep.rejected = 0 THEN applied
                  ELSE IF QuarantineAfterRejects > 0 /\ rejected.rejected >= QuarantineAfterRejects
                  THEN [rejected EXCEPT !.quarantine = rejected.penalty]
                  ELSE rejected
    IN  [judged EXCEPT !.score = AtMost(@, MaxScore)]

\* PeerPriority is negative, and SelectPeers passes the peer over, while it
\* is quarantined; otherwise it grows with the time since the last contact.
Selectable(ps) == ps.quarantine = 0

Elapse(ps) == [ps EXCEPT !.quarantine = IF @ > 0 THEN @ - 1 ELSE 0]
=============================================================================
