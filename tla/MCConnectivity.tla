--------------------------- MODULE MCConnectivity ---------------------------
(***************************************************************************)
(* Two loops a connected node lives on: the pulling of event batches from  *)
(* a relay, and Switch, which finds a profile that works.  They share no   *)
(* state, so a behaviour is one of either, and part says of which.         *)
(*                                                                         *)
(* Relay: two mailboxes, messages of every kind and a scheduler that holds *)
(* two batches, one per class.  Failover: two candidates and two callers,  *)
(* which make three calls in turn or side by side, whose contexts may end; *)
(* the process dies once.                                                  *)
(***************************************************************************)
EXTENDS Failover, TLC

CONSTANTS
    Boxes, MaxTotal, MaxPerPeer, MaxClass, ClassWeight, Limit, DrainMax,
    MaxInboundMsgs, PenaltyBase, PenaltyMax, RecentMsgTTL, Shapes, MaxPublished,
    MaxAckFailures, InitialScore, MinScore, QuarantineBase, QuarantineMax,
    QuarantineAfterRejects, SybilWarmupApplied, MaxInventorySize, MaxHeadsPerRound,
    MaxWantsPerRound, InventoryEchoThreshold, InventoryClusterThreshold,
    RelayMaxInbound, AgentMaxInbound, ColdMaxInbound, NoDigest

VARIABLES
    part, way, queue, quota, patIdx, hop, box, gate, trust, call, held, refused,
    overflow, dropped, sent, ackFailures

Relay == INSTANCE RelaySync

relayVars == <<way, queue, quota, patIdx, hop, box, gate, trust, call, held, refused,
               overflow, dropped, sent, ackFailures>>
allVars == <<vars, relayVars, part>>

MCMaxClass == (0 :> 1) @@ (1 :> 1) @@ (2 :> 1)
Shape(t, p, s, bad) == [type |-> t, parts |-> p, size |-> s, bad |-> bad]
MCShapes == {Shape("events", {0, 2}, 1, FALSE), Shape("events", {2}, 2, TRUE),
             Shape("other", {}, 1, FALSE), Shape("foreign", {0}, 1, FALSE)}

\* A pull has one mailbox; between the pollers nothing is forwarded or late.
RelayNext ==
    /\ Relay!Next
    /\ IF way = "pull" THEN box'[2] = <<>> /\ hop'[2] = <<>>
       ELSE /\ hop' = hop /\ ackFailures' = 0
            /\ \/ \A b \in Boxes : gate'[b].inMsgs >= gate[b].inMsgs
               \/ Cardinality(sent) = MaxPublished /\ \A b \in Boxes : box[b] = <<>>

\* The process dies, or a context ends, in the first two calls.
FailoverNext == Next /\ (calls' = MaxCalls => deaths' = 0 /\ ctxDone' = {})

MCInit ==
    /\ Init /\ Relay!Init
    /\ part \in {"failover", "relay"}
    /\ IF part = "failover" THEN way = "pull" ELSE ~overlap

MCNext ==
    /\ UNCHANGED part
    /\ \/ part = "failover" /\ FailoverNext /\ UNCHANGED relayVars
       \/ part = "relay" /\ RelayNext /\ UNCHANGED vars

\* The fairness of Spec and of Relay!Spec, each for its own part.
MCFairness ==
    /\ \A b \in Boxes : /\ WF_relayVars(part = "relay" /\ Relay!Take(b))
                        /\ WF_relayVars(part = "relay" /\ Relay!ForwardRelayOnce(b))
    /\ SF_relayVars(part = "relay" /\ Relay!Tick)
    /\ \A s \in Switchers : WF_vars(part = "failover" /\ Step(s))

MCSpec == MCInit /\ [][MCNext]_allVars /\ MCFairness

-----------------------------------------------------------------------------
\* Nothing is lost silently: a batch that is no longer on the relay is in the
\* ledger, was refused by it, waits in the scheduler or was turned away or evicted
\* by the full scheduler (PullAndApplyFromRelay, TryApplyWirePlaintext).
AckedAccounted == Relay!AckedAccounted

\* Pulling empties the mailbox: an ordinary events message is acknowledged in the
\* end, through rate limits, lost acknowledgements and a full scheduler.
RelayDrains == Relay!RelayDrains
=============================================================================
