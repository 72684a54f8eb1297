------------------------------- MODULE MCMesh -------------------------------
(***************************************************************************)
(* The two layers of the mesh: the proximity router that carries messages  *)
(* and the exchange that carries ledger events.  The exchange uses a       *)
(* transport of its own, so a behaviour is one of either, and part says of *)
(* which.                                                                  *)
(***************************************************************************)
EXTENDS MeshRouter

CONSTANTS
    x, y, z,
    Role, Askers, Writers, Start, MaxHave, MaxWant, MaxEvents, MaxPeersPerRound,
    MaxRelaysPerRound, MaxAgentsPerRound, MaxSeq,
    InitialScore, MinScore, QuarantineBase, QuarantineMax, QuarantineAfterRejects,
    SybilWarmupApplied, MaxInventorySize, MaxHeadsPerRound, MaxWantsPerRound,
    InventoryEchoThreshold, InventoryClusterThreshold,
    RelayMaxInbound, AgentMaxInbound, ColdMaxInbound, NoDigest

VARIABLES part, ledger, trust, invSeen, wire, lost

exchangeVars == <<ledger, trust, invSeen, wire, lost>>
allVars == <<vars, exchangeVars, part>>

\* Three nodes in a row, of which the first sends.  A long message travels alone
\* and may meet losses and a partition; short ones follow each other.  The
\* tickers, at intervals of seconds, find the frames sent before received.
MCLinks == {{x, y}, {y, z}}
Calm == net = {} /\ \A n \in Nodes : node[n].timers = {}
Long == \E m \in sent : m.chunks > 1
RouterNext ==
    /\ Next
    /\ Long' => now' <= 1 /\ Cardinality(sent') = 1
    /\ sent' # {} /\ ~Long' => inRange = Links /\ losses' = 0
    /\ sent = {} => losses' = 0 /\ now' = 0
    /\ now' # now => Calm
    /\ (\E f \in net' \ net : f.kind = "inv") => Calm
    /\ (node' # node /\ net' = net) => Calm

\* x asks y, which goes on writing its chain, and z, a relay that holds the
\* beginning of it.
MCRole == [n \in Nodes |-> IF n = z THEN "relay" ELSE "normal"]
MCStart == [n \in Nodes |-> IF n = x THEN {} ELSE [author : {y}, seq : 1 .. 2]]

Events == INSTANCE MeshSync WITH net <- wire, losses <- lost

MeshInit ==
    /\ Init /\ Events!Init
    /\ part \in {"router", "exchange"}
    /\ part = "exchange" => inRange = Links

MeshNext ==
    /\ UNCHANGED part
    /\ \/ part = "router" /\ RouterNext /\ UNCHANGED exchangeVars
       \/ part = "exchange" /\ Events!Next /\ UNCHANGED vars

\* Events!Fairness, for the behaviours that are an exchange.
ExchangeFairness ==
    /\ \A n \in Nodes : WF_exchangeVars(part = "exchange" /\ Events!ReceiveOnce(n))
    /\ \A n \in Askers : \A m \in Nodes \ {n} :
        SF_exchangeVars(part = "exchange" /\ Events!SyncRound(n) /\ \E msg \in wire' : msg.to = m)

MeshSpec ==
    /\ MeshInit /\ [][MeshNext]_allVars
    /\ Fairness /\ ExchangeFairness

-----------------------------------------------------------------------------
\* A node that is behind a peer catches up with it, even when messages of an
\* exchange are lost: the next round asks again for what is missing.
CatchesUp == part = "exchange" => Events!CatchesUp
=============================================================================
