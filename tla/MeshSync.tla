------------------------------ MODULE MeshSync ------------------------------
(***************************************************************************)
(* Ledger synchronisation over the mesh (SyncRound and ReceiveOnce of      *)
(* pkg/ledgersync/service.go with pkg/ledger/sync.go).  One exchange is    *)
(*    heads ->  <- inv  want ->  <- events                                 *)
(* and the asking node applies what it gets.  The mesh may lose messages;  *)
(* a repeated one is dropped by alreadySeenMsg, as every session is new.   *)
(*                                                                         *)
(* Events are the links of one chain per author.  Ids are ideal hashes, so *)
(* a node holds an event or does not.  Instances stay below 8 wants and 32 *)
(* events, where the privacy sampling and noise start, and below the rate  *)
(* and scheduler limits RelaySync is about: the three batches ReceiveOnce  *)
(* enqueues are fewer than the eight it then drains.                       *)
(***************************************************************************)
EXTENDS SecurityLayer

CONSTANTS
    Nodes, Role,
    Askers,      \* nodes whose host runs rounds
    Writers,     \* nodes whose user writes
    MaxHave, MaxWant, MaxEvents, MaxPeersPerRound,
    MaxRelaysPerRound, MaxAgentsPerRound,
    Start,       \* the events a node holds at first, in author order
    MaxSeq,      \* events an author writes
    MaxLosses    \* messages the mesh loses

VARIABLES
    ledger,   \* ledger[n]: events, heads and missing references of n
    trust,    \* trust[n][m]: n's record of m
    invSeen,  \* invSeen[n]: <<inventory, peer>> n saw within the window
    net, losses

vars == <<ledger, trust, invSeen, net, losses>>

NoEvents == [events |-> {}, heads |-> {}, missing |-> {}]

Prev(e) == IF e.seq = 1 THEN {} ELSE {[e EXCEPT !.seq = @ - 1]}

\* Ledger.Add of a valid event: references that are not there are noted.
Add(L, e) ==
    [events |-> L.events \cup {e},
     heads |-> (L.heads \ Prev(e)) \cup {e},
     missing |-> (L.missing \ {e}) \cup (Prev(e) \ L.events)]

Own(n) == {e \in ledger[n].events : e.author = n}

----------------------------------------------------------------------------
(* Messages *)

Msg(type, from, to, body) == [type |-> type, from |-> from, to |-> to, body |-> body]

\* The largest cuts of S that a limit allows; the code takes some order.
Cuts(S, limit) ==
    {T \in SUBSET S : Cardinality(T) = AtMost(Cardinality(S), limit)}

\* Have is in map order, so any MaxHave of the events.
BuildInventoryMessage(L) ==
    {[heads |-> L.heads, have |-> T] : T \in Cuts(L.events, MaxHave)}

\* Mutant: asks for the peer's heads only.
PlanSyncHeadsOnly(L, inv) == Cuts(inv.heads \ L.events, MaxWant)

\* Missing references first, then the peer's heads; both only if the peer
\* says it has them.
PlanSyncFromPeer(L, inv) ==
    LET missing == (L.missing \cap (inv.have \cup inv.heads)) \ L.events
        wanted == missing \cup (inv.heads \ L.events)
    IN  {W \in Cuts(wanted, MaxWant) : W \subseteq missing \/ missing \subseteq W}

BuildEventsMessageBounded(L, want) == Cuts(want \cap L.events, MaxEvents)

RECURSIVE AddAll(_, _)
AddAll(L, S) ==
    IF S = {} THEN L
    ELSE LET e == CHOOSE x \in S : \A y \in S : x.author = y.author => x.seq <= y.seq
         IN  AddAll(Add(L, e), S \ {e})

ApplyReport(L, S) ==
    [applied |-> Cardinality(S \ L.events), dupe |-> Cardinality(S \cap L.events), rejected |-> 0]

----------------------------------------------------------------------------
(* Rounds *)

RoleCount(P, role) == Cardinality({m \in P : Role[m] = role})

\* Whom a round may pick: priorities change with the time since the last
\* contact, so any set within the limits.
SelectPeers(n) ==
    {P \in SUBSET {m \in Nodes \ {n} : Selectable(trust[n][m])} :
        /\ P # {} /\ Cardinality(P) <= MaxPeersPerRound
        /\ RoleCount(P, "relay") <= MaxRelaysPerRound
        /\ RoleCount(P, "agent") <= MaxAgentsPerRound}

\* The host starts the next round when the last one has been answered or
\* lost.
SyncRound(n) ==
    /\ n \in Askers /\ net = {}
    /\ \E P \in SelectPeers(n) : net' = {Msg("heads", n, m, {}) : m \in P}
    /\ UNCHANGED <<ledger, trust, invSeen, losses>>

Handle(msg, d, replies) ==
    /\ net' = (net \ {msg}) \cup (IF d.decision = "accept" THEN replies ELSE {})
    /\ trust' = [trust EXCEPT ![msg.to][msg.from] = d.ps]
    /\ UNCHANGED losses

Judged(msg) == ObserveInbound(trust[msg.to][msg.from], msg.type, 0)

ReceiveHeads(msg) ==
    /\ msg.type = "heads"
    /\ \E inv \in BuildInventoryMessage(ledger[msg.to]) :
        Handle(msg, Judged(msg), {Msg("inv", msg.to, msg.from, inv)})
    /\ UNCHANGED <<ledger, invSeen>>

ReceiveInv(msg) ==
    LET in == Judged(msg)
        alike == {m \in Nodes \ {msg.from} : <<msg.body, m>> \in invSeen[msg.to]}
        d == IF in.decision = "accept" THEN ObserveInventory(in.ps, msg.body, alike) ELSE in
        deferred == in.decision # "accept" \/ d.decision = "reject"
                    \/ d.ps.streak >= InventoryEchoThreshold + 2
    IN  /\ msg.type = "inv"
        /\ \E want \in PlanSyncFromPeer(ledger[msg.to], msg.body) :
            Handle(msg, d, {Msg("want", msg.to, msg.from, want)})
        /\ invSeen' = IF deferred THEN invSeen
                      ELSE [invSeen EXCEPT ![msg.to] = @ \cup {<<msg.body, msg.from>>}]
        /\ UNCHANGED ledger

ReceiveWant(msg) ==
    LET in == Judged(msg)
        d == IF in.decision = "accept" THEN ObserveWant(in.ps, msg.body) ELSE in
    IN  /\ msg.type = "want"
        /\ \E evs \in BuildEventsMessageBounded(ledger[msg.to], msg.body) :
            Handle(msg, d, {Msg("events", msg.to, msg.from, evs)})
        /\ UNCHANGED <<ledger, invSeen>>

\* An empty events message enqueues nothing and is left alone.
ReceiveEvents(msg) ==
    LET in == Judged(msg)
        takes == in.decision = "accept" /\ msg.body # {}
        L == ledger[msg.to]
    IN  /\ msg.type = "events"
        /\ Handle(msg, IF takes THEN Judge("accept", ObserveApplyReport(in.ps, ApplyReport(L, msg.body)))
                       ELSE in, {})
        /\ ledger' = IF takes THEN [ledger EXCEPT ![msg.to] = AddAll(L, msg.body)] ELSE ledger
        /\ UNCHANGED invSeen

ReceiveOnce(n) ==
    \E msg \in net :
        /\ msg.to = n
        /\ ReceiveHeads(msg) \/ ReceiveInv(msg) \/ ReceiveWant(msg) \/ ReceiveEvents(msg)

Lose ==
    /\ losses < MaxLosses
    /\ \E msg \in net : net' = net \ {msg}
    /\ losses' = losses + 1
    /\ UNCHANGED <<ledger, trust, invSeen>>

\* Inventories older than InventoryWindow are forgotten, quarantines end.
TimePasses(n) ==
    /\ invSeen' = [invSeen EXCEPT ![n] = {}]
    /\ trust' = [trust EXCEPT ![n] = [m \in Nodes |-> Elapse(@[m])]]
    /\ UNCHANGED <<ledger, net, losses>>

\* The node's own user writes an event.
Write(n) ==
    /\ n \in Writers /\ Cardinality(Own(n)) < MaxSeq
    /\ ledger' = [ledger EXCEPT ![n] = Add(@, [author |-> n, seq |-> Cardinality(Own(n)) + 1])]
    /\ UNCHANGED <<trust, invSeen, net, losses>>

Init ==
    /\ ledger = [n \in Nodes |-> AddAll(NoEvents, Start[n])]
    /\ trust = [n \in Nodes |-> [m \in Nodes |-> NewPeer(Role[m])]]
    /\ invSeen = [n \in Nodes |-> {}]
    /\ net = {} /\ losses = 0

Next ==
    \/ \E n \in Nodes : SyncRound(n) \/ ReceiveOnce(n) \/ TimePasses(n) \/ Write(n)
    \/ Lose

\* ReceiveOnce runs in a loop.  The peer left alone longest has the highest
\* priority, so SelectPeers comes round to every peer it does not pass over.
Fairness ==
    /\ \A n \in Nodes : WF_vars(ReceiveOnce(n))
    /\ \A n \in Askers : \A m \in Nodes \ {n} :
        SF_vars(SyncRound(n) /\ \E msg \in net' : msg.to = m)

Spec == Init /\ [][Next]_vars /\ Fairness

----------------------------------------------------------------------------
(* Properties *)

Behind(n, m) == ledger[m].events \ ledger[n].events

\* An inventory n has not been shown before, from a peer with enough score
\* left to repeat it, and few enough events behind for the repetitions that
\* ObserveInventory allows.
Fresh(n, m) ==
    /\ trust[n][m].streak = 0 \/ ledger[m].heads # trust[n][m].digest.heads
    /\ trust[n][m].score > MinScore + 8 /\ ~Blocked(trust[n][m])
    /\ Cardinality(Behind(n, m)) + (MaxLosses - losses) <= InventoryEchoThreshold + 1

\* Liveness of anti-entropy: a node that is behind a peer catches up within
\* the repetitions of one inventory the echo rule allows (one exchange
\* yields one link of a chain), even when messages of an exchange are lost.
\* Fewer peers than InventoryClusterThreshold may share an inventory: from
\* there on ObserveInventory defers them all.
CatchesUp ==
    \A n \in Askers : \A m \in Nodes \ {n} : Fresh(n, m) ~> Behind(n, m) = {}
=============================================================================
