----------------------------- MODULE MeshRouter -----------------------------
(***************************************************************************)
(* The proximity mesh router (core/proximity/message_router with its       *)
(* cache_manager, replay_protection and partition_sync): a message is cut  *)
(* into chunks and flooded; a node that has all chunks delivers it, keeps  *)
(* it in its cache and may forward it after a random delay; inventories    *)
(* and wants repair what was lost, and what a partition kept apart.        *)
(*                                                                         *)
(* Message ids are ideal hashes.  The radio delivers frames in any order   *)
(* and loses some.  The token buckets of anti_flood_guard and the scores   *)
(* of relay_scoring look at rates the model does not count: a broadcast or *)
(* a frame they turn away is one that is lost.  MinRebroadcastEvery is     *)
(* less than the unit of time, a fraction of a replay bucket.              *)
(***************************************************************************)
EXTENDS Integers, FiniteSets, TLC

CONSTANTS
    Nodes, Links,        \* Links: sets of two nodes that can come in range
    Senders,             \* who sends
    Chunks,              \* the most chunks a message has
    MaxHop, CacheMaxItems, InventoryMax, WantMax,
    BucketDuration, Buckets,   \* the replay window is their product
    TTL, StaleAfter, Never,
    MaxMessages, MaxLosses, MaxTime

\* What New of replay_protection makes of its options; times are natural numbers.
ASSUME WindowSet ==
    /\ BucketDuration \in Nat \ {0} /\ Buckets \in Nat \ {0}
    /\ TTL \in Nat \ {0} /\ Never \notin Nat

VARIABLES
    node,      \* node[n]: cache, replay protection, partial messages, timers
    inRange,   \* the links that are up
    net,       \* frames on the air
    sent,      \* history: messages sent
    got,       \* history: <<n, m>> delivered by onMessage
    again,     \* history: <<n, m>> delivered more than once
    losses, now

vars == <<node, inRange, net, sent, got, again, losses, now>>

NewRouter ==
    [cache |-> [items |-> {}, order |-> {}],
     zero |-> Never, buckets |-> [i \in 1 .. Buckets |-> {}],
     parts |-> <<>>, lastForward |-> {}, timers |-> {}]

ExpiresAt(m) == m.ts + TTL

----------------------------------------------------------------------------
(* Cache: the items and, as <<older, newer>>, the order they were put in *)

Live(ms) == {m \in ms : now < ExpiresAt(m)}

Keep(cache, ms) ==
    [items |-> cache.items \cap ms, order |-> {x \in cache.order : x[1] \in ms /\ x[2] \in ms}]

Sweep(cache) == Keep(cache, Live(cache.items))

Has(r, m) == m \in Live(r.cache.items)

\* Get of the messages ms drops those that have expired.
Get(cache, ms) == Keep(cache, Live(cache.items) \cup (cache.items \ ms))

PushBack(cache, m) ==
    LET others == cache.items \ {m}
    IN  [items |-> others \cup {m},
         order |-> Keep(cache, others).order \cup {<<x, m>> : x \in others}]

WithoutFront(cache) ==
    IF Cardinality(cache.items) <= CacheMaxItems THEN cache
    ELSE Keep(cache, {x[2] : x \in cache.order})

Put(r, m) == [r EXCEPT !.cache = WithoutFront(PushBack(@, m))]

List(r, limit) ==
    {m \in Live(r.cache.items) :
        Cardinality({x \in r.cache.items : <<m, x>> \in r.cache.order /\ now < ExpiresAt(x)}) < limit}

----------------------------------------------------------------------------
(* Replay protection: newest bucket last *)

\* Mutant: a rotation shifts out one bucket too many.
rotateTooFar(r) ==
    LET shift == 1 + (now - r.zero) \div BucketDuration
    IN  IF r.zero = Never THEN [r EXCEPT !.zero = now]
        ELSE IF now - r.zero < BucketDuration THEN r
        ELSE [r EXCEPT !.zero = IF shift >= Buckets THEN now ELSE @ + shift * BucketDuration,
                       !.buckets = [i \in 1 .. Buckets |->
                                       IF i + shift <= Buckets THEN @[i + shift] ELSE {}]]

rotateLocked(r) ==
    LET shift == (now - r.zero) \div BucketDuration
    IN  IF r.zero = Never THEN [r EXCEPT !.zero = now]
        ELSE IF now - r.zero < BucketDuration THEN r
        ELSE [r EXCEPT !.zero = IF shift >= Buckets THEN now ELSE @ + shift * BucketDuration,
                       !.buckets = [i \in 1 .. Buckets |->
                                       IF i + shift <= Buckets THEN @[i + shift] ELSE {}]]

\* SeenOrAdd and Seen rotate first; these two take the rotated state.
Seen(r, m) == \E i \in 1 .. Buckets : m \in r.buckets[i]
AddSeen(r, m) == [r EXCEPT !.buckets[Buckets] = @ \cup {m}]

----------------------------------------------------------------------------
(* Frames *)

Neighbours(n) == {m \in Nodes : {n, m} \in inRange}

Air(n, kind, bodies) ==
    {[kind |-> kind, from |-> n, to |-> m, body |-> b] : m \in Neighbours(n), b \in bodies}

ChunkMessage(m, hop) == {[m |-> m, hop |-> hop, idx |-> i] : i \in 1 .. m.chunks}

\* broadcastMessage for every <<message, hop>> of ms.
broadcastMessage(n, ms) ==
    Air(n, "chunk", UNION {ChunkMessage(x[1], x[2]) : x \in ms})

\* The frame f is taken off the air, the frames of out are put on it.
Exchange(f, out) == net' = (net \ {f}) \cup out

\* A payload that fits chunks frames.
Send(n, chunks) ==
    LET m == [from |-> n, ts |-> now, k |-> Cardinality(sent), chunks |-> chunks]
    IN  /\ n \in Senders /\ Cardinality(sent) < MaxMessages
        /\ node' = [node EXCEPT ![n] = Put(@, m)]
        /\ net' = net \cup broadcastMessage(n, {<<m, 0>>})
        /\ sent' = sent \cup {m}
        /\ UNCHANGED <<inRange, got, again, losses, now>>

----------------------------------------------------------------------------
(* Receiving *)

\* Reassembler.Add: the partial message keeps the hop of its first chunk.
Partial(r, c) ==
    IF c.m \in DOMAIN r.parts THEN [r.parts[c.m] EXCEPT !.got = @ \cup {c.idx}, !.at = now]
    ELSE [hop |-> c.hop, got |-> {c.idx}, at |-> now]

Without(parts, m) == [x \in DOMAIN parts \ {m} |-> parts[x]]

\* The choices of routing_engine and gossip_controller: forward after a
\* delay, or not at all.
maybeForward(r, m, hop) ==
    IF hop >= MaxHop \/ <<m, now>> \in r.lastForward THEN {r}
    ELSE {r, [r EXCEPT !.lastForward = {x \in @ : x[1] # m} \cup {<<m, now>>},
                       !.timers = @ \cup {<<m, hop + 1>>}]}

handleChunk(n, f) ==
    LET c == f.body
        m == c.m
        p == Partial(node[n], c)
        r == [rotateLocked(node[n]) EXCEPT !.parts = Without(@, m)]
    IN  /\ Exchange(f, {})
        /\ IF now >= ExpiresAt(m) \/ c.hop > MaxHop
           THEN UNCHANGED <<node, got, again>>
           ELSE IF p.got # 1 .. m.chunks
           THEN /\ node' = [node EXCEPT ![n].parts = (m :> p) @@ @]
                /\ UNCHANGED <<got, again>>
           ELSE IF Seen(r, m)
           THEN /\ node' = [node EXCEPT ![n] = r]
                /\ UNCHANGED <<got, again>>
           ELSE IF Has(r, m)
           THEN /\ node' = [node EXCEPT ![n] = AddSeen(r, m)]
                /\ UNCHANGED <<got, again>>
           ELSE /\ \E next \in maybeForward(Put(AddSeen(r, m), m), m, p.hop) :
                        node' = [node EXCEPT ![n] = next]
                /\ got' = got \cup {<<n, m>>}
                /\ again' = again \cup (got \cap {<<n, m>>})

\* Mutant: a message some chunks of which are there is not asked for.
WantedUnlessPartial(r, inv) ==
    {m \in inv : now < ExpiresAt(m) /\ ~Has(r, m) /\ ~Seen(r, m) /\ m \notin DOMAIN r.parts}

Wanted(r, inv) == {m \in inv : now < ExpiresAt(m) /\ ~Has(r, m) /\ ~Seen(r, m)}

\* Seen is called for a message that is neither expired nor cached.
handleInventory(n, f) ==
    LET r == IF \E m \in f.body : now < ExpiresAt(m) /\ ~Has(node[n], m)
             THEN rotateLocked(node[n]) ELSE node[n]
        wants == {W \in SUBSET Wanted(r, f.body) :
                    Cardinality(W) = IF Cardinality(Wanted(r, f.body)) > WantMax THEN WantMax
                                     ELSE Cardinality(Wanted(r, f.body))}
    IN  /\ node' = [node EXCEPT ![n] = r]
        /\ \E W \in wants : Exchange(f, IF W = {} THEN {} ELSE Air(n, "want", {W}))
        /\ UNCHANGED <<got, again>>

\* What is wanted and still cached is broadcast anew, from hop 0.
handleWant(n, f) ==
    /\ node' = [node EXCEPT ![n].cache = Get(@, f.body)]
    /\ Exchange(f, broadcastMessage(n, {<<m, 0>> : m \in {x \in f.body : Has(node[n], x)}}))
    /\ UNCHANGED <<got, again>>

handleFrame(n, f) ==
    /\ f \in net /\ f.to = n
    /\ \/ f.kind = "chunk" /\ handleChunk(n, f)
       \/ f.kind = "inv" /\ handleInventory(n, f)
       \/ f.kind = "want" /\ handleWant(n, f)
    /\ UNCHANGED <<inRange, sent, losses, now>>

----------------------------------------------------------------------------
(* Timers *)

\* The AfterFunc of maybeForward.
ForwardDue(n) ==
    /\ \E x \in node[n].timers :
        /\ node' = [node EXCEPT ![n].timers = @ \ {x}]
        /\ net' = net \cup broadcastMessage(n, {x})
    /\ UNCHANGED <<inRange, sent, got, again, losses, now>>

maybeBroadcastInventory(n) ==
    /\ List(node[n], InventoryMax) # {}
    /\ net' = net \cup Air(n, "inv", {List(node[n], InventoryMax)})
    /\ UNCHANGED <<node, inRange, sent, got, again, losses, now>>

\* Run's sweepTicker.
SweepTick(n) ==
    /\ node' = [node EXCEPT ![n].cache = Sweep(@),
                            ![n].parts = [x \in {y \in DOMAIN @ : now - @[y].at < StaleAfter} |-> @[x]]]
    /\ UNCHANGED <<inRange, net, sent, got, again, losses, now>>

Lose ==
    /\ losses < MaxLosses
    /\ \E f \in net : Exchange(f, {})
    /\ losses' = losses + 1
    /\ UNCHANGED <<node, inRange, sent, got, again, now>>

ComeInRange ==
    /\ \E l \in Links \ inRange : inRange' = inRange \cup {l}
    /\ UNCHANGED <<node, net, sent, got, again, losses, now>>

Tick ==
    /\ now < MaxTime
    /\ now' = now + 1
    /\ UNCHANGED <<node, inRange, net, sent, got, again, losses>>

Init ==
    /\ node = [n \in Nodes |-> NewRouter]
    /\ inRange \in SUBSET Links
    /\ net = {} /\ sent = {} /\ got = {} /\ again = {}
    /\ losses = 0 /\ now = 0

Next ==
    \/ \E n \in Nodes : \/ \E chunks \in 1 .. Chunks : Send(n, chunks)
                        \/ ForwardDue(n) \/ maybeBroadcastInventory(n) \/ SweepTick(n)
                        \/ \E f \in net : handleFrame(n, f)
    \/ Lose \/ ComeInRange \/ Tick

Receives(n, from, kind, idx) ==
    \E f \in net : /\ f.from = from /\ f.kind = kind
                   /\ kind = "chunk" => f.body.idx = idx
                   /\ handleFrame(n, f)

\* Run handles the frames of its channel in turn and its inventory ticker
\* keeps firing; the partition ends.
Fairness ==
    /\ WF_vars(ComeInRange)
    /\ \A n \in Nodes : WF_vars(ForwardDue(n)) /\ WF_vars(maybeBroadcastInventory(n))
    /\ \A l \in Links : \A n \in l : \A m \in l \ {n} :
        /\ WF_vars(Receives(n, m, "inv", 0)) /\ WF_vars(Receives(n, m, "want", 0))
        /\ \A i \in 1 .. Chunks : WF_vars(Receives(n, m, "chunk", i))

Spec == Init /\ [][Next]_vars /\ Fairness

----------------------------------------------------------------------------
(* Properties *)

\* onMessage sees a message once at most (TestSimMesh_ScenarioD_ReplayAttack
\* expects "exactly one delivery"): although the cache forgets it when newer
\* messages push it out, and wants make neighbours send it again, the replay
\* buckets remember it for as long as it lives.  It takes a lifetime within
\* the window less one bucket, (Buckets - 1) * BucketDuration.
DeliveredOnce == again = {}

\* Partition repair: as long as the cache has room for every message, one
\* that was sent reaches every node before it expires, through lost frames,
\* chunks that went missing, refusals to forward and a partition that ends.
PartitionRepaired ==
    (sent # {} /\ Cardinality(sent) <= CacheMaxItems)
        ~> \/ \A n \in Nodes, m \in sent :
                m.from = n \/ <<n, m>> \in got \/ now >= ExpiresAt(m)
           \/ Cardinality(sent) > CacheMaxItems
=============================================================================
