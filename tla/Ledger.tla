------------------------------- MODULE Ledger -------------------------------
(***************************************************************************)
(* The replicated event ledger of pkg/ledger: signed events, each linked to *)
(* its author's previous one and to the heads its author knew, kept in a    *)
(* map with several indexes that Apply, the witness emitters, pruning and   *)
(* the snapshot loader maintain.  Every method runs under Ledger.mu, so     *)
(* each is one action; what a method does in several writes is a            *)
(* composition of operators on the record the variable `ledger' holds.      *)
(*                                                                          *)
(* An event id is a hash of the event, so the map from ids to events is the *)
(* set of its events.  Signatures and payload encodings are abstracted: an  *)
(* event that fails them is refused without effect, like an invalid one.    *)
(***************************************************************************)
EXTENDS Integers, Sequences, FiniteSets, FiniteSetsExt

CONSTANTS
    Remote,            \* events that peers may send, in any order, any number of times
    Observer,          \* [author, key] of this node's persona
    Observing,         \* whether the service was given the observer
    Contexts,          \* trust contexts ("" is the absent one)
    Weight,            \* Trust.Witnesses: weight of a key in a context
    Threshold,         \* Trust.Thresholds, by context
    RequireKnownPrev,  \* Policy.RequireKnownPrev
    MaxClockSkew, MaxEventAge,  \* Policy fields, 0 when not set
    MaxParents,        \* bound on the parents of an event
    RetentionByKind,   \* Policy.RetentionByKind: kinds to how long they are kept
    RetentionPolicies, \* the RetentionPolicy values the application may pass
    FirstLocal,        \* ids from here on are those of events built by this node
    MaxLocal,          \* bound: events this node builds in a behaviour
    MaxAnchors,        \* bound: anchors ApplyRetention leaves in a behaviour
    MaxNow             \* bound: the last value of the clock

NoRef == 0
NoContext == ""

\* The kinds the ledger treats differently.  chat.message also stands for
\* agent.action and ledger.event, group.membership for group.create, group.join,
\* identity.rotate and identity.revoke.
KindChatMessage == "chat.message"
KindGroupMembership == "group.membership"
KindWitnessAttest == "witness.attest"
KindWitnessCheckpoint == "witness.checkpoint"
KindIdentityIntroduce == "identity.introduce"
KindMisbehaviorEquivoc == "misbehavior.equivocation"
KindMisbehaviorReplay == "misbehavior.replay"
KindMisbehaviorSybil == "misbehavior.sybil"
KindSyncSummary == "sync.summary"
Kinds ==
    {KindChatMessage, KindGroupMembership, KindWitnessAttest, KindWitnessCheckpoint,
     KindIdentityIntroduce, KindMisbehaviorEquivoc, KindMisbehaviorReplay,
     KindMisbehaviorSybil, KindSyncSummary}

affectsHeads(kind) == kind \in {KindChatMessage, KindGroupMembership}
isCriticalKind(kind) == kind \notin {KindChatMessage, KindSyncSummary}

\* What an event links to, and everything it refers to.  Its field `of' is what
\* the payload is about: an event, a set of heads, or a key.
Links(ev) == ({ev.prev} \cup ev.parents) \ {NoRef}
Refs(ev) == Links(ev) \cup (IF ev.kind = KindWitnessAttest THEN ev.of ELSE {})

\* Assumed of the events peers send: Validate's shape, and what hashing gives,
\* namely one event per id.
ASSUME RemoteValid ==
    \A ev \in Remote :
        /\ ev.id \in 1 .. FirstLocal - 1
        /\ ev.seq \in Nat \ {0}
        /\ (ev.seq = 1) <=> (ev.prev = NoRef)
        /\ ev.id \notin Refs(ev)
        /\ \A f \in Remote : f.id = ev.id => f = ev

\* Author ids are derived from keys, and nobody else signs with this node's key.
ASSUME RemoteForeign ==
    \A ev \in Remote : ev.author # Observer.author /\ ev.key # Observer.key

ASSUME BoundsNatural == FirstLocal \in Nat \ {0} /\ MaxNow \in Nat

VARIABLES
    up,      \* whether the node runs with a ledger
    ledger,  \* the fields of Ledger, empty while the node is down
    sent,    \* events this node ever built: what peers may send back
    disk,    \* the ledger file
    now      \* the clock

vars == <<up, ledger, sent, disk, now>>

-----------------------------------------------------------------------------
(* Operators on a ledger record L. *)

EmptyLedger ==
    [events |-> {}, heads |-> {}, authorSeq |-> {}, missingRefs |-> {},
     compromised |-> {}, attestations |-> {}, checkpoints |-> {},
     introductions |-> {}, anchors |-> <<>>]

Ids(evs) == {e.id : e \in evs}
Stored(L, id) == id \in Ids(L.events)

\* The entry of an event in authorSeq, and whether another event has its place.
SeqEntry(ev) == <<ev.author, ev.seq, ev.id>>
\* Mutant: compares with later numbers only.
Conflicts_Later(L, ev) ==
    {t \in L.authorSeq : t[1] = ev.author /\ t[2] > ev.seq /\ t[3] # ev.id}

Conflicts(L, ev) ==
    {t \in L.authorSeq : t[1] = ev.author /\ t[2] = ev.seq /\ t[3] # ev.id}

\* indexLocked for one kind of witness event: who said what of which object.
Claims(evs, kind) == {<<e.ctx, e.of, e.key>> : e \in {x \in evs : x.kind = kind}}

Heads(heads, ev) ==
    IF affectsHeads(ev.kind) THEN (heads \ Links(ev)) \cup {ev.id} ELSE heads

\* Mutant: a missing parent or attested event is not noted.
trackMissingRefs_Prev(L, ev) ==
    (L.missingRefs \ {ev.id}) \cup {r \in {ev.prev} \ {NoRef} : ~Stored(L, r)}

\* The arrived event is no longer missing; what it refers to may be.
trackMissingRefs(L, ev) ==
    (L.missingRefs \ {ev.id}) \cup {r \in Refs(ev) : ~Stored(L, r)}

Attestations(L, ev) == L.attestations \cup Claims({ev}, KindWitnessAttest)

\* The writes addLocked and Add have in common.
Insert(L, ev) ==
    [L EXCEPT
        !.events = @ \cup {ev},
        !.authorSeq = @ \cup {SeqEntry(ev)},
        !.missingRefs = trackMissingRefs(L, ev),
        !.attestations = Attestations(L, ev),
        !.checkpoints = @ \cup Claims({ev}, KindWitnessCheckpoint),
        !.introductions = @ \cup Claims({ev}, KindIdentityIntroduce),
        !.heads = Heads(@, ev)]

addLocked(L, ev) ==
    IF Stored(L, ev.id) \/ Conflicts(L, ev) # {} THEN L ELSE Insert(L, ev)

\* Mutant: the second event of a chain needs no first.
PrevKnown_FromThird(L, ev) == ev.seq <= 2 \/ Stored(L, ev.prev)

PrevKnown(L, ev) == ev.seq = 1 \/ Stored(L, ev.prev)
PrevMatches(evs, ev) ==
    \A p \in evs : p.id = ev.prev => p.author = ev.author /\ p.seq + 1 = ev.seq

\* nextSeqLocked: the observer's next sequence number, its last event and the
\* first MaxParents heads.
OwnSeqs(L) == {t \in L.authorSeq : t[1] = Observer.author}
LastSeq(L) == IF OwnSeqs(L) = {} THEN 0 ELSE Max({t[2] : t \in OwnSeqs(L)})
LastId(L) ==
    IF OwnSeqs(L) = {} THEN NoRef ELSE (CHOOSE t \in OwnSeqs(L) : t[2] = LastSeq(L))[3]
FirstParents(heads) ==
    {h \in heads : Cardinality({g \in heads : g < h}) < MaxParents}

\* The event the build* functions sign; a fresh id stands for its hash.
Build(L, id, kind, ctx, of) ==
    [id |-> id, author |-> Observer.author, key |-> Observer.key,
     seq |-> LastSeq(L) + 1, prev |-> LastId(L), parents |-> FirstParents(L.heads),
     kind |-> kind, ctx |-> ctx, of |-> of, created |-> now]

NextId == FirstLocal + Cardinality(sent)

\* The n-th event built in this step is signed and added.
Emit(L, n, kind, ctx, of) == addLocked(L, Build(L, NextId + n, kind, ctx, of))

\* Events this node built are handed to its peers.
Own(L) == {e \in L.events : e.id >= FirstLocal}
Become(L) ==
    /\ up
    /\ ledger' = L
    /\ sent' = sent \cup Own(L)
    /\ Cardinality(sent') <= MaxLocal
    /\ UNCHANGED <<up, disk, now>>

-----------------------------------------------------------------------------
(* Receiving an event: ApplyWithContext and ApplyVerifiedWithContext. *)

Future(ev) == MaxClockSkew > 0 /\ ev.created > now + MaxClockSkew
TooOld(ev) == MaxEventAge > 0 /\ ev.created < now - MaxEventAge
IsWitness(ctx, key) == ctx \in Contexts /\ Weight[ctx][key] > 0

\* validateKindPayload, for the kinds whose author must be trusted.
PayloadValid(ev) ==
    ev.kind \in {KindWitnessAttest, KindWitnessCheckpoint, KindIdentityIntroduce}
        => IsWitness(ev.ctx, ev.key)

Valid(ev) == ~Future(ev) /\ ~TooOld(ev) /\ PayloadValid(ev)

\* autoWitnessAfterApplyLocked: attest a critical event, then checkpoint the
\* heads it left, unless this node already did.
AutoAttests(L, ev, ctx) ==
    /\ Observing /\ IsWitness(ctx, Observer.key) /\ Observer.key \notin L.compromised
    /\ ev.kind \notin {KindWitnessAttest, KindWitnessCheckpoint, KindSyncSummary}
    /\ isCriticalKind(ev.kind)

AttestNew(L, ev, ctx) ==
    IF <<ctx, {ev.id}, Observer.key>> \in L.attestations
    THEN L ELSE Emit(L, 0, KindWitnessAttest, ctx, {ev.id})

CheckpointNew(L, ctx) ==
    IF L.heads = {} \/ <<ctx, L.heads, Observer.key>> \in L.checkpoints
    THEN L ELSE Emit(L, Cardinality(Own(L) \ sent), KindWitnessCheckpoint, ctx, L.heads)

autoWitness(L, ev, ctx) ==
    IF ~AutoAttests(L, ev, ctx) THEN L
    ELSE IF affectsHeads(ev.kind) THEN CheckpointNew(AttestNew(L, ev, ctx), ctx)
         ELSE AttestNew(L, ev, ctx)

\* An event refused for its age is reported as a replay when the caller gave a
\* context and an observer.
ApplyTooOld(ev, ctx) ==
    /\ ~Future(ev) /\ TooOld(ev)
    /\ Observing /\ ctx # NoContext
    /\ Become(Emit(ledger, 0, KindMisbehaviorReplay, ctx, {ev.id}))

\* Mutant: marks the key that signs the evidence.
Compromise_Reporter(L, ev) == [L EXCEPT !.compromised = @ \cup {Observer.key}]

\* Two events with one author and sequence number: both keys are compromised and
\* the observer publishes the evidence; the second event is not stored.
Compromise(L, ev) ==
    [L EXCEPT !.compromised = @ \cup {ev.key} \cup
        {e.key : e \in {x \in L.events : x.id \in {t[3] : t \in Conflicts(L, ev)}}}]

ApplyEquivocation(ev) ==
    /\ Valid(ev)
    /\ ~Stored(ledger, ev.id)
    /\ Conflicts(ledger, ev) # {}
   
    /\ LET L == Compromise(ledger, ev)
       IN  Become(IF Observing
                  THEN Emit(L, 0, KindMisbehaviorEquivoc, NoContext, {ev.key}) ELSE L)

ApplyAccept(ev, ctx) ==
    /\ Valid(ev)
    /\ ~Stored(ledger, ev.id)
    /\ Conflicts(ledger, ev) = {}
    /\ RequireKnownPrev => PrevKnown(ledger, ev)
    /\ PrevMatches(ledger.events, ev)
    /\ Become(autoWitness(addLocked(ledger, ev), ev, ctx))

\* The other outcomes: known already, refused by the policy, previous event
\* missing or not matching.
ApplyRefuse(ev, ctx) ==
    /\ up
    /\ \/ Future(ev)
       \/ TooOld(ev) /\ (~Observing \/ ctx = NoContext)
       \/ ~TooOld(ev) /\ ~PayloadValid(ev)
       \/ Valid(ev) /\ Stored(ledger, ev.id)
       \/ /\ Valid(ev) /\ Conflicts(ledger, ev) = {}
          /\ (RequireKnownPrev /\ ~PrevKnown(ledger, ev)) \/ ~PrevMatches(ledger.events, ev)
    /\ UNCHANGED vars

Apply(ev, ctx) ==
    \/ ApplyTooOld(ev, ctx)
    \/ ApplyEquivocation(ev)
    \/ ApplyAccept(ev, ctx)
    \/ ApplyRefuse(ev, ctx)

\* AddEvent, and the Add it ends with: no policy and no observer.  Its checks
\* hold when Add takes the lock again, since without pruning events stay.
AddEvent(ev) ==
    /\ PrevKnown(ledger, ev)
    /\ ~Stored(ledger, ev.id)
    /\ Conflicts(ledger, ev) = {}
    /\ PrevMatches(ledger.events, ev)
    /\ Become(Insert(ledger, ev))

-----------------------------------------------------------------------------
(* The observer's own statements. *)

EmitWitnessAttest(ctx, id) ==
    /\ Observing
    /\ IsWitness(ctx, Observer.key)
    /\ Stored(ledger, id)
    /\ Become(Emit(ledger, 0, KindWitnessAttest, ctx, {id}))

EmitWitnessCheckpoint(ctx) ==
    /\ Observing
    /\ IsWitness(ctx, Observer.key)
    /\ ledger.heads # {}
    /\ Become(Emit(ledger, 0, KindWitnessCheckpoint, ctx, ledger.heads))

EmitSyncSummary(ctx) ==
    /\ Observing
    /\ ledger.heads # {}
    /\ Become(Emit(ledger, 0, KindSyncSummary, ctx, ledger.heads))

EmitSybilMisbehavior(ctx) ==
    /\ Observing
    /\ Become(Emit(ledger, 0, KindMisbehaviorSybil, ctx, {}))

-----------------------------------------------------------------------------
(* Pruning. *)

Referenced(evs) == UNION {Links(e) : e \in evs}

\* Mutant: spares the heads only.
Prunable_NotHead(L) == {e \in L.events : e.id \notin L.heads}

\* What neither Prune nor ApplyRetention may touch is left out.
Prunable(L) ==
    {e \in L.events : e.id \notin L.heads /\ e.id \notin Referenced(L.events)}

\* Mutant: an event linked by any kind of event is no head.
recomputeHeads_AnyKind(evs) ==
    Ids({e \in evs : affectsHeads(e.kind)}) \ Referenced(evs)

recomputeHeads(evs) ==
    LET linked == {e \in evs : affectsHeads(e.kind)}
    IN  Ids(linked) \ Referenced(linked)

\* rebuildLocked: the indexes are emptied, and addLocked is called for every kept
\* event; each call returns at once, because the event is still in l.events.
Rebuild(L, kept) ==
    [L EXCEPT !.events = kept, !.authorSeq = {}, !.missingRefs = {},
              !.attestations = {}, !.checkpoints = {}, !.introductions = {},
              !.heads = recomputeHeads(kept)]

Prune ==
    /\ LET old(e) == /\ e.kind \in DOMAIN RetentionByKind
                     /\ e.created < now - RetentionByKind[e.kind]
           gone == {e \in Prunable(ledger) : old(e)}
       IN  gone # {} /\ Become(Rebuild(ledger, ledger.events \ gone))

\* The order of snapshots and of ApplyRetention: age, then id.
Before(e, f) == e.created < f.created \/ (e.created = f.created /\ e.id < f.id)

ApplyRetention(pol) ==
    /\ LET candidates ==
               {e \in Prunable(ledger) : ~(pol.criticalOnly /\ isCriticalKind(e.kind))}
           aged == {e \in candidates : pol.maxAge > 0 /\ e.created < now - pol.maxAge}
           rest == candidates \ aged
           excess == Cardinality(ledger.events \ aged) - pol.maxEvents
           over == {e \in rest : /\ pol.maxEvents > 0
                                 /\ Cardinality({f \in rest : Before(f, e)}) < excess}
           gone == aged \cup over
           anchor == [root |-> Ids(gone), prev |-> Len(ledger.anchors)]
       IN  /\ gone # {} /\ Len(ledger.anchors) < MaxAnchors
           /\ Become(Rebuild([ledger EXCEPT !.anchors = Append(@, anchor)],
                             ledger.events \ gone))

-----------------------------------------------------------------------------
(* The snapshot file. *)

Snapshot(L) ==
    [intact |-> TRUE, events |-> L.events, heads |-> L.heads, anchors |-> L.anchors]
NoSnapshot == Snapshot(EmptyLedger)
Torn == [NoSnapshot EXCEPT !.intact = FALSE]

\* NewFromSnapshot adds the events in Snapshot's order; Add refuses one that
\* takes another's sequence number or does not follow its previous event.
Loads(snap) ==
    /\ snap.intact
    /\ \A e, f \in snap.events :
        e # f => ~(e.author = f.author /\ e.seq = f.seq)
    /\ \A e \in snap.events : PrevMatches({f \in snap.events : Before(f, e)}, e)

\* The ledger it builds; the heads are the saved ones, or those Add leaves.
HeadsInOrder(evs) ==
    LET linked == {e \in evs : affectsHeads(e.kind)}
    IN  Ids({e \in linked : \A f \in linked : Before(e, f) => e.id \notin Links(f)})

Dangling(evs) == (UNION {Refs(e) : e \in evs}) \ Ids(evs)

\* Mutant: the sequence numbers are not indexed again.
SeqIndex_Empty(evs) == {}

SeqIndex(evs) == {SeqEntry(e) : e \in evs}

NewFromSnapshot(snap) ==
    [events |-> snap.events,
     heads |-> IF snap.heads = {} THEN HeadsInOrder(snap.events) ELSE snap.heads,
     authorSeq |-> SeqIndex(snap.events),
     missingRefs |-> Dangling(snap.events),
     compromised |-> {},
     attestations |-> Claims(snap.events, KindWitnessAttest),
     checkpoints |-> Claims(snap.events, KindWitnessCheckpoint),
     introductions |-> Claims(snap.events, KindIdentityIntroduce),
     anchors |-> snap.anchors]

Save ==
    /\ up
    /\ disk' = Snapshot(ledger)
    /\ UNCHANGED <<up, ledger, sent, now>>

\* Save truncates the file and writes it again.  A crash in between leaves it
\* empty, which Load reads as an empty snapshot, or cut short.
CrashInSave ==
    /\ up
    /\ disk' \in {NoSnapshot, Torn}
    /\ up' = FALSE
    /\ ledger' = EmptyLedger
    /\ UNCHANGED <<sent, now>>

Crash ==
    /\ up
    /\ up' = FALSE
    /\ ledger' = EmptyLedger
    /\ UNCHANGED <<sent, disk, now>>

\* A snapshot that does not load leaves the node without a ledger.
Restart ==
    /\ ~up
    /\ up' = Loads(disk)
    /\ ledger' = IF Loads(disk) THEN NewFromSnapshot(disk) ELSE EmptyLedger
    /\ UNCHANGED <<sent, disk, now>>

Tick ==
    /\ now < MaxNow
    /\ now' = now + 1
    /\ UNCHANGED <<up, ledger, sent, disk>>

-----------------------------------------------------------------------------
Init ==
    /\ up = TRUE
    /\ ledger = EmptyLedger
    /\ sent = {}
    /\ disk = NoSnapshot
    /\ now = 0

\* Events arrive from peers, this node's own included.
Receive == \E ev \in Remote \cup sent, ctx \in Contexts \cup {NoContext} : Apply(ev, ctx)
AddLocal == \E ev \in Remote : AddEvent(ev)
EmitOwn ==
    \E ctx \in Contexts :
        \/ \E id \in Ids(ledger.events) : EmitWitnessAttest(ctx, id)
        \/ EmitWitnessCheckpoint(ctx)
        \/ EmitSyncSummary(ctx)
        \/ EmitSybilMisbehavior(ctx)

Running == Receive \/ AddLocal \/ EmitOwn \/ Tick
Retaining == Prune \/ \E pol \in RetentionPolicies : ApplyRetention(pol)
Restarting == Save \/ CrashInSave \/ Crash \/ Restart

\* A node that is neither restarted nor prunes.
SteadySpec == Init /\ [][Running]_vars

\* A node that is restarted and does not prune.
UnprunedSpec == Init /\ [][Running \/ Restarting]_vars

Next == Running \/ Restarting \/ Retaining
Spec == Init /\ [][Next]_vars

-----------------------------------------------------------------------------
(* Quorums, as Confirmed computes them, and as the stored events justify them. *)

WeightOf(ctx, keys) == MapThenSumSet(LAMBDA k : Weight[ctx][k], keys)

\* Mutant: only a head can be confirmed.
Confirmed_Heads(L, id, ctx) ==
    LET witnesses == {t[3] : t \in {x \in L.attestations : x[1] = ctx /\ x[2] = {id}}}
    IN  /\ Threshold[ctx] > 0
        /\ id \in L.heads
        /\ WeightOf(ctx, {k \in witnesses \ L.compromised : Weight[ctx][k] > 0}) >= Threshold[ctx]

Confirmed(L, id, ctx) ==
    LET witnesses == {t[3] : t \in {x \in L.attestations : x[1] = ctx /\ x[2] = {id}}}
    IN  /\ Threshold[ctx] > 0
        /\ Stored(L, id)
        /\ WeightOf(ctx, {k \in witnesses \ L.compromised : Weight[ctx][k] > 0}) >= Threshold[ctx]

Attesters(L, id, ctx) ==
    {e.key : e \in {x \in L.events : x.kind = KindWitnessAttest /\ x.ctx = ctx /\ x.of = {id}}}

-----------------------------------------------------------------------------
(* Properties. *)

\* Shapes of the ledger's fields: only events that were received or built are
\* stored, and the indexes speak of nothing else.
TypeOK ==
    /\ now \in 0 .. MaxNow
    /\ up =>
        /\ ledger.events \subseteq Remote \cup sent
        /\ ledger.heads \subseteq Ids(ledger.events)
        /\ \A t \in ledger.authorSeq : t[3] \in Ids(ledger.events)
        /\ ledger.missingRefs \cap Ids(ledger.events) = {}

\* The ledger never holds two events of one author with one sequence number, in
\* whatever order they came: Apply turns the second one into evidence.
OneEventPerSeq ==
    up => \A e, f \in ledger.events :
              e.author = f.author /\ e.seq = f.seq => e = f

\* authorSeq, the three witness indexes and the missing references are what the
\* stored events say, after any mix of Apply, emitters and reloads.
IndexesMatchEvents ==
    up => /\ ledger.authorSeq = SeqIndex(ledger.events)
          /\ ledger.attestations = Claims(ledger.events, KindWitnessAttest)
          /\ ledger.checkpoints = Claims(ledger.events, KindWitnessCheckpoint)
          /\ ledger.introductions = Claims(ledger.events, KindIdentityIntroduce)
          /\ ledger.missingRefs = Dangling(ledger.events)

\* With RequireKnownPrev every stored event has its author's previous event in
\* the ledger, with the preceding number: a chain without gaps from 1.
ChainsUnbroken ==
    up => \A e \in ledger.events :
              e.seq > 1 => \E p \in ledger.events :
                  p.id = e.prev /\ p.author = e.author /\ p.seq + 1 = e.seq

\* A stored event that can be a head is one, or an event that can be a head links
\* to it: following links from the heads a peer reaches every such event.
HeadsCoverEvents ==
    up => LET linked == {e \in ledger.events : affectsHeads(e.kind)}
          IN  Ids(linked) \subseteq ledger.heads \cup Referenced(linked)

\* The snapshot of the ledger loads again, after any arrivals, emissions, saves,
\* torn writes and restarts.
SnapshotReloads == up => Loads(Snapshot(ledger))

\* An event counts as confirmed only if stored attestations by witnesses that
\* were not caught equivocating reach the threshold.
ConfirmedByEvents ==
    up => \A id \in Ids(ledger.events), ctx \in Contexts :
              Confirmed(ledger, id, ctx) =>
                  WeightOf(ctx, Attesters(ledger, id, ctx) \ ledger.compromised)
                      >= Threshold[ctx]

\* What the ledger derives from its events agrees with them at all times: the
\* indexes, the missing references and the quorums.
LedgerConsistent == TypeOK /\ IndexesMatchEvents /\ ConfirmedByEvents

\* The step of a node that neither prunes nor restarts: a confirmed event stays
\* confirmed unless one more key is found compromised.
KeepsConfirmed ==
    up /\ up' => \A id \in Ids(ledger.events), ctx \in Contexts :
        Confirmed(ledger, id, ctx) /\ ledger'.compromised = ledger.compromised
            => Confirmed(ledger', id, ctx)

\* The node holds its own key for compromised only when it no longer has an event
\* it had handed out: a node that loses nothing never equivocates.
SelfCompromiseOnlyAfterLoss ==
    up => (Observer.key \in ledger.compromised => ~(sent \subseteq ledger.events))

\* Pruning leaves no stored event with a link that was resolved before: neither
\* Prune nor ApplyRetention removes what a kept event links to.
PruningKeepsLinks ==
    [][up /\ up' /\ Retaining =>
           Referenced(ledger'.events) \cap Ids(ledger.events) \subseteq Ids(ledger'.events)]_vars
=============================================================================
