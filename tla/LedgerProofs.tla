---------------------------- MODULE LedgerProofs ----------------------------
(***************************************************************************)
(* Proofs about the ledger, for any events, peers and policies.            *)
(***************************************************************************)
EXTENDS Ledger, FiniteSetTheorems, TLAPS

\* A value with the fields of Ledger.
Fields == {"events", "heads", "authorSeq", "missingRefs", "compromised",
           "attestations", "checkpoints", "introductions", "anchors"}

IsLedger(L) == L = [f \in Fields |-> L[f]]

-----------------------------------------------------------------------------
(* Fields *)

\* What Add and addLocked leave is a ledger.
LEMMA InsertIs ==
  ASSUME NEW L, IsLedger(L), NEW ev
  PROVE  IsLedger(Insert(L, ev))
BY Zenon DEF Insert, IsLedger, Fields, Attestations

\* It has the event.
LEMMA InsertEvents ==
  ASSUME NEW L, IsLedger(L), NEW ev
  PROVE  Insert(L, ev).events = L.events \cup {ev}
BY Zenon DEF Insert, IsLedger, Fields, Attestations

\* Its heads are those of the event.
LEMMA InsertHeads ==
  ASSUME NEW L, IsLedger(L), NEW ev
  PROVE  Insert(L, ev).heads = Heads(L.heads, ev)
BY Zenon DEF Insert, IsLedger, Fields, Attestations

\* The event is indexed by author and number.
LEMMA InsertSeq ==
  ASSUME NEW L, IsLedger(L), NEW ev
  PROVE  Insert(L, ev).authorSeq = L.authorSeq \cup {SeqEntry(ev)}
BY Zenon DEF Insert, IsLedger, Fields, Attestations

\* What it refers to is looked for.
LEMMA InsertMissing ==
  ASSUME NEW L, IsLedger(L), NEW ev
  PROVE  Insert(L, ev).missingRefs = trackMissingRefs(L, ev)
BY Zenon DEF Insert, IsLedger, Fields, Attestations

\* Nobody is found compromised.
LEMMA InsertCompromised ==
  ASSUME NEW L, IsLedger(L), NEW ev
  PROVE  Insert(L, ev).compromised = L.compromised
BY Zenon DEF Insert, IsLedger, Fields, Attestations

\* The witness indexes have what it claims.
LEMMA InsertClaims ==
  ASSUME NEW L, IsLedger(L), NEW ev
  PROVE  /\ Insert(L, ev).attestations = L.attestations \cup Claims({ev}, KindWitnessAttest)
         /\ Insert(L, ev).checkpoints = L.checkpoints \cup Claims({ev}, KindWitnessCheckpoint)
         /\ Insert(L, ev).introductions = L.introductions \cup Claims({ev}, KindIdentityIntroduce)
BY Zenon DEF Insert, IsLedger, Fields, Attestations

\* What rebuildLocked writes.
LEMMA RebuildFields ==
  ASSUME NEW L, IsLedger(L), NEW kept
  PROVE  /\ IsLedger(Rebuild(L, kept))
         /\ Rebuild(L, kept).events = kept
         /\ Rebuild(L, kept).heads = recomputeHeads(kept)
BY Zenon DEF Rebuild, IsLedger, Fields

\* What finding an equivocation writes.
LEMMA CompromiseFields ==
  ASSUME NEW L, IsLedger(L), NEW ev
  PROVE  /\ IsLedger(Compromise(L, ev))
         /\ Compromise(L, ev).compromised = L.compromised \cup {ev.key} \cup
              {e.key : e \in {x \in L.events : x.id \in {t[3] : t \in Conflicts(L, ev)}}}
         /\ \A f \in Fields \ {"compromised"} : Compromise(L, ev)[f] = L[f]
BY Zenon DEF Compromise, IsLedger, Fields

-----------------------------------------------------------------------------
(* Heads *)

Linked(evs) == {e \in evs : affectsHeads(e.kind)}

Covers(heads, evs) == Ids(Linked(evs)) \subseteq heads \cup Referenced(Linked(evs))

Covered(L) == IsLedger(L) /\ Covers(L.heads, L.events)

\* A new event takes the place of the heads it links to.
LEMMA InsertCovered ==
  ASSUME NEW L, Covered(L), NEW ev
  PROVE  Covered(Insert(L, ev))
<1>0. IsLedger(L) BY DEF Covered
<1>m. PICK M : M = Insert(L, ev) OBVIOUS
<1>1. IsLedger(M) /\ M.events = L.events \cup {ev} /\ M.heads = Heads(L.heads, ev)
  <2>1. IsLedger(M) BY <1>0, <1>m, InsertIs
  <2>2. M.events = L.events \cup {ev} BY <1>0, <1>m, InsertEvents
  <2>3. M.heads = Heads(L.heads, ev) BY <1>0, <1>m, InsertHeads
  <2> QED BY <2>1, <2>2, <2>3
<1>2. Covers(L.heads, L.events) BY DEF Covered
<1>3. ASSUME affectsHeads(ev.kind) PROVE Covers(M.heads, M.events)
  <2>1. Linked(M.events) = Linked(L.events) \cup {ev} BY <1>1, <1>3 DEF Linked
  <2>2. Referenced(Linked(M.events)) = Referenced(Linked(L.events)) \cup Links(ev)
    BY <2>1 DEF Referenced
  <2>3. Ids(Linked(M.events)) = Ids(Linked(L.events)) \cup {ev.id} BY <2>1 DEF Ids
  <2>4. M.heads = (L.heads \ Links(ev)) \cup {ev.id} BY <1>1, <1>3 DEF Heads
  <2> QED BY <1>2, <2>2, <2>3, <2>4 DEF Covers
<1>4. ASSUME ~affectsHeads(ev.kind) PROVE Covers(M.heads, M.events)
  <2>1. Linked(M.events) = Linked(L.events) BY <1>1, <1>4 DEF Linked
  <2> QED BY <1>1, <1>2, <1>4, <2>1 DEF Covers, Heads
<1> QED BY <1>1, <1>m, <1>3, <1>4 DEF Covered

\* So do the events the node builds itself, and those it adds after another.
LEMMA AddCovered ==
  ASSUME NEW L, Covered(L)
  PROVE  /\ \A ev : Covered(addLocked(L, ev))
         /\ \A n, kind, ctx, of : Covered(Emit(L, n, kind, ctx, of))
<1>1. \A ev : Covered(addLocked(L, ev)) BY InsertCovered DEF addLocked
<1> QED BY <1>1 DEF Emit

\* autoWitness adds attestations and checkpoints of this node through AddLocked, so
\* the ledger it leaves is covered by its heads.
LEMMA WitnessCovered ==
  ASSUME NEW L, Covered(L), NEW ev, NEW ctx
  PROVE  Covered(autoWitness(L, ev, ctx))
<1>1. Covered(AttestNew(L, ev, ctx)) BY AddCovered DEF AttestNew
<1>2. Covered(CheckpointNew(AttestNew(L, ev, ctx), ctx))
  BY <1>1, AddCovered DEF CheckpointNew
<1> QED BY <1>1, <1>2 DEF autoWitness

\* Marking an author compromised (the equivocation branch of insertLocked) touches
\* neither the events nor the heads.
LEMMA CompromiseCovered ==
  ASSUME NEW L, Covered(L), NEW ev
  PROVE  Covered(Compromise(L, ev))
<1>0. IsLedger(L) BY DEF Covered
<1>1. IsLedger(Compromise(L, ev)) BY <1>0, CompromiseFields
<1>2. Compromise(L, ev).events = L.events BY <1>0, CompromiseFields DEF Fields
<1>3. Compromise(L, ev).heads = L.heads BY <1>0, CompromiseFields DEF Fields
<1> QED BY <1>1, <1>2, <1>3 DEF Covered

\* recomputeHeads takes every event that nothing links to.
LEMMA RebuildCovered ==
  ASSUME NEW L, IsLedger(L), NEW kept
  PROVE  Covered(Rebuild(L, kept))
<1>1. Covers(recomputeHeads(kept), kept) BY DEF Covers, recomputeHeads, Linked
<1> QED BY <1>1, RebuildFields DEF Covered

\* A snapshot without heads gets those its events leave.
LEMMA LoadCovered ==
  ASSUME NEW snap, Covers(snap.heads, snap.events)
  PROVE  Covered(NewFromSnapshot(snap))
<1> DEFINE M == NewFromSnapshot(snap)
<1>1. /\ IsLedger(M) /\ M.events = snap.events
      /\ M.heads = IF snap.heads = {} THEN HeadsInOrder(snap.events) ELSE snap.heads
  BY DEF NewFromSnapshot, IsLedger, Fields
<1> HIDE DEF M
<1>2. Covers(HeadsInOrder(snap.events), snap.events)
  <2> SUFFICES ASSUME NEW e \in Linked(snap.events), e.id \notin HeadsInOrder(snap.events)
               PROVE  e.id \in Referenced(Linked(snap.events))
    BY DEF Covers, Ids
  <2>1. PICK f \in Linked(snap.events) : e.id \in Links(f)
    BY DEF HeadsInOrder, Ids, Linked
  <2> QED BY <2>1 DEF Referenced
<1>3. Covers(M.heads, M.events) BY <1>1, <1>2
<1> QED BY <1>1, <1>3 DEF Covered, M

\* The inductive invariant: the file covers its events too.
HeadsInv == Covered(ledger) /\ Covers(disk.heads, disk.events)

\* The ledger New makes, and the empty file, are covered: there is nothing to cover.
LEMMA EmptyCovered == Covered(EmptyLedger) /\ Covers({}, {})
<1>1. Covers({}, {}) BY DEF Covers, Ids, Linked
<1> QED BY <1>1 DEF Covered, EmptyLedger, IsLedger, Fields

\* Every operation of the ledger, its pruning and its restart included, keeps the
\* events covered by the heads, in memory and in the file.
LEMMA HeadsStep ==
  HeadsInv /\ [Next]_vars => HeadsInv'
<1> SUFFICES ASSUME HeadsInv, [Next]_vars PROVE HeadsInv' OBVIOUS
<1>0. Covered(ledger) /\ Covers(disk.heads, disk.events) BY DEF HeadsInv
<1>b. ASSUME NEW L, Covered(L), Become(L) PROVE HeadsInv'
  BY <1>0, <1>b DEF Become, HeadsInv
<1>1. CASE Receive
  <2>1. PICK ev \in Remote \cup sent, ctx \in Contexts \cup {NoContext} : Apply(ev, ctx)
    BY <1>1 DEF Receive
  <2>2. CASE ApplyTooOld(ev, ctx) BY <1>0, <1>b, <2>2, AddCovered DEF ApplyTooOld
  <2>3. CASE ApplyEquivocation(ev)
    BY <1>0, <1>b, <2>3, AddCovered, CompromiseCovered DEF ApplyEquivocation
  <2>4. CASE ApplyAccept(ev, ctx)
    BY <1>0, <1>b, <2>4, AddCovered, WitnessCovered DEF ApplyAccept
  <2>5. CASE ApplyRefuse(ev, ctx) BY <1>0, <2>5 DEF ApplyRefuse, vars, HeadsInv
  <2> QED BY <2>1, <2>2, <2>3, <2>4, <2>5 DEF Apply
<1>2. CASE AddLocal BY <1>0, <1>b, <1>2, InsertCovered DEF AddLocal, AddEvent
<1>3. CASE EmitOwn
  BY Zenon, <1>0, <1>b, <1>3, AddCovered DEF EmitOwn, EmitWitnessAttest, EmitWitnessCheckpoint,
     EmitSyncSummary, EmitSybilMisbehavior
<1>4. CASE Tick BY <1>0, <1>4 DEF Tick, HeadsInv
<1>5. CASE Restarting
  <2>1. CASE Save
    <3>1. disk'.heads = ledger.heads /\ disk'.events = ledger.events /\ ledger' = ledger
      BY <2>1 DEF Save, Snapshot
    <3> QED BY <1>0, <3>1 DEF HeadsInv, Covered
  <2>2. CASE CrashInSave
    <3>1. disk'.heads = {} /\ disk'.events = {} /\ ledger' = EmptyLedger
      BY <2>2 DEF CrashInSave, NoSnapshot, Torn, Snapshot, EmptyLedger
    <3> QED BY <3>1, EmptyCovered DEF HeadsInv
  <2>3. CASE Crash BY <1>0, <2>3, EmptyCovered DEF Crash, HeadsInv
  <2>4. CASE Restart BY <1>0, <2>4, LoadCovered, EmptyCovered DEF Restart, HeadsInv
  <2> QED BY <1>5, <2>1, <2>2, <2>3, <2>4 DEF Restarting
<1>6. CASE Retaining
  <2>0. IsLedger(ledger) BY <1>0 DEF Covered
  <2>1. CASE Prune BY <1>b, <2>0, <2>1, RebuildCovered DEF Prune
  <2>2. ASSUME NEW pol \in RetentionPolicies, ApplyRetention(pol) PROVE HeadsInv'
    <3>1. \A a : IsLedger([ledger EXCEPT !.anchors = a]) BY <2>0 DEF IsLedger, Fields
    <3> QED BY Zenon, <1>b, <2>2, <3>1, RebuildCovered DEF ApplyRetention
  <2> QED BY <1>6, <2>1, <2>2 DEF Retaining
<1>7. CASE UNCHANGED vars BY <1>0, <1>7 DEF vars, HeadsInv
<1> QED BY <1>1, <1>2, <1>3, <1>4, <1>5, <1>6, <1>7 DEF Next, Running

\* Whatever arrives, is emitted, pruned, saved, lost and loaded again: a stored
\* event that can be a head is one, or an event that can be a head links to it.
THEOREM HeadsCover == Spec => []HeadsCoverEvents
<1>1. Init => HeadsInv
  <2> SUFFICES ASSUME Init PROVE HeadsInv OBVIOUS
  <2>1. ledger = EmptyLedger /\ disk.heads = {} /\ disk.events = {}
    BY DEF Init, NoSnapshot, Snapshot, EmptyLedger
  <2> QED BY <2>1, EmptyCovered DEF HeadsInv
<1>2. HeadsInv => HeadsCoverEvents
  BY DEF HeadsInv, Covered, Covers, Linked, HeadsCoverEvents
<1> QED BY <1>1, <1>2, HeadsStep, PTL DEF Spec

\* Prune and ApplyRetention remove nothing that a kept event links to.
THEOREM PruningSafe == Spec => PruningKeepsLinks
<1> DEFINE Step == up /\ up' /\ Retaining =>
             Referenced(ledger'.events) \cap Ids(ledger.events) \subseteq Ids(ledger'.events)
<1>1. Init => HeadsInv
  <2> SUFFICES ASSUME Init PROVE HeadsInv OBVIOUS
  <2>1. ledger = EmptyLedger /\ disk.heads = {} /\ disk.events = {}
    BY DEF Init, NoSnapshot, Snapshot, EmptyLedger
  <2> QED BY <2>1, EmptyCovered DEF HeadsInv
<1>2. HeadsInv /\ [Next]_vars => [Step]_vars
  <2> SUFFICES ASSUME IsLedger(ledger), Retaining
               PROVE  Referenced(ledger'.events) \cap Ids(ledger.events) \subseteq Ids(ledger'.events)
    BY DEF HeadsInv, Covered
  <2>1. ASSUME NEW gone \in SUBSET Prunable(ledger), ledger'.events = ledger.events \ gone
        PROVE  Referenced(ledger'.events) \cap Ids(ledger.events) \subseteq Ids(ledger'.events)
    <3>1. Referenced(ledger'.events) \subseteq Referenced(ledger.events) BY <2>1 DEF Referenced
    <3>2. \A e \in gone : e.id \notin Referenced(ledger.events) BY DEF Prunable
    <3> QED BY Zenon, <2>1, <3>1, <3>2 DEF Ids
  <2>2. CASE Prune
    <3>1. PICK gone \in SUBSET Prunable(ledger) :
            Become(Rebuild(ledger, ledger.events \ gone))
      BY <2>2 DEF Prune
    <3>2. ledger'.events = ledger.events \ gone BY <3>1, RebuildFields DEF Become
    <3> QED BY <2>1, <3>2
  <2>3. ASSUME NEW pol \in RetentionPolicies, ApplyRetention(pol)
        PROVE  Referenced(ledger'.events) \cap Ids(ledger.events) \subseteq Ids(ledger'.events)
    <3>1. PICK gone, a :
            /\ gone \in SUBSET Prunable(ledger)
            /\ Become(Rebuild([ledger EXCEPT !.anchors = a], ledger.events \ gone))
      BY Zenon, <2>3 DEF ApplyRetention
    <3>2. IsLedger([ledger EXCEPT !.anchors = a]) BY DEF IsLedger, Fields
    <3>3. ledger'.events = ledger.events \ gone BY <3>1, <3>2, RebuildFields DEF Become
    <3>4. gone \in SUBSET Prunable(ledger) BY <3>1
    <3> QED BY <2>1, <3>3, <3>4
  <2> QED BY <2>2, <2>3 DEF Retaining
<1> QED BY <1>1, <1>2, HeadsStep, PTL DEF Spec, PruningKeepsLinks

-----------------------------------------------------------------------------
(* What a node that does not prune keeps of its ledger. *)

\* The ids of a set of events tell them apart.
UniqueIds(evs) == \A e, f \in evs : e.id = f.id => e = f

\* Validate's shape of an event.
WellFormed(e) ==
    /\ e.id \in Nat \ {0} /\ e.seq \in Nat \ {0}
    /\ (e.seq = 1) <=> (e.prev = NoRef)
    /\ e.id \notin Refs(e)

OwnEvent(e) ==
    /\ WellFormed(e) /\ e.id >= FirstLocal
    /\ e.author = Observer.author /\ e.key = Observer.key

OnePerSeq(evs) == \A e, f \in evs : e.author = f.author /\ e.seq = f.seq => e = f

Unbroken(evs) ==
    \A e \in evs : e.seq > 1 => \E p \in evs :
        p.id = e.prev /\ p.author = e.author /\ p.seq + 1 = e.seq

\* If this node has events, one of them is its last.
HasLast(evs) ==
    (\E e \in evs : e.author = Observer.author)
        => \E l \in evs : /\ l.author = Observer.author
                          /\ \A f \in evs : f.author = Observer.author => f.seq <= l.seq

Chained(evs) == OnePerSeq(evs) /\ HasLast(evs) /\ (RequireKnownPrev => Unbroken(evs))

Indexed(L) ==
    /\ L.authorSeq = SeqIndex(L.events)
    /\ L.attestations = Claims(L.events, KindWitnessAttest)
    /\ L.checkpoints = Claims(L.events, KindWitnessCheckpoint)
    /\ L.introductions = Claims(L.events, KindIdentityIntroduce)
    /\ L.missingRefs = Dangling(L.events)

\* An event keeps the indexes right when it does not refer to itself.
LEMMA InsertIndexed ==
  ASSUME NEW L, IsLedger(L), Indexed(L), NEW ev, ev.id \notin Refs(ev)
  PROVE  Indexed(Insert(L, ev))
<1>m. PICK M : M = Insert(L, ev) OBVIOUS
<1>0. M.events = L.events \cup {ev} BY <1>m, InsertEvents
<1>1. M.authorSeq = SeqIndex(M.events)
  <2>1. M.authorSeq = L.authorSeq \cup {SeqEntry(ev)} BY <1>m, InsertSeq
  <2>2. SeqIndex(M.events) = SeqIndex(L.events) \cup {SeqEntry(ev)} BY <1>0 DEF SeqIndex
  <2> QED BY <2>1, <2>2 DEF Indexed
<1>2. \A kind : Claims(M.events, kind) = Claims(L.events, kind) \cup Claims({ev}, kind)
  BY <1>0 DEF Claims
<1>3. M.attestations = Claims(M.events, KindWitnessAttest)
  <2>1. M.attestations = L.attestations \cup Claims({ev}, KindWitnessAttest)
    BY Zenon, <1>m, InsertClaims
  <2> QED BY Zenon, <1>2, <2>1 DEF Indexed
<1>4. M.checkpoints = Claims(M.events, KindWitnessCheckpoint)
  <2>1. M.checkpoints = L.checkpoints \cup Claims({ev}, KindWitnessCheckpoint)
    BY Zenon, <1>m, InsertClaims
  <2> QED BY <1>2, <2>1 DEF Indexed
<1>5. M.introductions = Claims(M.events, KindIdentityIntroduce)
  <2>1. M.introductions = L.introductions \cup Claims({ev}, KindIdentityIntroduce)
    BY Zenon, <1>m, InsertClaims
  <2> QED BY <1>2, <2>1 DEF Indexed
<1>6. M.missingRefs = Dangling(M.events)
  <2>1. M.missingRefs = (L.missingRefs \ {ev.id}) \cup {r \in Refs(ev) : ~Stored(L, r)}
    BY <1>m, InsertMissing DEF trackMissingRefs
  <2>2. \A evs, r : r \in Dangling(evs) <=> r \notin Ids(evs) /\ \E e \in evs : r \in Refs(e)
    BY DEF Dangling
  <2>3. \A r : r \in L.missingRefs <=> r \notin Ids(L.events) /\ \E e \in L.events : r \in Refs(e)
    BY <2>2 DEF Indexed
  <2>4. Ids(M.events) = Ids(L.events) \cup {ev.id} BY <1>0 DEF Ids
  <2>5. \A r : Stored(L, r) <=> r \in Ids(L.events) BY DEF Stored
  <2>6. ASSUME NEW r PROVE r \in M.missingRefs <=> r \in Dangling(M.events)
    <3>1. r \in M.missingRefs <=> \/ r \in L.missingRefs /\ r # ev.id
                                  \/ r \in Refs(ev) /\ r \notin Ids(L.events)
      BY <2>1, <2>5
    <3>2. r \in Dangling(M.events) <=>
            r \notin Ids(L.events) /\ r # ev.id /\ \E e \in L.events \cup {ev} : r \in Refs(e)
      BY Zenon, <1>0, <2>2, <2>4
    <3>3. (\E e \in L.events \cup {ev} : r \in Refs(e))
            <=> r \in Refs(ev) \/ \E e \in L.events : r \in Refs(e)
      OBVIOUS
    <3> QED BY <2>3, <3>1, <3>2, <3>3
  <2>7. Dangling(M.events) \subseteq M.missingRefs /\ M.missingRefs \subseteq Dangling(M.events)
    BY <2>6
  <2> QED BY Zenon, <2>7
<1> QED BY <1>m, <1>1, <1>3, <1>4, <1>5, <1>6 DEF Indexed

\* An event that conflicts with none and follows its previous one extends a chain.
LEMMA InsertChained ==
  ASSUME NEW evs, Chained(evs), NEW ev,
         ev.seq \in Nat \ {0}, \A e \in evs : e.seq \in Nat \ {0},
         \A e \in evs : ~(e.author = ev.author /\ e.seq = ev.seq),
         RequireKnownPrev /\ ev.seq # 1 => \E p \in evs : p.id = ev.prev,
         PrevMatches(evs, ev)
  PROVE  Chained(evs \cup {ev})
<1>1. OnePerSeq(evs \cup {ev}) BY DEF Chained, OnePerSeq
<1>2. HasLast(evs \cup {ev})
  <2>1. CASE ev.author # Observer.author BY <2>1 DEF Chained, HasLast
  <2>2. CASE ev.author = Observer.author /\ \A e \in evs : e.author # Observer.author
    BY <2>2 DEF HasLast
  <2>3. CASE ev.author = Observer.author /\ \E e \in evs : e.author = Observer.author
    <3>1. PICK l \in evs : /\ l.author = Observer.author
                           /\ \A f \in evs : f.author = Observer.author => f.seq <= l.seq
      BY <2>3 DEF Chained, HasLast
    <3>2. CASE ev.seq <= l.seq BY <3>1, <3>2 DEF HasLast
    <3>3. CASE l.seq <= ev.seq
      <4>1. \A f \in evs : f.author = Observer.author => f.seq <= ev.seq BY <3>1, <3>3
      <4> QED BY <2>3, <4>1 DEF HasLast
    <3> QED BY <3>2, <3>3
  <2> QED BY <2>1, <2>2, <2>3
<1>3. ASSUME RequireKnownPrev PROVE Unbroken(evs \cup {ev})
  <2> SUFFICES ASSUME NEW e \in evs \cup {ev}, e.seq > 1
               PROVE  \E p \in evs : p.id = e.prev /\ p.author = e.author /\ p.seq + 1 = e.seq
    BY DEF Unbroken
  <2>1. CASE e \in evs BY <1>3, <2>1 DEF Chained, Unbroken
  <2>2. CASE e = ev
    <3>1. PICK p \in evs : p.id = ev.prev BY <1>3, <2>2
    <3> QED BY <2>2, <3>1 DEF PrevMatches
  <2> QED BY <2>1, <2>2
<1> QED BY <1>1, <1>2, <1>3 DEF Chained

-----------------------------------------------------------------------------
(* Where the events come from. *)

\* The events built since the last step.
Fresh(L) == Own(L) \ sent

SentSound ==
    /\ IsFiniteSet(sent) /\ UniqueIds(sent)
    /\ \A e \in sent : OwnEvent(e) /\ e.id < NextId

FreshSound(L) ==
    /\ IsFiniteSet(Fresh(L)) /\ UniqueIds(Fresh(L))
    /\ \A e \in Fresh(L) : OwnEvent(e) /\ e.id \in NextId .. NextId + Cardinality(Fresh(L)) - 1

Sound(L) ==
    /\ IsLedger(L) /\ L.heads \subseteq Ids(L.events)
    /\ Indexed(L) /\ Chained(L.events)
    /\ L.events \subseteq Remote \cup sent \cup Fresh(L) /\ FreshSound(L)

\* Events are well formed, and their ids tell them apart.
LEMMA Provenance ==
  ASSUME SentSound, NEW L, Sound(L)
  PROVE  /\ NextId \in Nat /\ NextId >= FirstLocal
         /\ \A e \in L.events \cup Remote \cup sent : WellFormed(e)
         /\ UniqueIds(L.events)
         /\ \A e \in L.events \cup Remote \cup sent :
              \/ e \in Remote /\ e.id < FirstLocal
              \/ e \in sent /\ e.id >= FirstLocal /\ e.id < NextId
              \/ e \in Fresh(L) /\ e.id >= NextId
<1>1. Cardinality(sent) \in Nat BY FS_CardinalityType DEF SentSound
<1>2. NextId \in Nat /\ NextId >= FirstLocal BY <1>1, BoundsNatural DEF NextId
<1>3. Cardinality(Fresh(L)) \in Nat BY FS_CardinalityType DEF Sound, FreshSound
<1>4. \A e \in Remote : WellFormed(e) /\ e.id < FirstLocal
  BY RemoteValid, BoundsNatural DEF WellFormed
<1>5. \A e \in sent : WellFormed(e) /\ e.id >= FirstLocal /\ e.id < NextId
  BY DEF SentSound, OwnEvent
<1>6. \A e \in Fresh(L) : WellFormed(e) /\ e.id >= NextId
  BY <1>2, <1>3 DEF Sound, FreshSound, OwnEvent
<1>7. L.events \subseteq Remote \cup sent \cup Fresh(L) BY DEF Sound
<1>8. \A e \in L.events \cup Remote \cup sent :
        \/ e \in Remote /\ e.id < FirstLocal
        \/ e \in sent /\ e.id >= FirstLocal /\ e.id < NextId
        \/ e \in Fresh(L) /\ e.id >= NextId
  BY <1>4, <1>5, <1>6, <1>7
<1>9. ASSUME NEW e \in L.events, NEW f \in L.events, e.id = f.id PROVE e = f
  <2>1. e.id \in Nat BY <1>4, <1>5, <1>6, <1>7 DEF WellFormed
  <2>2. FirstLocal \in Nat /\ NextId \in Nat /\ NextId >= FirstLocal BY <1>2, BoundsNatural
  <2>3. CASE e.id < FirstLocal
    <3>1. e \in Remote /\ f \in Remote BY <1>8, <1>9, <2>1, <2>2, <2>3
    <3> QED BY <1>9, <3>1, RemoteValid
  <2>4. CASE e.id >= FirstLocal /\ e.id < NextId
    <3>1. e \in sent /\ f \in sent BY <1>8, <1>9, <2>1, <2>2, <2>4
    <3> QED BY <1>9, <3>1 DEF SentSound, UniqueIds
  <2>5. CASE e.id >= NextId
    <3>1. e \in Fresh(L) /\ f \in Fresh(L) BY <1>8, <1>9, <2>1, <2>2, <2>5
    <3> QED BY <1>9, <3>1 DEF Sound, FreshSound, UniqueIds
  <2> QED BY <2>1, <2>2, <2>3, <2>4, <2>5
<1> QED BY <1>2, <1>4, <1>5, <1>6, <1>7, <1>8, <1>9 DEF UniqueIds

\* An event that arrives is of a peer, or was handed out.
LEMMA InsertFrom ==
  ASSUME SentSound, NEW L, Sound(L), NEW ev,
         \/ ev \in Remote \cup sent
         \/ OwnEvent(ev) /\ ev.id = NextId + Cardinality(Fresh(L))
  PROVE  LET M == Insert(L, ev)
         IN  /\ M.events \subseteq Remote \cup sent \cup Fresh(M) /\ FreshSound(M)
             /\ ev \in Remote \cup sent => Fresh(M) = Fresh(L)
<1>m. PICK M : M = Insert(L, ev) OBVIOUS
<1>0. M.events = L.events \cup {ev} BY <1>m, InsertEvents DEF Sound
<1>1. /\ NextId \in Nat /\ NextId >= FirstLocal
      /\ \A e \in Remote : e.id < FirstLocal /\ e.id \in Nat
      /\ \A e \in sent : e.id >= FirstLocal /\ e.id < NextId /\ e.id \in Nat
  <2>1. \A e \in Remote : e.id < FirstLocal /\ e.id \in Nat BY RemoteValid, BoundsNatural
  <2>2. \A e \in sent : e.id >= FirstLocal /\ e.id < NextId /\ e.id \in Nat
    BY DEF SentSound, OwnEvent, WellFormed
  <2> QED BY <2>1, <2>2, Provenance
<1>2. /\ L.events \subseteq Remote \cup sent \cup Fresh(L) /\ FreshSound(L)
      /\ Cardinality(Fresh(L)) \in Nat
  BY FS_CardinalityType DEF Sound, FreshSound
<1>3. CASE ev \in Remote \cup sent
  <2>1. Fresh(M) = Fresh(L)
    <3>1. ev \in sent \/ ~(ev.id >= FirstLocal) BY <1>1, <1>3, BoundsNatural
    <3> QED BY <1>0, <3>1 DEF Fresh, Own
  <2>2. FreshSound(M) BY <1>2, <2>1 DEF FreshSound
  <2> QED BY <1>0, <1>2, <1>3, <1>m, <2>1, <2>2
<1>4. CASE ev \notin Remote \cup sent /\ OwnEvent(ev) /\ ev.id = NextId + Cardinality(Fresh(L))
  <2>1. ev \notin sent BY <1>4
  <2>2. ev.id >= FirstLocal BY <1>4 DEF OwnEvent
  <2>3. Fresh(M) = Fresh(L) \cup {ev} BY <1>0, <2>1, <2>2 DEF Fresh, Own
  <2>4. ev \notin Fresh(L)
    <3>1. ev \in Fresh(L) => ev.id =< NextId + Cardinality(Fresh(L)) - 1
      BY <1>1, <1>2 DEF FreshSound
    <3> QED BY <1>1, <1>2, <1>4, <3>1
  <2>5. IsFiniteSet(Fresh(M)) /\ Cardinality(Fresh(M)) = Cardinality(Fresh(L)) + 1
    <3>1. IsFiniteSet(Fresh(L)) BY <1>2 DEF FreshSound
    <3>2. /\ IsFiniteSet(Fresh(L) \cup {ev})
          /\ Cardinality(Fresh(L) \cup {ev}) =
               IF ev \in Fresh(L) THEN Cardinality(Fresh(L)) ELSE Cardinality(Fresh(L)) + 1
      BY <3>1, FS_AddElement
    <3> QED BY <2>3, <2>4, <3>2
  <2>6. ASSUME NEW e \in Fresh(M)
        PROVE  OwnEvent(e) /\ e.id \in NextId .. NextId + Cardinality(Fresh(M)) - 1
    <3>1. CASE e \in Fresh(L)
      <4>1. OwnEvent(e) /\ e.id \in NextId .. NextId + Cardinality(Fresh(L)) - 1
        BY <1>2, <3>1 DEF FreshSound
      <4> QED BY <1>1, <1>2, <2>5, <4>1
    <3>2. CASE e = ev BY <1>1, <1>2, <1>4, <2>5, <3>2
    <3> QED BY <2>3, <3>1, <3>2
  <2>7. UniqueIds(Fresh(M))
    <3>1. \A e \in Fresh(L) : e.id # ev.id
      <4>1. \A e \in Fresh(L) : e.id \in NextId .. NextId + Cardinality(Fresh(L)) - 1
        BY <1>2 DEF FreshSound
      <4> QED BY <1>1, <1>2, <1>4, <4>1
    <3> QED BY <1>2, <2>3, <3>1 DEF UniqueIds, FreshSound
  <2>8. FreshSound(M) BY <2>5, <2>6, <2>7 DEF FreshSound
  <2> QED BY <1>0, <1>2, <1>4, <1>m, <2>3, <2>8
<1> QED BY <1>3, <1>4

-----------------------------------------------------------------------------
(* Adding an event. *)

\* Add and addLocked keep the ledger sound, if the event has no place that another
\* one holds and follows its author's previous event.
LEMMA InsertSound ==
  ASSUME SentSound, NEW L, Sound(L), NEW ev,
         WellFormed(ev), Conflicts(L, ev) = {}, ~Stored(L, ev.id),
         RequireKnownPrev => PrevKnown(L, ev), PrevMatches(L.events, ev),
         \/ ev \in Remote \cup sent
         \/ OwnEvent(ev) /\ ev.id = NextId + Cardinality(Fresh(L))
  PROVE  Sound(Insert(L, ev))
<1>m. PICK M : M = Insert(L, ev) OBVIOUS
<1>s. IsLedger(L) /\ L.heads \subseteq Ids(L.events) /\ Indexed(L) /\ Chained(L.events)
  BY DEF Sound
<1>0. M.events = L.events \cup {ev} BY <1>m, <1>s, InsertEvents
<1>1. IsLedger(M) BY <1>m, <1>s, InsertIs
<1>2. M.heads \subseteq Ids(M.events)
  <2>1. M.heads = Heads(L.heads, ev) BY <1>m, <1>s, InsertHeads
  <2>2. Ids(M.events) = Ids(L.events) \cup {ev.id} BY <1>0 DEF Ids
  <2> QED BY <1>s, <2>1, <2>2 DEF Heads
<1>3. Indexed(M) BY <1>m, <1>s, InsertIndexed DEF WellFormed
<1>4. Chained(M.events)
  <2>1. ASSUME NEW e \in L.events, e.author = ev.author, e.seq = ev.seq PROVE FALSE
    <3>1. SeqEntry(e) \in L.authorSeq BY <1>s DEF Indexed, SeqIndex
    <3>2. e.id # ev.id BY DEF Stored, Ids
    <3>3. SeqEntry(e) \in Conflicts(L, ev) BY <2>1, <3>1, <3>2 DEF Conflicts, SeqEntry
    <3> QED BY <3>3
  <2>2. \A e \in L.events : e.seq \in Nat \ {0} BY Provenance DEF WellFormed
  <2>3. RequireKnownPrev /\ ev.seq # 1 => \E p \in L.events : p.id = ev.prev
    BY DEF PrevKnown, Stored, Ids
  <2>4. ev.seq \in Nat \ {0} BY DEF WellFormed
  <2> QED BY <1>0, <1>s, <2>1, <2>2, <2>3, <2>4, InsertChained
<1>5. M.events \subseteq Remote \cup sent \cup Fresh(M) /\ FreshSound(M)
  BY <1>m, InsertFrom
<1> QED BY <1>m, <1>1, <1>2, <1>3, <1>4, <1>5 DEF Sound

\* nextSeqLocked: the last event of this node, and the number after it.
LEMMA NextSeq ==
  ASSUME SentSound, NEW L, Sound(L)
  PROVE  \/ /\ LastSeq(L) = 0 /\ LastId(L) = NoRef
            /\ \A e \in L.events : e.author # Observer.author
         \/ \E l \in L.events :
              /\ l.author = Observer.author /\ LastSeq(L) = l.seq /\ LastId(L) = l.id
              /\ \A f \in L.events : f.author = Observer.author => f.seq <= l.seq
<1>1. L.authorSeq = SeqIndex(L.events) /\ Chained(L.events) BY DEF Sound, Indexed
<1>2. OwnSeqs(L) = {SeqEntry(e) : e \in {x \in L.events : x.author = Observer.author}}
  BY <1>1 DEF OwnSeqs, SeqIndex, SeqEntry
<1>3. CASE \A e \in L.events : e.author # Observer.author
  <2>1. OwnSeqs(L) = {} BY <1>2, <1>3
  <2> QED BY <1>3, <2>1 DEF LastSeq, LastId
<1>4. CASE \E e \in L.events : e.author = Observer.author
  <2>1. PICK l \in L.events : /\ l.author = Observer.author
                              /\ \A f \in L.events : f.author = Observer.author => f.seq <= l.seq
    BY <1>1, <1>4 DEF Chained, HasLast
  <2>2. \A e \in L.events : e.seq \in Nat BY Provenance DEF WellFormed
  <2>3. SeqEntry(l) \in OwnSeqs(L) BY <1>2, <2>1
  <2> DEFINE S == {t[2] : t \in OwnSeqs(L)}
  <2>4. l.seq \in S BY <2>3 DEF SeqEntry
  <2>5. \A x \in S : x \in Nat /\ x <= l.seq BY <1>2, <2>1, <2>2 DEF SeqEntry
  <2>6. \E x \in S : \A y \in S : x >= y BY <2>2, <2>4, <2>5
  <2>7. Max(S) \in S /\ \A y \in S : Max(S) >= y BY <2>6 DEF Max
  <2>8. Max(S) = l.seq
    <3>1. Max(S) \in Nat /\ Max(S) <= l.seq BY <2>5, <2>7
    <3>2. Max(S) >= l.seq /\ l.seq \in Nat BY <2>2, <2>4, <2>7
    <3> QED BY <3>1, <3>2
  <2>9. OwnSeqs(L) # {} BY <2>3
  <2>10. LastSeq(L) = l.seq BY <2>8, <2>9 DEF LastSeq
  <2>11. \E t \in OwnSeqs(L) : t[2] = LastSeq(L) BY <2>3, <2>10 DEF SeqEntry
  <2>12. PICK t \in OwnSeqs(L) : t[2] = LastSeq(L) /\ LastId(L) = t[3]
    BY Zenon, <2>9, <2>11 DEF LastId
  <2>13. PICK e \in L.events : e.author = Observer.author /\ t = SeqEntry(e) BY <1>2
  <2>14. e.seq = l.seq /\ LastId(L) = e.id BY <2>10, <2>12, <2>13 DEF SeqEntry
  <2>15. e = l BY <1>1, <2>1, <2>13, <2>14 DEF Chained, OnePerSeq
  <2> QED BY <2>1, <2>10, <2>14, <2>15
<1> QED BY <1>3, <1>4

\* The event the node builds is its next one.
LEMMA BuildSound ==
  ASSUME SentSound, NEW L, Sound(L), NEW kind, NEW ctx, NEW of,
         kind = KindWitnessAttest => of \subseteq Ids(L.events)
  PROVE  Sound(Emit(L, Cardinality(Fresh(L)), kind, ctx, of))
<1> DEFINE id == NextId + Cardinality(Fresh(L))
           b == Build(L, id, kind, ctx, of)
<1>1. /\ b.id = id /\ b.author = Observer.author /\ b.key = Observer.key
      /\ b.seq = LastSeq(L) + 1 /\ b.prev = LastId(L) /\ b.parents = FirstParents(L.heads)
      /\ b.kind = kind /\ b.of = of
  BY DEF Build
<1>e. Emit(L, Cardinality(Fresh(L)), kind, ctx, of) = addLocked(L, b) BY DEF Emit
<1> HIDE DEF b
<1>2. /\ NextId \in Nat /\ NextId >= FirstLocal /\ Cardinality(Fresh(L)) \in Nat
      /\ FirstLocal \in Nat \ {0}
  BY Provenance, FS_CardinalityType, BoundsNatural DEF Sound, FreshSound
<1>3. \A e \in L.events : e.id \in Nat \ {0} /\ e.id < id
  <2>1. \A e \in L.events : WellFormed(e) BY Provenance
  <2>2. ASSUME NEW e \in L.events PROVE e.id < id
    <3>1. CASE e.id < NextId BY <1>2, <2>1, <3>1 DEF WellFormed
    <3>2. CASE e \in Fresh(L)
      <4>1. e.id \in NextId .. NextId + Cardinality(Fresh(L)) - 1 BY <3>2 DEF Sound, FreshSound
      <4> QED BY <1>2, <4>1
    <3>3. e.id < NextId \/ e \in Fresh(L) BY <1>2, <2>1, Provenance DEF WellFormed
    <3> QED BY <3>1, <3>2, <3>3
  <2> QED BY <2>1, <2>2 DEF WellFormed
<1>4. \A r \in Ids(L.events) : r \in Nat \ {0} /\ r < id BY <1>3 DEF Ids
<1>5. id \in Nat \ {0} /\ id >= FirstLocal BY <1>2
<1>6. /\ b.seq \in Nat \ {0}
      /\ (b.seq = 1) <=> (b.prev = NoRef)
      /\ b.prev # NoRef => b.prev \in Ids(L.events)
      /\ \A f \in L.events : f.author = Observer.author => f.seq < b.seq
      /\ PrevMatches(L.events, b)
  <2>0. \A e \in L.events : e.seq \in Nat \ {0} BY Provenance DEF WellFormed
  <2>u. UniqueIds(L.events) BY Provenance
  <2>1. CASE LastSeq(L) = 0 /\ LastId(L) = NoRef /\ \A e \in L.events : e.author # Observer.author
    <3>1. b.seq = 1 /\ b.prev = NoRef BY <1>1, <2>1
    <3>2. \A p \in L.events : p.id # b.prev BY <1>3, <3>1 DEF NoRef
    <3> QED BY <2>1, <3>1, <3>2 DEF PrevMatches
  <2>2. ASSUME NEW l \in L.events,
               l.author = Observer.author, LastSeq(L) = l.seq, LastId(L) = l.id,
               \A f \in L.events : f.author = Observer.author => f.seq <= l.seq
        PROVE  /\ b.seq \in Nat \ {0}
               /\ (b.seq = 1) <=> (b.prev = NoRef)
               /\ b.prev # NoRef => b.prev \in Ids(L.events)
               /\ \A f \in L.events : f.author = Observer.author => f.seq < b.seq
               /\ PrevMatches(L.events, b)
    <3>1. b.seq = l.seq + 1 /\ b.prev = l.id BY <1>1, <2>2
    <3>2. b.seq \in Nat \ {0} /\ b.seq # 1 /\ b.prev # NoRef BY <1>3, <2>0, <3>1 DEF NoRef
    <3>3. b.prev \in Ids(L.events) BY <3>1 DEF Ids
    <3>4. \A f \in L.events : f.author = Observer.author => f.seq < b.seq BY <2>0, <2>2, <3>1
    <3>5. PrevMatches(L.events, b)
      <4>1. \A p \in L.events : p.id = b.prev => p = l BY <2>u, <3>1 DEF UniqueIds
      <4> QED BY <1>1, <2>2, <3>1, <4>1 DEF PrevMatches
    <3> QED BY <3>2, <3>3, <3>4, <3>5
  <2> QED BY <2>1, <2>2, NextSeq
<1>7. Refs(b) \subseteq Ids(L.events)
  <2>1. b.parents \subseteq Ids(L.events) BY <1>1 DEF FirstParents, Sound
  <2>2. Links(b) \subseteq Ids(L.events) BY <1>6, <2>1 DEF Links
  <2> QED BY <1>1, <2>2 DEF Refs
<1>8. WellFormed(b) /\ OwnEvent(b)
  <2>1. b.id \notin Refs(b) BY <1>1, <1>4, <1>5, <1>7
  <2> QED BY <1>1, <1>5, <1>6, <2>1 DEF WellFormed, OwnEvent
<1>9. Conflicts(L, b) = {} /\ ~Stored(L, b.id)
  <2>1. ~Stored(L, b.id) BY <1>1, <1>4, <1>5 DEF Stored
  <2>2. ASSUME NEW t \in Conflicts(L, b) PROVE FALSE
    <3>1. t \in SeqIndex(L.events) /\ t[1] = Observer.author /\ t[2] = b.seq
      BY <1>1 DEF Conflicts, Sound, Indexed
    <3>2. PICK f \in L.events : t = SeqEntry(f) BY <3>1 DEF SeqIndex
    <3>3. f.author = Observer.author /\ f.seq = b.seq BY <3>1, <3>2 DEF SeqEntry
    <3>4. f.seq < b.seq /\ b.seq \in Nat BY <1>6, <3>3
    <3> QED BY <3>3, <3>4
  <2> QED BY <2>1, <2>2
<1>10. PrevKnown(L, b) BY <1>6 DEF PrevKnown, Stored
<1>11. Sound(Insert(L, b)) BY <1>1, <1>6, <1>8, <1>9, <1>10, InsertSound
<1> QED BY <1>e, <1>9, <1>11 DEF addLocked

-----------------------------------------------------------------------------
(* Steps *)

\* The node knows its own key to be compromised when two of its events have one
\* number, of which it holds one.
SelfCompromised(L) ==
    Observer.key \in L.compromised =>
        \E s \in sent, e \in L.events : s # e /\ s.author = e.author /\ s.seq = e.seq

DiskSound ==
    /\ disk.events \subseteq Remote \cup sent /\ disk.heads \subseteq Ids(disk.events)
    /\ Chained(disk.events)

\* The inductive invariant.
LedgerInv ==
    /\ SentSound /\ Sound(ledger) /\ Fresh(ledger) = {} /\ SelfCompromised(ledger)
    /\ DiskSound /\ now \in 0 .. MaxNow

\* Adding events compromises no key.
LEMMA AddCompromised ==
  ASSUME NEW L, IsLedger(L), SelfCompromised(L), NEW ev
  PROVE  IsLedger(addLocked(L, ev)) /\ SelfCompromised(addLocked(L, ev))
<1>1. CASE addLocked(L, ev) = L BY <1>1
<1>2. CASE addLocked(L, ev) = Insert(L, ev)
  <2>1. IsLedger(Insert(L, ev)) BY InsertIs
  <2>2. Insert(L, ev).compromised = L.compromised BY InsertCompromised
  <2>3. Insert(L, ev).events = L.events \cup {ev} BY InsertEvents
  <2> QED BY <1>2, <2>1, <2>2, <2>3 DEF SelfCompromised
<1> QED BY <1>1, <1>2 DEF addLocked

\* What a method leaves in the ledger becomes the state, and what it built is
\* handed out.
LEMMA BecomeInv ==
  ASSUME LedgerInv, NEW L, Sound(L), SelfCompromised(L), Become(L)
  PROVE  LedgerInv'
<1>0. SentSound /\ DiskSound /\ now \in 0 .. MaxNow BY DEF LedgerInv
<1>1. /\ ledger' = L /\ sent' = sent \cup Own(L) /\ disk' = disk /\ now' = now
  BY DEF Become
<1>2. sent' = sent \cup Fresh(L) BY <1>1 DEF Fresh
<1>3. /\ IsFiniteSet(sent) /\ IsFiniteSet(Fresh(L)) /\ FreshSound(L)
      /\ Cardinality(sent) \in Nat /\ Cardinality(Fresh(L)) \in Nat
  BY <1>0, FS_CardinalityType DEF SentSound, Sound, FreshSound
<1>4. IsFiniteSet(sent') /\ Cardinality(sent') = Cardinality(sent) + Cardinality(Fresh(L))
  <2>1. sent \cap Fresh(L) = {} BY DEF Fresh
  <2>2. /\ IsFiniteSet(sent \cup Fresh(L))
        /\ Cardinality(sent \cup Fresh(L)) =
             Cardinality(sent) + Cardinality(Fresh(L)) - Cardinality(sent \cap Fresh(L))
    BY <1>3, FS_Union
  <2>3. Cardinality(sent \cap Fresh(L)) = 0 BY <2>1, FS_EmptySet
  <2>4. Cardinality(sent') = Cardinality(sent \cup Fresh(L)) /\ IsFiniteSet(sent') BY <1>2, <2>2
  <2> QED BY <1>3, <2>2, <2>3, <2>4
<1>5. NextId \in Nat /\ NextId' = NextId + Cardinality(Fresh(L)) /\ NextId >= FirstLocal
  BY <1>3, <1>4, BoundsNatural DEF NextId
<1>6. SentSound'
  <2>1. ASSUME NEW e \in sent' PROVE OwnEvent(e) /\ e.id < NextId'
    <3>1. CASE e \in sent
      <4>1. OwnEvent(e) /\ e.id < NextId BY <1>0, <3>1 DEF SentSound
      <4> QED BY <1>3, <1>5, <4>1 DEF OwnEvent, WellFormed
    <3>2. CASE e \in Fresh(L)
      <4>1. OwnEvent(e) /\ e.id \in NextId .. NextId + Cardinality(Fresh(L)) - 1
        BY <1>3, <3>2 DEF FreshSound
      <4> QED BY <1>3, <1>5, <4>1
    <3> QED BY <1>2, <3>1, <3>2
  <2>2. ASSUME NEW e \in sent', NEW f \in sent', e.id = f.id PROVE e = f
    <3>1. \A x \in sent : x.id < NextId /\ x.id \in Nat
      BY <1>0 DEF SentSound, OwnEvent, WellFormed
    <3>2. \A x \in Fresh(L) : x.id >= NextId /\ x.id \in Nat BY <1>3, <1>5 DEF FreshSound
    <3>3. CASE e \in sent
      <4>1. f \in sent BY <1>2, <1>5, <2>2, <3>1, <3>2, <3>3
      <4> QED BY <1>0, <2>2, <3>3, <4>1 DEF SentSound, UniqueIds
    <3>4. CASE e \in Fresh(L)
      <4>1. f \in Fresh(L) BY <1>2, <1>5, <2>2, <3>1, <3>2, <3>4
      <4> QED BY <1>3, <2>2, <3>4, <4>1 DEF FreshSound, UniqueIds
    <3> QED BY <1>2, <3>3, <3>4
  <2> QED BY <1>4, <2>1, <2>2 DEF SentSound, UniqueIds
<1>7. Fresh(ledger)' = {} BY <1>1 DEF Fresh, Own
<1>8. Sound(ledger)'
  <2>1. /\ IsLedger(L) /\ L.heads \subseteq Ids(L.events) /\ Indexed(L) /\ Chained(L.events)
        /\ L.events \subseteq Remote \cup sent'
    BY <1>2 DEF Sound
  <2>2. FreshSound(ledger)' BY <1>7, FS_EmptySet DEF FreshSound, UniqueIds
  <2> QED BY <1>1, <2>1, <2>2 DEF Sound
<1>9. SelfCompromised(ledger)' BY <1>1 DEF SelfCompromised
<1>10. DiskSound' BY <1>0, <1>1 DEF DiskSound
<1> QED BY <1>0, <1>1, <1>6, <1>7, <1>8, <1>9, <1>10 DEF LedgerInv

\* The observer's own statements.
LEMMA EmitInv ==
  ASSUME LedgerInv, NEW kind, NEW ctx, NEW of,
         kind = KindWitnessAttest => of \subseteq Ids(ledger.events),
         Become(Emit(ledger, 0, kind, ctx, of))
  PROVE  LedgerInv'
<1>1. Cardinality(Fresh(ledger)) = 0 BY FS_EmptySet DEF LedgerInv
<1>2. Sound(Emit(ledger, 0, kind, ctx, of)) BY <1>1, BuildSound DEF LedgerInv
<1>3. SelfCompromised(Emit(ledger, 0, kind, ctx, of))
  BY AddCompromised DEF LedgerInv, Sound, Emit
<1> QED BY <1>2, <1>3, BecomeInv

\* autoWitnessAfterApplyLocked: an attestation of the event, then a checkpoint.
LEMMA WitnessSound ==
  ASSUME SentSound, NEW L, Sound(L), SelfCompromised(L), Fresh(L) = {},
         NEW ev, Stored(L, ev.id), NEW ctx
  PROVE  Sound(autoWitness(L, ev, ctx)) /\ SelfCompromised(autoWitness(L, ev, ctx))
<1>1. Sound(AttestNew(L, ev, ctx)) /\ SelfCompromised(AttestNew(L, ev, ctx))
  <2>1. Cardinality(Fresh(L)) = 0 BY FS_EmptySet
  <2>2. {ev.id} \subseteq Ids(L.events) BY DEF Stored
  <2>3. Sound(Emit(L, 0, KindWitnessAttest, ctx, {ev.id})) BY Zenon, <2>1, <2>2, BuildSound
  <2>4. SelfCompromised(Emit(L, 0, KindWitnessAttest, ctx, {ev.id}))
    BY AddCompromised DEF Sound, Emit
  <2> QED BY <2>3, <2>4 DEF AttestNew
<1>2. ASSUME NEW K, Sound(K), SelfCompromised(K)
      PROVE  Sound(CheckpointNew(K, ctx)) /\ SelfCompromised(CheckpointNew(K, ctx))
  <2>1. KindWitnessCheckpoint # KindWitnessAttest BY DEF KindWitnessCheckpoint, KindWitnessAttest
  <2>2. Sound(Emit(K, Cardinality(Own(K) \ sent), KindWitnessCheckpoint, ctx, K.heads))
    BY <1>2, <2>1, BuildSound DEF Fresh
  <2>3. \A n, of : SelfCompromised(Emit(K, n, KindWitnessCheckpoint, ctx, of))
    BY <1>2, AddCompromised DEF Sound, Emit
  <2> QED BY <1>2, <2>2, <2>3 DEF CheckpointNew
<1> QED BY <1>1, <1>2 DEF autoWitness

\* Two events with one number: if this node's key is among the keys found
\* compromised, then one of the two is an event it handed out and no longer holds.
LEMMA CompromiseSound ==
  ASSUME LedgerInv, NEW ev \in Remote \cup sent, ~Stored(ledger, ev.id),
         Conflicts(ledger, ev) # {}
  PROVE  LET L == Compromise(ledger, ev)
         IN  Sound(L) /\ SelfCompromised(L) /\ Fresh(L) = {}
<1>m. PICK L : L = Compromise(ledger, ev) OBVIOUS
<1>0. Sound(ledger) /\ Fresh(ledger) = {} /\ SelfCompromised(ledger) /\ SentSound
  BY DEF LedgerInv
<1>1. IsLedger(ledger) BY <1>0 DEF Sound
<1>2. IsLedger(L) BY <1>1, <1>m, CompromiseFields
<1>3. \A f \in Fields \ {"compromised"} : L[f] = ledger[f] BY Zenon, <1>1, <1>m, CompromiseFields
<1>4. /\ L.events = ledger.events /\ L.heads = ledger.heads /\ L.authorSeq = ledger.authorSeq
      /\ L.missingRefs = ledger.missingRefs /\ L.attestations = ledger.attestations
      /\ L.checkpoints = ledger.checkpoints /\ L.introductions = ledger.introductions
  BY <1>3 DEF Fields
<1>5. Fresh(L) = Fresh(ledger) BY <1>4 DEF Fresh, Own
<1>6. Sound(L)
  <2>1. Indexed(L) BY <1>0, <1>4 DEF Sound, Indexed
  <2>2. FreshSound(L) BY <1>0, <1>5 DEF Sound, FreshSound
  <2> QED BY <1>0, <1>2, <1>4, <1>5, <2>1, <2>2 DEF Sound
<1>7. SelfCompromised(L)
  <2> SUFFICES ASSUME Observer.key \in L.compromised
               PROVE  \E s \in sent, e \in ledger.events :
                        s # e /\ s.author = e.author /\ s.seq = e.seq
    BY <1>4 DEF SelfCompromised
  <2>1. L.compromised = ledger.compromised \cup {ev.key} \cup
          {e.key : e \in {x \in ledger.events : x.id \in {t[3] : t \in Conflicts(ledger, ev)}}}
    BY Zenon, <1>1, <1>m, CompromiseFields
  <2>2. CASE Observer.key \in ledger.compromised BY <1>0, <2>2 DEF SelfCompromised
  <2>3. ledger.authorSeq = SeqIndex(ledger.events) BY <1>0 DEF Sound, Indexed
  <2>4. ASSUME NEW t \in Conflicts(ledger, ev)
        PROVE  \E e \in ledger.events : /\ t = SeqEntry(e) /\ e.author = ev.author
                                        /\ e.seq = ev.seq /\ e # ev
    <3>1. t \in SeqIndex(ledger.events) /\ t[1] = ev.author /\ t[2] = ev.seq
      BY <2>3 DEF Conflicts
    <3>2. PICK e \in ledger.events : t = SeqEntry(e) BY <3>1 DEF SeqIndex
    <3>3. e # ev BY DEF Stored, Ids
    <3> QED BY <3>1, <3>2, <3>3 DEF SeqEntry
  <2>5. CASE ev.key = Observer.key
    <3>1. ev \in sent BY <2>5, RemoteForeign
    <3> QED BY <2>4, <3>1
  <2>6. ASSUME NEW x \in ledger.events, x.key = Observer.key, NEW t \in Conflicts(ledger, ev),
               x.id = t[3]
        PROVE  \E s \in sent, e \in ledger.events :
                 s # e /\ s.author = e.author /\ s.seq = e.seq
    <3>1. PICK e \in ledger.events : /\ t = SeqEntry(e) /\ e.author = ev.author
                                     /\ e.seq = ev.seq /\ e # ev
      BY <2>4
    <3>2. x.id = e.id BY <2>6, <3>1 DEF SeqEntry
    <3>3. x = e BY <1>0, <3>2, Provenance DEF UniqueIds
    <3>4. e \in sent BY <1>0, <2>6, <3>3, RemoteForeign DEF Sound
    <3>5. ev.author = Observer.author BY <1>0, <3>1, <3>4 DEF SentSound, OwnEvent
    <3>6. ev \in sent BY <3>5, RemoteForeign
    <3> QED BY <3>1, <3>6
  <2> QED BY <2>1, <2>2, <2>5, <2>6
<1> QED BY <1>0, <1>5, <1>6, <1>7, <1>m

\* Apply and its outcomes.
LEMMA ReceiveInv ==
  ASSUME LedgerInv, NEW ev \in Remote \cup sent, NEW ctx, Apply(ev, ctx)
  PROVE  LedgerInv'
<1>0. Sound(ledger) /\ Fresh(ledger) = {} /\ SelfCompromised(ledger) /\ SentSound
  BY DEF LedgerInv
<1>1. CASE ApplyTooOld(ev, ctx)
  <2>1. KindMisbehaviorReplay # KindWitnessAttest BY DEF KindMisbehaviorReplay, KindWitnessAttest
  <2>2. Become(Emit(ledger, 0, KindMisbehaviorReplay, ctx, {ev.id})) BY <1>1 DEF ApplyTooOld
  <2> QED BY <2>1, <2>2, EmitInv
<1>2. CASE ApplyEquivocation(ev)
  <2>m. PICK L : L = Compromise(ledger, ev) OBVIOUS
  <2>1. ~Stored(ledger, ev.id) /\ Conflicts(ledger, ev) # {} BY <1>2 DEF ApplyEquivocation
  <2>2. Sound(L) /\ SelfCompromised(L) /\ Fresh(L) = {} BY <2>m, <2>1, CompromiseSound
  <2>3. Cardinality(Fresh(L)) = 0 BY <2>2, FS_EmptySet
  <2>4. KindMisbehaviorEquivoc # KindWitnessAttest
    BY DEF KindMisbehaviorEquivoc, KindWitnessAttest
  <2> DEFINE E == Emit(L, 0, KindMisbehaviorEquivoc, NoContext, {ev.key})
  <2>5. Sound(E) BY <1>0, <2>2, <2>3, <2>4, BuildSound
  <2>6. SelfCompromised(E) BY <2>2, AddCompromised DEF Sound, Emit
  <2>7. Become(IF Observing THEN E ELSE L) BY <1>2, <2>m DEF ApplyEquivocation
  <2> HIDE DEF E
  <2>8. Become(E) \/ Become(L) BY <2>7
  <2> QED BY <2>2, <2>5, <2>6, <2>8, BecomeInv
<1>3. CASE ApplyAccept(ev, ctx)
  <2>m. PICK L : L = Insert(ledger, ev) OBVIOUS
  <2>1. /\ ~Stored(ledger, ev.id) /\ Conflicts(ledger, ev) = {}
        /\ RequireKnownPrev => PrevKnown(ledger, ev)
        /\ PrevMatches(ledger.events, ev)
    BY <1>3 DEF ApplyAccept
  <2>2. addLocked(ledger, ev) = L BY <2>m, <2>1 DEF addLocked
  <2>3. WellFormed(ev) BY <1>0, Provenance
  <2>4. Sound(L) BY <1>0, <2>m, <2>1, <2>3, InsertSound
  <2>5. SelfCompromised(L) BY <1>0, <2>2, AddCompromised DEF Sound
  <2>6. Fresh(L) = {} BY <1>0, <2>m, InsertFrom
  <2>7. Stored(L, ev.id)
    <3>1. L.events = ledger.events \cup {ev} BY <1>0, <2>m, InsertEvents DEF Sound
    <3> QED BY <3>1 DEF Stored, Ids
  <2>8. Sound(autoWitness(L, ev, ctx)) /\ SelfCompromised(autoWitness(L, ev, ctx))
    BY <1>0, <2>4, <2>5, <2>6, <2>7, WitnessSound
  <2>9. Become(autoWitness(L, ev, ctx)) BY <1>3, <2>2 DEF ApplyAccept
  <2> QED BY <2>8, <2>9, BecomeInv
<1>4. CASE ApplyRefuse(ev, ctx)
  <2>1. UNCHANGED <<up, ledger, sent, disk, now>> BY <1>4 DEF ApplyRefuse, vars
  <2> QED BY <2>1 DEF LedgerInv, SentSound, Sound, Fresh, FreshSound, SelfCompromised,
                       DiskSound, NextId
<1> QED BY <1>1, <1>2, <1>3, <1>4 DEF Apply

\* The file, and the ledger built from it.
LEMMA RestartInv ==
  ASSUME LedgerInv, Restarting
  PROVE  LedgerInv'
<1>0. /\ Sound(ledger) /\ Fresh(ledger) = {} /\ SelfCompromised(ledger) /\ SentSound
      /\ DiskSound /\ now \in 0 .. MaxNow
  BY DEF LedgerInv
<1>1. sent' = sent /\ now' = now
  BY DEF Restarting, Save, CrashInSave, Crash, Restart
<1>2. SentSound' BY <1>0, <1>1 DEF SentSound, NextId
<1>3. ASSUME NEW L, IsLedger(L), L.heads \subseteq Ids(L.events), Indexed(L), Chained(L.events),
             L.events \subseteq Remote \cup sent, L.compromised = {}, ledger' = L
      PROVE  Sound(ledger)' /\ Fresh(ledger)' = {} /\ SelfCompromised(ledger)'
  <2>1. Own(L) \subseteq sent BY <1>3, RemoteValid, BoundsNatural DEF Own
  <2>2. Fresh(ledger)' = {} BY <1>1, <1>3, <2>1 DEF Fresh, Own
  <2>3. FreshSound(ledger)' BY <2>2, FS_EmptySet DEF FreshSound, UniqueIds
  <2>4. Sound(ledger)' BY <1>1, <1>3, <2>3 DEF Sound
  <2> QED BY <1>3, <2>2, <2>4 DEF SelfCompromised
<1>4. Chained({}) BY DEF Chained, OnePerSeq, HasLast, Unbroken
<1>5. ASSUME ledger' = EmptyLedger
      PROVE  Sound(ledger)' /\ Fresh(ledger)' = {} /\ SelfCompromised(ledger)'
  <2>1. IsLedger(EmptyLedger) BY DEF EmptyLedger, IsLedger, Fields
  <2>2. Indexed(EmptyLedger) BY Zenon DEF EmptyLedger, Indexed, SeqIndex, Claims, Dangling
  <2>3. /\ EmptyLedger.heads = {} /\ EmptyLedger.events = {} /\ EmptyLedger.compromised = {}
    BY DEF EmptyLedger
  <2>4. PICK L : L = EmptyLedger OBVIOUS
  <2> QED BY <1>3, <1>4, <1>5, <2>1, <2>2, <2>3, <2>4
<1>6. CASE Save
  <2>1. ledger' = ledger /\ disk'.events = ledger.events /\ disk'.heads = ledger.heads
    BY <1>6 DEF Save, Snapshot
  <2>2. DiskSound' BY <1>0, <1>1, <2>1 DEF DiskSound, Sound
  <2>3. Sound(ledger)' /\ Fresh(ledger)' = {} /\ SelfCompromised(ledger)'
    BY <1>0, <1>1, <2>1 DEF Sound, Fresh, FreshSound, NextId, SelfCompromised
  <2> QED BY <1>0, <1>1, <1>2, <2>2, <2>3 DEF LedgerInv
<1>7. CASE CrashInSave
  <2>1. disk'.events = {} /\ disk'.heads = {} /\ ledger' = EmptyLedger
    BY <1>7 DEF CrashInSave, NoSnapshot, Torn, Snapshot, EmptyLedger
  <2>2. DiskSound' BY <1>4, <2>1 DEF DiskSound
  <2> QED BY <1>0, <1>1, <1>2, <1>5, <2>1, <2>2 DEF LedgerInv
<1>8. CASE Crash
  <2>1. disk' = disk /\ ledger' = EmptyLedger BY <1>8 DEF Crash
  <2>2. DiskSound' BY <1>0, <1>1, <2>1 DEF DiskSound
  <2> QED BY <1>0, <1>1, <1>2, <1>5, <2>1, <2>2 DEF LedgerInv
<1>9. CASE Restart
  <2>1. disk' = disk /\ (ledger' = EmptyLedger \/ ledger' = NewFromSnapshot(disk))
    BY <1>9 DEF Restart
  <2>2. DiskSound' BY <1>0, <1>1, <2>1 DEF DiskSound
  <2>m. PICK L : L = NewFromSnapshot(disk) OBVIOUS
  <2>3. IsLedger(L) BY <2>m DEF NewFromSnapshot, IsLedger, Fields
  <2>4. /\ L.events = disk.events /\ L.compromised = {}
        /\ L.heads = IF disk.heads = {} THEN HeadsInOrder(disk.events) ELSE disk.heads
    BY <2>m DEF NewFromSnapshot
  <2>5. Indexed(L) BY <2>m DEF NewFromSnapshot, Indexed
  <2>6. L.heads \subseteq Ids(L.events) BY <1>0, <2>4 DEF DiskSound, HeadsInOrder, Ids
  <2>7. Chained(L.events) /\ L.events \subseteq Remote \cup sent BY <1>0, <2>4 DEF DiskSound
  <2>8. Sound(ledger)' /\ Fresh(ledger)' = {} /\ SelfCompromised(ledger)'
    BY <1>3, <1>5, <2>1, <2>m, <2>3, <2>4, <2>5, <2>6, <2>7
  <2> QED BY <1>0, <1>1, <1>2, <2>2, <2>8 DEF LedgerInv
<1> QED BY <1>6, <1>7, <1>8, <1>9 DEF Restarting

\* Every operation of a ledger that is not pruned keeps the inductive invariant.
LEMMA LedgerStep ==
  LedgerInv /\ [Running \/ Restarting]_vars => LedgerInv'
<1> SUFFICES ASSUME LedgerInv, [Running \/ Restarting]_vars PROVE LedgerInv' OBVIOUS
<1>0. Sound(ledger) /\ Fresh(ledger) = {} /\ SelfCompromised(ledger) /\ SentSound
  BY DEF LedgerInv
<1>1. CASE Receive BY <1>1, ReceiveInv DEF Receive
<1>2. CASE AddLocal
  <2>1. PICK ev \in Remote : AddEvent(ev) BY <1>2 DEF AddLocal
  <2>2. /\ PrevKnown(ledger, ev) /\ ~Stored(ledger, ev.id) /\ Conflicts(ledger, ev) = {}
        /\ PrevMatches(ledger.events, ev) /\ Become(Insert(ledger, ev))
    BY <2>1 DEF AddEvent
  <2>3. WellFormed(ev) BY <1>0, Provenance
  <2>4. Sound(Insert(ledger, ev)) BY <1>0, <2>2, <2>3, InsertSound
  <2>5. addLocked(ledger, ev) = Insert(ledger, ev) BY <2>2 DEF addLocked
  <2>6. SelfCompromised(Insert(ledger, ev)) BY <1>0, <2>5, AddCompromised DEF Sound
  <2> QED BY <2>2, <2>4, <2>6, BecomeInv
<1>3. CASE EmitOwn
  <2>1. PICK ctx \in Contexts :
          \/ \E id \in Ids(ledger.events) : EmitWitnessAttest(ctx, id)
          \/ EmitWitnessCheckpoint(ctx)
          \/ EmitSyncSummary(ctx)
          \/ EmitSybilMisbehavior(ctx)
    BY <1>3 DEF EmitOwn
  <2>2. ASSUME NEW id \in Ids(ledger.events), EmitWitnessAttest(ctx, id) PROVE LedgerInv'
    <3>1. Become(Emit(ledger, 0, KindWitnessAttest, ctx, {id})) BY <2>2 DEF EmitWitnessAttest
    <3> QED BY <3>1, EmitInv
  <2> USE DEF KindWitnessAttest, KindWitnessCheckpoint, KindSyncSummary, KindMisbehaviorSybil
  <2>3. CASE EmitWitnessCheckpoint(ctx) BY <2>3, EmitInv DEF EmitWitnessCheckpoint
  <2>4. CASE EmitSyncSummary(ctx) BY <2>4, EmitInv DEF EmitSyncSummary
  <2>5. CASE EmitSybilMisbehavior(ctx) BY <2>5, EmitInv DEF EmitSybilMisbehavior
  <2> QED BY <2>1, <2>2, <2>3, <2>4, <2>5
<1>4. ASSUME UNCHANGED <<ledger, sent, disk>>, now' \in 0 .. MaxNow PROVE LedgerInv'
  BY Zenon, <1>4 DEF LedgerInv, SentSound, Sound, Fresh, FreshSound, SelfCompromised, DiskSound, NextId
<1>5. CASE Tick
  <2>1. now' \in 0 .. MaxNow BY <1>5, BoundsNatural DEF Tick, LedgerInv
  <2> QED BY <1>4, <1>5, <2>1 DEF Tick
<1>6. CASE Restarting BY <1>6, RestartInv
<1>7. CASE UNCHANGED vars BY <1>4, <1>7 DEF vars, LedgerInv
<1> QED BY <1>1, <1>2, <1>3, <1>5, <1>6, <1>7 DEF Running

\* The ledger New makes satisfies the inductive invariant: it holds no event and
\* its indexes are empty.
LEMMA LedgerInit ==
  Init => LedgerInv
<1> SUFFICES ASSUME Init PROVE LedgerInv OBVIOUS
<1>1. /\ ledger = EmptyLedger /\ sent = {} /\ now = 0
      /\ disk.events = {} /\ disk.heads = {}
  BY Zenon DEF Init, NoSnapshot, Snapshot, EmptyLedger
<1>2. IsLedger(ledger) BY <1>1 DEF EmptyLedger, IsLedger, Fields
<1>3. Indexed(ledger) BY <1>1 DEF EmptyLedger, Indexed, SeqIndex, Claims, Dangling
<1>4. ledger.heads = {} /\ ledger.events = {} /\ ledger.compromised = {} BY <1>1 DEF EmptyLedger
<1>5. Chained({}) BY DEF Chained, OnePerSeq, HasLast, Unbroken
<1>6. Fresh(ledger) = {} BY <1>4 DEF Fresh, Own
<1>7. FreshSound(ledger) BY <1>6, FS_EmptySet DEF FreshSound, UniqueIds
<1>8. Sound(ledger) BY <1>2, <1>3, <1>4, <1>5, <1>7 DEF Sound
<1>9. SentSound BY <1>1, FS_EmptySet DEF SentSound, UniqueIds
<1>10. DiskSound BY <1>1, <1>5 DEF DiskSound
<1>11. now \in 0 .. MaxNow BY <1>1, BoundsNatural
<1> QED BY <1>4, <1>6, <1>8, <1>9, <1>10, <1>11 DEF LedgerInv, SelfCompromised

\* The snapshot of such a ledger is one NewFromSnapshot takes.
LEMMA SnapshotLoads ==
  ASSUME LedgerInv, RequireKnownPrev
  PROVE  Loads(Snapshot(ledger))
<1>0. Sound(ledger) /\ SentSound BY DEF LedgerInv
<1>1. OnePerSeq(ledger.events) /\ Unbroken(ledger.events) BY <1>0 DEF Sound, Chained
<1>2. UniqueIds(ledger.events) /\ \A e \in ledger.events : WellFormed(e) BY <1>0, Provenance
<1>3. ASSUME NEW e \in ledger.events, NEW p \in ledger.events, p.id = e.prev
      PROVE  p.author = e.author /\ p.seq + 1 = e.seq
  <2>1. e.seq > 1
    <3>1. e.prev # NoRef BY <1>2, <1>3 DEF WellFormed, NoRef
    <3>2. e.seq \in Nat \ {0} /\ e.seq # 1 BY <1>2, <3>1 DEF WellFormed
    <3> QED BY <3>2
  <2>2. PICK q \in ledger.events : q.id = e.prev /\ q.author = e.author /\ q.seq + 1 = e.seq
    BY <1>1, <2>1 DEF Unbroken
  <2>3. q = p BY <1>2, <1>3, <2>2 DEF UniqueIds
  <2> QED BY <2>2, <2>3
<1>4. \A e \in ledger.events :
        PrevMatches({f \in ledger.events : Before(f, e)}, e)
  BY <1>3 DEF PrevMatches
<1>5. Snapshot(ledger).intact /\ Snapshot(ledger).events = ledger.events BY DEF Snapshot
<1> QED BY <1>1, <1>4, <1>5 DEF Loads, OnePerSeq

\* Without pruning, and for any arrivals, emissions, saves, torn writes and
\* restarts: no author has two events with one number, and the indexes and the
\* missing references are what the events say.
THEOREM IndexesSafe == UnprunedSpec => [](TypeOK /\ OneEventPerSeq /\ IndexesMatchEvents)
<1>1. LedgerInv => TypeOK /\ OneEventPerSeq /\ IndexesMatchEvents
  <2> SUFFICES ASSUME LedgerInv PROVE TypeOK /\ OneEventPerSeq /\ IndexesMatchEvents OBVIOUS
  <2>0. Sound(ledger) /\ Fresh(ledger) = {} /\ now \in 0 .. MaxNow BY DEF LedgerInv
  <2>1. OneEventPerSeq BY <2>0 DEF Sound, Chained, OnePerSeq, OneEventPerSeq
  <2>2. IndexesMatchEvents BY <2>0 DEF Sound, Indexed, IndexesMatchEvents
  <2>3. TypeOK
    <3>1. ledger.events \subseteq Remote \cup sent /\ ledger.heads \subseteq Ids(ledger.events)
      BY <2>0 DEF Sound
    <3>2. \A t \in ledger.authorSeq : t[3] \in Ids(ledger.events)
      BY <2>0 DEF Sound, Indexed, SeqIndex, SeqEntry, Ids
    <3>3. ledger.missingRefs \cap Ids(ledger.events) = {}
      BY <2>0 DEF Sound, Indexed, Dangling
    <3> QED BY <2>0, <3>1, <3>2, <3>3 DEF TypeOK
  <2> QED BY <2>1, <2>2, <2>3
<1> QED BY <1>1, LedgerInit, LedgerStep, PTL DEF UnprunedSpec

\* Under RequireKnownPrev, every chain runs from its first event without a gap,
\* and the ledger can always be restarted from its snapshot.
THEOREM ReloadSafe == UnprunedSpec => [](RequireKnownPrev => ChainsUnbroken /\ SnapshotReloads)
<1>1. LedgerInv => (RequireKnownPrev => ChainsUnbroken /\ SnapshotReloads)
  BY SnapshotLoads DEF LedgerInv, Sound, Chained, Unbroken, ChainsUnbroken, SnapshotReloads
<1> QED BY <1>1, LedgerInit, LedgerStep, PTL DEF UnprunedSpec

\* A node that does not prune finds its own key compromised only after a restart
\* lost an event it had handed out.
THEOREM SelfCompromiseSafe == UnprunedSpec => []SelfCompromiseOnlyAfterLoss
<1>1. LedgerInv => SelfCompromiseOnlyAfterLoss
  <2> SUFFICES ASSUME LedgerInv, Observer.key \in ledger.compromised, sent \subseteq ledger.events
               PROVE  FALSE
    BY DEF SelfCompromiseOnlyAfterLoss
  <2>1. PICK s \in sent, e \in ledger.events : s # e /\ s.author = e.author /\ s.seq = e.seq
    BY DEF LedgerInv, SelfCompromised
  <2> QED BY <2>1 DEF LedgerInv, Sound, Chained, OnePerSeq
<1> QED BY <1>1, LedgerInit, LedgerStep, PTL DEF UnprunedSpec
=============================================================================
