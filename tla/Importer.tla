------------------------------ MODULE Importer ------------------------------
(***************************************************************************)
(* Import of signed configuration bundles (pkg/importctl/import.go) into   *)
(* the profile store, the template store and the replay store.  A call of  *)
(* the importer, ImportBundle of the mobile bridge or `inside --import`,   *)
(* creates an Importer, which loads the replay state into its memory,      *)
(* parses a bundle, which reserves it in that memory, and stores it: the   *)
(* templates, then the profiles, then the replay state.  Each file is      *)
(* replaced by a rename, so that a write happens or does not.              *)
(*                                                                         *)
(* Calls may overlap and share the files only; no lock spans two steps.  A *)
(* crash ends every call.  A bundle is its header (id,                     *)
(* signer, seq, nonce), the profiles it adds (an id and an endpoint each), *)
(* the ids it revokes and the templates it sets.  Signatures, encryption   *)
(* and the wire format are left out: valid is FALSE for a bundle that      *)
(* decrypts but whose profiles NormalizeForWire refuses.                   *)
(***************************************************************************)
EXTENDS Integers, Sequences, FiniteSets, SequencesExt

CONSTANTS
    Calls,      \* the callers that may run at the same time
    Bundles,    \* the signed bundles that circulate, with seq > 0
    Trusted,    \* the signers whose keys the caller configured
    Durable,    \* whether the caller passes a replay store
    Faults,     \* whether writes may fail and the process may crash
    MaxImporters,   \* bound: the Importers created
    MaxOverlapping  \* bound: the Importers created when calls overlap

Signers == {b.signer : b \in Bundles}
TemplateKeys == UNION {b.templates : b \in Bundles}
BundleIds == {b.id : b \in Bundles}

VARIABLES
    profiles,   \* profiles.enc: the stored profiles, in order
    templates,  \* templates.enc: the bundle each template text is from, 0 for none
    replay,     \* replay.enc: the durable ReplayState
    revoked,    \* trust.enc: the revoked signers
    overlap,    \* whether calls may overlap
    importer,   \* per call: the Importer in memory
    pc,         \* per call: the next step
    work,       \* per call: the payload being stored and the merged profiles
    created,    \* the number of Importers created
    stored,     \* history: the bundles whose profiles were written
    committed   \* history: the bundles whose import returned success

files == <<profiles, templates, replay, revoked, overlap>>
vars == <<profiles, templates, replay, revoked, overlap, importer, pc, work, created, stored, committed>>

EmptyReplay == [BundleIDs |-> {}, Signers |-> [s \in Signers |-> [MaxSeq |-> 0, Nonces |-> {}]]]

NoImporter == [replayState |-> EmptyReplay, pendingReplay |-> {}, trust |-> {}]

NoWork == [payload |-> {}, updated |-> <<>>]

Init ==
    /\ profiles = <<>>
    /\ templates = [k \in TemplateKeys |-> 0]
    /\ replay = EmptyReplay
    /\ revoked = {}
    /\ overlap \in BOOLEAN
    /\ importer = [c \in Calls |-> NoImporter]
    /\ pc = [c \in Calls |-> "none"]
    /\ work = [c \in Calls |-> NoWork]
    /\ created = 0
    /\ stored = {}
    /\ committed = {}

-----------------------------------------------------------------------------
(* The profiles a bundle leads to *)

Entry(p, b) == [id |-> p.id, endpoint |-> p.endpoint, from |-> b.id]

Kept_All(existing, b) == existing

Kept(existing, b) == SelectSeq(existing, LAMBDA e : e.id \notin b.revocations)

Agree(p, q) == (p.id = q.id) <=> (p.endpoint = q.endpoint)

\* The loop over payload.Profiles returns an error at the first profile that
\* disagrees with a stored one that is kept or with an earlier one of the bundle.
Conflict_StoredOnly(existing, b) ==
    \E i \in DOMAIN b.profiles :
        \E e \in Range(Kept(existing, b)) : ~Agree(b.profiles[i], e)

Conflict(existing, b) ==
    \E i \in DOMAIN b.profiles :
        \/ \E e \in Range(Kept(existing, b)) : ~Agree(b.profiles[i], e)
        \/ \E j \in 1..(i - 1) : ~Agree(b.profiles[i], b.profiles[j])

Merge_OnlyNew(existing, b) == [i \in DOMAIN b.profiles |-> Entry(b.profiles[i], b)]

Merge(existing, b) ==
    Kept(existing, b) \o [i \in DOMAIN b.profiles |-> Entry(b.profiles[i], b)]

-----------------------------------------------------------------------------
(* The replay state *)

\* What reserveReplay accepts: an unseen id that is not pending, an unseen nonce
\* and a sequence number above those committed for the signer.
Fresh(r, pendingReplay, b) ==
    /\ b.id \notin r.BundleIDs
    /\ b \notin pendingReplay
    /\ b.nonce \notin r.Signers[b.signer].Nonces
    /\ b.seq > r.Signers[b.signer].MaxSeq

Recorded_FirstSeq(r, b) ==
    [BundleIDs |-> r.BundleIDs \cup {b.id},
     Signers |-> [r.Signers EXCEPT ![b.signer] =
                    [MaxSeq |-> IF @.MaxSeq = 0 THEN b.seq ELSE @.MaxSeq,
                     Nonces |-> @.Nonces \cup {b.nonce}]]]

Recorded_OneSigner(r, b) ==
    [BundleIDs |-> r.BundleIDs \cup {b.id},
     Signers |-> [EmptyReplay.Signers EXCEPT ![b.signer] =
                    [MaxSeq |-> b.seq, Nonces |-> r.Signers[b.signer].Nonces \cup {b.nonce}]]]

Recorded(r, b) ==
    [BundleIDs |-> r.BundleIDs \cup {b.id},
     Signers |-> [r.Signers EXCEPT ![b.signer] =
                    [MaxSeq |-> IF b.seq > @.MaxSeq THEN b.seq ELSE @.MaxSeq,
                     Nonces |-> @.Nonces \cup {b.nonce}]]]

-----------------------------------------------------------------------------
(* One call: create the Importer, parse a bundle, store it *)

NewImporter(c) ==
    /\ pc[c] = "none"
    /\ created < IF overlap THEN MaxOverlapping ELSE MaxImporters
    /\ overlap \/ \A d \in Calls : pc[d] = "none"
    /\ created' = created + 1
    /\ importer' = [importer EXCEPT ![c] =
            [replayState |-> IF Durable THEN replay ELSE EmptyReplay,
             pendingReplay |-> {}, trust |-> revoked]]
    /\ pc' = [pc EXCEPT ![c] = "ready"]
    /\ UNCHANGED <<files, work, stored, committed>>

Accepted(c, b) ==
    /\ b.signer \notin importer[c].trust
    /\ b.signer \in Trusted
    /\ Fresh(importer[c].replayState, importer[c].pendingReplay, b)

ParseBytes(c, b) ==
    /\ pc[c] = "ready"
    /\ Accepted(c, b)
    /\ importer' = [importer EXCEPT ![c].pendingReplay = @ \cup {b}]
    /\ pc' = [pc EXCEPT ![c] = "parsed"]
    /\ UNCHANGED <<files, work, created, stored, committed>>

\* A refused bundle is an error: the caller drops the Importer.
ParseRefused(c, b) ==
    /\ pc[c] = "ready"
    /\ ~Accepted(c, b)
    /\ pc' = [pc EXCEPT ![c] = "none"]
    /\ importer' = [importer EXCEPT ![c] = NoImporter]
    /\ UNCHANGED <<files, work, created, stored, committed>>

\* ProcessAndStore loads the stored profiles and merges the payload into them in
\* memory.
ProcessAndStore(c, b) ==
    /\ pc[c] = "parsed"
    /\ b \in importer[c].pendingReplay
    /\ b.valid
    /\ ~Conflict(profiles, b)
    /\ work' = [work EXCEPT ![c] = [payload |-> {b}, updated |-> Merge(profiles, b)]]
    /\ pc' = [pc EXCEPT ![c] = IF b.templates # {} THEN "templates" ELSE "profiles"]
    /\ UNCHANGED <<files, importer, created, stored, committed>>

\* The end of ProcessAndStore, with or without an error.  Both callers make one
\* import per Importer and drop it.
Return(c) ==
    /\ pc' = [pc EXCEPT ![c] = "none"]
    /\ importer' = [importer EXCEPT ![c] = NoImporter]
    /\ work' = [work EXCEPT ![c] = NoWork]

ProcessRefused(c, b) ==
    /\ pc[c] = "parsed"
    /\ b \in importer[c].pendingReplay
    /\ ~b.valid \/ Conflict(profiles, b)
    /\ Return(c)
    /\ UNCHANGED <<files, created, stored, committed>>

SaveTemplates(c) ==
    /\ pc[c] = "templates"
    /\ \E b \in work[c].payload :
        templates' = [k \in TemplateKeys |-> IF k \in b.templates THEN b.id ELSE templates[k]]
    /\ pc' = [pc EXCEPT ![c] = "profiles"]
    /\ UNCHANGED <<profiles, replay, revoked, overlap, importer, work, created, stored, committed>>

SaveProfiles(c) ==
    /\ pc[c] = "profiles"
    /\ profiles' = work[c].updated
    /\ stored' = stored \cup work[c].payload
    /\ pc' = [pc EXCEPT ![c] = "commit"]
    /\ UNCHANGED <<templates, replay, revoked, overlap, importer, work, created, committed>>

SaveFails(c) ==
    /\ Faults
    /\ pc[c] \in {"templates", "profiles"}
    /\ Return(c)
    /\ UNCHANGED <<files, created, stored, committed>>

\* commitReplay drops the reservation and records the bundle in memory, then
\* writes the memory's state to the replay store, if there is one.
commitReplay(c, saved) ==
    /\ pc[c] = "commit"
    /\ Return(c)
    /\ \E b \in work[c].payload :
        /\ replay' = IF saved /\ Durable THEN Recorded(importer[c].replayState, b) ELSE replay
        /\ committed' = IF saved THEN committed \cup {b} ELSE committed
    /\ UNCHANGED <<profiles, templates, revoked, overlap, stored, created>>

Commit(c) == commitReplay(c, TRUE)

CommitFails(c) == Faults /\ Durable /\ commitReplay(c, FALSE)

-----------------------------------------------------------------------------
Crash ==
    /\ Faults
    /\ \E c \in Calls : pc[c] # "none"
    /\ pc' = [c \in Calls |-> "none"]
    /\ importer' = [c \in Calls |-> NoImporter]
    /\ work' = [c \in Calls |-> NoWork]
    /\ UNCHANGED <<files, created, stored, committed>>

\* A trust update revokes a signer in trust.enc.
Revoke(s) ==
    /\ s \notin revoked
    /\ revoked' = revoked \cup {s}
    /\ UNCHANGED <<profiles, templates, replay, overlap, importer, pc, work, created, stored, committed>>

Next ==
    \/ \E c \in Calls :
        \/ NewImporter(c)
        \/ \E b \in Bundles : ParseBytes(c, b) \/ ParseRefused(c, b)
        \/ \E b \in Bundles : ProcessAndStore(c, b) \/ ProcessRefused(c, b)
        \/ SaveTemplates(c) \/ SaveProfiles(c) \/ SaveFails(c)
        \/ Commit(c) \/ CommitFails(c)
    \/ Crash
    \/ \E s \in Signers : Revoke(s)

Spec == Init /\ [][Next]_vars

-----------------------------------------------------------------------------
(* Properties *)

ReplayStates ==
    [BundleIDs : SUBSET BundleIds,
     Signers : [Signers -> [MaxSeq : Nat, Nonces : SUBSET {b.nonce : b \in Bundles}]]]

\* The stored state is well formed: the replay state counts up from zero and the
\* payload being stored is one the Importer has reserved.
TypeOK ==
    /\ \A e \in Range(profiles) : \E b \in Bundles : \E p \in Range(b.profiles) : e = Entry(p, b)
    /\ templates \in [TemplateKeys -> BundleIds \cup {0}]
    /\ replay \in ReplayStates
    /\ revoked \subseteq Signers
    /\ pc \in [Calls -> {"none", "ready", "parsed", "templates", "profiles", "commit"}]
    /\ \A c \in Calls :
        /\ importer[c].replayState \in ReplayStates
        /\ work[c].payload \subseteq importer[c].pendingReplay
    /\ created \in 0..MaxImporters
    /\ stored \subseteq Bundles
    /\ committed \subseteq Bundles

\* In profiles.enc an id has one endpoint and an endpoint one id, whatever calls
\* merged, failed or crashed: ProcessAndStore refuses a payload that conflicts
\* with the profiles it keeps or with itself, and writes the list it checked.
IdsAgree == \A p, q \in Range(profiles) : Agree(p, q)

\* Every bundle of the durable replay state has its profiles in the store, but
\* for the ids that another stored bundle revokes: the replay state is
\* written after the profiles, so that neither a failed write nor a crash uses
\* up a bundle that was not stored.
CommittedIsStored ==
    ~overlap => \A b \in Bundles : b.id \in replay.BundleIDs =>
        \A p \in Range(b.profiles) :
            \/ Entry(p, b) \in Range(profiles)
            \/ \E r \in stored : /\ p.id \in r.revocations
                                 /\ r.signer = b.signer => r.seq > b.seq

\* A bundle the durable replay state knows had its profiles written at some time,
\* whatever other calls did since: "durable replay commitment after profile
\* storage", also when calls overlap.
RecordedWasStored == replay.BundleIDs \subseteq {b.id : b \in stored}

\* The files are consistent with each other whatever calls overlap, fail or crash.
FilesAgree == TypeOK /\ IdsAgree /\ RecordedWasStored

\* No profile of a revoked id outlives the bundle that revokes it, unless a
\* later sequence number brings the id back: the list written is the one the
\* revocations were taken from.
RevokedStayOut ==
    ~overlap => \A r \in Bundles : r.id \in replay.BundleIDs =>
        \A e \in Range(profiles) : e.id \in r.revocations =>
            \E b \in Bundles : /\ b.id = e.from
                               /\ \/ b = r
                                  \/ b.signer # r.signer
                                  \/ b.seq > r.seq

\* No import stores the profiles of a bundle after a newer one of the same
\* signer was committed: reserveReplay refuses a sequence number that is not
\* above the signer's MaxSeq.
OlderRejected ==
    [][~overlap => \A c \in Calls : pc[c] = "profiles" /\ pc'[c] = "commit" =>
        \A b \in work[c].payload :
            ~\E n \in committed : n.signer = b.signer /\ n.seq > b.seq]_vars

\* No bundle is imported with success twice, across failures, crashes and new
\* Importers, and the durable MaxSeq of a signer never falls: the id, the nonce
\* and the sequence number of a bundle are in the replay state, and no write of
\* the replay state undoes another one.
ReplaySafe ==
    [][~overlap =>
        /\ \A c \in Calls : pc[c] = "profiles" /\ pc'[c] = "commit" =>
            work[c].payload \cap committed = {}
        /\ \A s \in Signers : replay.Signers[s].MaxSeq <= replay'.Signers[s].MaxSeq]_vars
=============================================================================
