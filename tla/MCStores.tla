------------------------------ MODULE MCStores ------------------------------
(***************************************************************************)
(* What a node stores: its ledger, or the profiles and trust updates that  *)
(* it takes in offline (MCIngestion).  These are files and locks of their  *)
(* own, so a behaviour is one of either, and life says of which.           *)
(*                                                                         *)
(* Of the ledger: "steady", arrivals and emissions with all five remote    *)
(* events; "restarts", a node restarted from its snapshot file that sees a *)
(* chain forking at its second event and emits twice, so that it may use a *)
(* sequence number again that a crash made it forget; "prunes", a node     *)
(* that prunes, sees a chain and a witness that attests it, over three     *)
(* seconds.  (A node that is restarted and prunes meets the indexes that   *)
(* rebuildLocked leaves empty.)                                            *)
(***************************************************************************)
EXTENDS MCLedger, MCBundleSet, TLC

CONSTANTS Calls, Bundles, Trusted, Durable, Faults, MaxImporters, MaxOverlapping,
          Clients, Outside, Roots, RegisteredSigners, RootThreshold, TTL,
          MaxTime, MaxBlocks, MaxOps

VARIABLES life,
          profiles, templates, replay, revoked, overlap, importer, pc, work, created,
          stored, committed, part, clock, state, blocks, applied

Offline == INSTANCE MCIngestion WITH Threshold <- RootThreshold, now <- clock

offlineVars == <<profiles, templates, replay, revoked, overlap, importer, pc, work, created,
                 stored, committed, part, clock, state, blocks, applied>>
allVars == <<vars, offlineVars, life>>

Bounds ==
    [steady |-> [remote |-> 1 .. 5, local |-> 3, now |-> 1],
     restarts |-> [remote |-> {1, 2, 3}, local |-> 2, now |-> 0],
     prunes |-> [remote |-> {1, 2, 4}, local |-> 1, now |-> 2]]

LedgerNext ==
    /\ \/ Running
       \/ life = "restarts" /\ Restarting
       \/ life = "prunes" /\ Retaining
    /\ Ids(ledger'.events \ sent') \subseteq Bounds[life].remote
    /\ Cardinality(sent') <= Bounds[life].local
    /\ now' <= Bounds[life].now
    /\ life = "steady" /\ Cardinality(sent') = 3 => now' = 0

MCInit ==
    /\ life \in {"steady", "restarts", "prunes", "offline"}
    /\ Init /\ Offline!MCInit
    /\ life # "offline" => part = "trust"

MCNext ==
    /\ UNCHANGED life
    /\ \/ life # "offline" /\ LedgerNext /\ UNCHANGED offlineVars
       \/ life = "offline" /\ Offline!MCNext /\ UNCHANGED vars

MCSpec == MCInit /\ [][MCNext]_allVars

Symmetry == Permutations(Calls) \cup Permutations(Roots)

-----------------------------------------------------------------------------
\* As long as nothing is pruned or lost, what the ledger derives from its events
\* agrees with them: the indexes, the missing references and the quorums.
DerivedMatches == life = "steady" => LedgerConsistent

\* As long as nothing is pruned, no author has two events with one sequence
\* number, and every event has its author's previous event: chains neither fork
\* nor break, in whatever order events arrive and after every restart.
ChainsLinear == life \in {"steady", "restarts"} => OneEventPerSeq /\ ChainsUnbroken

\* A confirmed event stays confirmed while the node runs and prunes nothing,
\* unless one more key is found compromised.
ConfirmationStable == [][life = "steady" => KeepsConfirmed]_allVars

\* A node that does not prune can always be restarted from a snapshot taken now:
\* no sequence of arrivals, emissions, saves, torn writes and restarts leads to
\* a ledger whose snapshot NewFromSnapshot refuses.
AlwaysReloads == life = "restarts" => SnapshotReloads

\* The files agree with each other and with the imports that reported success,
\* after failed writes and crashes: in profiles.enc an id has one endpoint and an
\* endpoint one id, and what the replay state records is stored.
FilesAgree == Offline!FilesAgree /\ Offline!CommittedIsStored

\* No profile of a revoked id outlives the bundle that revokes it, unless a later
\* sequence number brings it back (ProcessAndStore).
RevokedStayOut == Offline!RevokedStayOut

\* A client applies the blocks of one branch, each once, and treats a signer as
\* revoked only while a block in effect says so (ApplyTrustUpdate).
RegistryFollowsBlocks == Offline!RegistryFollowsBlocks

\* No import stores a bundle after a newer one of its signer was committed
\* (reserveReplay).
OlderRejected == Offline!OlderRejected

\* No bundle is imported with success twice and no durable MaxSeq falls.
ReplaySafe == Offline!ReplaySafe

\* A revocation in effect ends only with another one of the same signer.
RevocationLasts == Offline!RevocationLasts
=============================================================================
