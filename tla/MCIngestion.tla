---------------------------- MODULE MCIngestion -----------------------------
(***************************************************************************)
(* What a client takes in offline: bundles (Importer) and trust updates    *)
(* (TrustState).  The two only meet in the revoked signers, which Importer *)
(* lets change at any time; so a behaviour of this instance is a behaviour *)
(* of one of them, and part says of which.                                 *)
(*                                                                         *)
(* The bundles are those of MCBundleSet.  The trust registry has a         *)
(* publisher and one client, two roots that must both sign, and a signer.  *)
(***************************************************************************)
EXTENDS Importer, MCBundleSet

CONSTANTS Clients, Outside, Roots, RegisteredSigners, Threshold, TTL,
          MaxTime, MaxBlocks, MaxOps

Symmetry == Permutations(Calls) \cup Permutations(Roots)

-----------------------------------------------------------------------------
VARIABLES part, now, state, blocks, applied

trustVars == <<now, state, blocks, applied>>
allVars == <<vars, trustVars, part>>

Trust == INSTANCE TrustState WITH Signers <- RegisteredSigners

MCInit ==
    /\ Init
    /\ Trust!Init
    /\ part \in {"bundles", "trust"}
    /\ part = "trust" => ~overlap

MCNext ==
    /\ UNCHANGED part
    /\ \/ part = "bundles" /\ Next /\ UNCHANGED trustVars
       \/ part = "trust" /\ Trust!Next /\ UNCHANGED vars

MCSpec == MCInit /\ [][MCNext]_allVars

-----------------------------------------------------------------------------
\* No client applies a block twice or a block of another branch than its own, and
\* it treats a signer as revoked only if a block that revokes it was applied and
\* is in effect.
RegistryFollowsBlocks == Trust!TypeOK /\ Trust!HistoryIsAChain /\ Trust!RevokedByBlock

\* A revocation in effect ends only with another revocation of the same signer.
RevocationLasts == [][Trust!RevocationLasts]_allVars

\* A client that has applied the blocks Outside had applied when it published a
\* block can apply that block: "Any updated client can relay the exact block to
\* nearby offline clients".
RelayedFits == Trust!RelayedFits
=============================================================================
