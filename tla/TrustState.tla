----------------------------- MODULE TrustState -----------------------------
(***************************************************************************)
(* The offline trust registry (pkg/importctl/revocation.go): every client  *)
(* holds a TrustState, a version of the signer registry sealed by a hash   *)
(* that covers the hash of the version before.  Outside publishes update   *)
(* blocks on top of its own state; a block travels by any medium, late,    *)
(* often or never, and each client applies it or refuses it.               *)
(*                                                                         *)
(* A hash is the tuple of what it covers, so that equal hashes mean equal  *)
(* contents.  A signature is the root key that made it.  The clients and   *)
(* Outside share one clock.  A refused block changes nothing and is no     *)
(* step.                                                                   *)
(***************************************************************************)
EXTENDS Integers, FiniteSets, SequencesExt

CONSTANTS
    Clients,    \* the holders of a TrustState
    Outside,    \* the client that publishes
    Roots,      \* the root keys
    Signers,    \* the bundle signers
    Threshold,  \* TrustState.Threshold
    TTL,        \* ExpiresAt - IssuedAt of a block
    MaxTime,    \* bound: the clock
    MaxBlocks,  \* bound: the blocks published
    MaxOps      \* bound: the operations of a block

VARIABLES
    now,        \* the clock
    state,      \* per client: its TrustState
    blocks,     \* the blocks published
    applied     \* history, per client: the blocks applied, in order

vars == <<now, state, blocks, applied>>

Operations == [type : {"add_signer", "revoke_signer", "retire_signer"}, key : Signers]
              \cup [type : {"add_root", "retire_root"}, key : Roots]

-----------------------------------------------------------------------------
(* canonicalTrustState: the seal covers every field but itself *)

Seal(s) == <<s.Version, s.PreviousHash, s.RootKeys, s.ActiveSigners, s.RetiredSigners,
             s.RevokedSigners, s.UpdatedAt>>

reseal(s) == [s EXCEPT !.StateHash = Seal(s)]

NewTrustState ==
    reseal([Version |-> 0, StateHash |-> <<>>, PreviousHash |-> <<>>, RootKeys |-> Roots,
            ActiveSigners |-> Signers, RetiredSigners |-> {},
            RevokedSigners |-> [k \in Signers |-> 0], UpdatedAt |-> 0])

Init ==
    /\ now = 1
    /\ state = [c \in Clients |-> NewTrustState]
    /\ blocks = {}
    /\ applied = [c \in Clients |-> <<>>]

-----------------------------------------------------------------------------
(* A signer is revoked from the effective time of its record on *)

IsRevoked(s, k, t) == s.RevokedSigners[k] > 0 /\ t >= s.RevokedSigners[k]

-----------------------------------------------------------------------------
(* Publication *)

\* GenerateTrustUpdateBlock: a block on top of the state of the publisher,
\* signed with the root keys at hand.
GenerateTrustUpdateBlock(ops, effective, sigs) ==
    LET cur == state[Outside]
        b == [Version |-> cur.Version + 1, PrevStateHash |-> cur.StateHash,
              IssuedAt |-> now, EffectiveAt |-> effective, ExpiresAt |-> now + TTL,
              Threshold |-> Threshold, Operations |-> ops, Signatures |-> sigs,
              after |-> applied[Outside]]
    IN  /\ Cardinality(blocks) < MaxBlocks
        /\ blocks' = blocks \cup {b}
        /\ UNCHANGED <<now, state, applied>>

-----------------------------------------------------------------------------
(* Application *)

validateTrustBlockHeader_Any(b, s) == now <= b.ExpiresAt

validateTrustBlockHeader(b, s) ==
    /\ b.Version > s.Version
    /\ b.PrevStateHash = s.StateHash
    /\ b.IssuedAt <= now
    /\ now <= b.ExpiresAt
    /\ b.Operations # {}

Authorised(b, s) == Cardinality(b.Signatures \cap s.RootKeys) >= b.Threshold

Keys(b, type) == {op.key : op \in {o \in b.Operations : o.type = type}}

\* The operations run in the order of their types, to which
\* canonicalTrustUpdate has sorted them: add_root, add_signer, retire_root,
\* retire_signer, revoke_signer.  A key that a block both adds and retires or
\* revokes does not stay active.
applyTrustOperations_AddRestores(s, b) ==
    [s EXCEPT !.RevokedSigners = [k \in Signers |->
        CASE k \in Keys(b, "revoke_signer") -> b.EffectiveAt
          [] k \in Keys(b, "add_signer") -> 0
          [] OTHER -> @[k]]]

applyTrustOperations(s, b) ==
    LET gone == Keys(b, "retire_signer") \cup Keys(b, "revoke_signer")
    IN [s EXCEPT
    !.RootKeys = (@ \cup Keys(b, "add_root")) \ Keys(b, "retire_root"),
    !.ActiveSigners = (@ \cup Keys(b, "add_signer")) \ gone,
    !.RetiredSigners = (@ \ Keys(b, "add_signer")) \cup Keys(b, "retire_signer"),
    !.RevokedSigners = [k \in Signers |->
        IF k \in Keys(b, "revoke_signer") THEN b.EffectiveAt ELSE @[k]]]

ApplyBlock(c, b) ==
    /\ validateTrustBlockHeader(b, state[c])
    /\ Authorised(b, state[c])
    /\ LET s == [state[c] EXCEPT !.Version = b.Version,
                                 !.PreviousHash = state[c].StateHash,
                                 !.UpdatedAt = now]
       IN  state' = [state EXCEPT ![c] = reseal(applyTrustOperations(s, b))]
    /\ applied' = [applied EXCEPT ![c] = Append(@, b)]
    /\ UNCHANGED <<now, blocks>>

Tick ==
    /\ now < MaxTime
    /\ now' = now + 1
    /\ UNCHANGED <<state, blocks, applied>>

Next ==
    \/ \E ops \in SUBSET Operations, e \in now..MaxTime, sigs \in SUBSET Roots \ {{}} :
        /\ ops # {} /\ Cardinality(ops) <= MaxOps
        /\ GenerateTrustUpdateBlock(ops, e, sigs)
    \/ \E c \in Clients, b \in blocks : ApplyBlock(c, b)
    \/ Tick

Spec == Init /\ [][Next]_vars

-----------------------------------------------------------------------------
(* Properties *)

\* The registries hold known keys and the revocation times are set or zero.
TypeOK ==
    /\ now \in 1..MaxTime
    /\ \A c \in Clients :
        /\ state[c].Version \in 0..MaxBlocks
        /\ state[c].RootKeys \subseteq Roots
        /\ state[c].ActiveSigners \subseteq Signers
        /\ state[c].RetiredSigners \subseteq Signers
        /\ state[c].RevokedSigners \in [Signers -> 0..MaxTime]
        /\ state[c].UpdatedAt \in 0..now
    /\ Cardinality(blocks) <= MaxBlocks

\* No client applies a block twice or a block of another branch than its own:
\* each block of its history was published on top of the history before it.
HistoryIsAChain ==
    \A c \in Clients : \A i \in DOMAIN applied[c] :
        Len(applied[c][i].after) = i - 1 /\ applied[c][i].Version = i

\* A signer is treated as revoked only if a block with a revoke_signer operation
\* for it was applied and is in effect: retiring a signer leaves its bundles
\* usable, and an update announced for later does not act early.
RevokedByBlock ==
    \A c \in Clients, k \in Signers : IsRevoked(state[c], k, now) =>
        \E i \in DOMAIN applied[c] :
            k \in Keys(applied[c][i], "revoke_signer") /\ applied[c][i].EffectiveAt <= now

\* A client that has applied the blocks Outside had applied when it published a
\* block holds the hash the block names, so that it can apply it: the exact
\* block can be relayed from client to client.
RelayedFits ==
    \A b \in blocks, c \in Clients : applied[c] = b.after => b.PrevStateHash = state[c].StateHash

\* A signer whose revocation is in effect at a client stays revoked there, whatever
\* is added, retired or rotated since, until a block revokes it again: only
\* revoke_signer writes its record, and then with the effective time of that block.
RevocationLasts ==
    \A c \in Clients, k \in Signers : IsRevoked(state[c], k, now) =>
        \/ IsRevoked(state'[c], k, now')
        \/ Len(applied'[c]) > Len(applied[c]) /\ k \in Keys(Last(applied'[c]), "revoke_signer")
=============================================================================
