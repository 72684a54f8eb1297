------------------------------ MODULE MCLedger ------------------------------
(* Small instances of Ledger. *)
EXTENDS Ledger

CONSTANTS a, w, o  \* an author, a witness and this node

MCObserver == [author |-> o, key |-> o]
MCContexts == {"ctx"}
MCWeight == [ctx |-> [k \in {a, w, o} |-> IF k = a THEN 0 ELSE 1]]
MCThreshold == [ctx |-> 2]
MCNoRetention == [k \in {} |-> 0]
MCRetentionByKind == [k \in {KindWitnessAttest, KindSyncSummary} |-> 1]
MCRetentionPolicies ==
    {[maxEvents |-> 2, maxAge |-> 0, criticalOnly |-> FALSE],
     [maxEvents |-> 0, maxAge |-> 1, criticalOnly |-> TRUE]}

Event(id, author, seq, prev, parents, kind, of, created) ==
    [id |-> id, author |-> author, key |-> author, seq |-> seq, prev |-> prev,
     parents |-> parents, kind |-> kind,
     ctx |-> IF kind \in {KindChatMessage, KindGroupMembership} THEN NoContext ELSE "ctx",
     of |-> of, created |-> created]

\* A chain of a that forks at its second event, and a witness that equivocates:
\* it attests the first event of a, or introduces a.
MCRemote ==
    {Event(1, a, 1, NoRef, {}, KindGroupMembership, {}, -1),
     Event(2, a, 2, 1, {1}, KindChatMessage, {}, 1),
     Event(3, a, 2, 1, {1}, KindGroupMembership, {}, 0),
     Event(4, w, 1, NoRef, {1}, KindWitnessAttest, {1}, 0),
     Event(5, w, 1, NoRef, {2}, KindIdentityIntroduce, {a}, 2)}
=============================================================================
