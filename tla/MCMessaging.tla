----------------------------- MODULE MCMessaging -----------------------------
(***************************************************************************)
(* The stores a messaging node keeps: the inbound scheduler, the chats,    *)
(* the log shared by a user's devices, the identity with its device links, *)
(* and the communities.  Each is guarded by its own lock and file, so a    *)
(* behaviour is one of these, and part says of which.                      *)
(***************************************************************************)
EXTENDS Chat, PriorityScheduler, TLC

CONSTANTS p1, p2, m1,
          alice, bob, carol, FaultyCalls,
          Devices, Limit, MaxBackoff, OutboxTTL, MaxSeq, MaxBatches, MaxRetries, LogTime,
          Phones, Personas, Unbound, Period, Phase, PreKeyTTL, OfferTTL, LinkTTL,
          MaxPreKeys, MaxOffers, PhoneTime, s1, s2, LinkRequests,
          Members, MaxUsesChoices, InviteTTL, RequestTTL, ApprovalTTL, RevocationTTL,
          Hour, MaxPerHour, MaxInvites, MaxRequests, MaxApprovals, MaxRevocations,
          MaxApplied, CommTime, host, guest

VARIABLES
    part,
    ds, net, dsNow, retries, discarded, viaOutbox,
    id, reqs, bundles, offers, mailbox, idNow, refused, linked,
    comm, invites, requests, approvals, revocations, registry, applied, commNow

\* Distinct limits per class, a critical limit that lets two peers fill the
\* scheduler with critical batches.
MCMaxClass == (0 :> 3) @@ (1 :> 1) @@ (2 :> 2)
MCClassWeight == (0 :> 2) @@ (1 :> 1) @@ (2 :> 1)

\* Three people, of whom alice knows the other two.
MCBefriended == {<<alice, bob>>, <<alice, carol>>, <<bob, alice>>, <<carol, alice>>}

\* Without faults: the growth of one group, each person doing a thing once and
\* one person syncing at a time.
Growth ==
    /\ losses' = 0
    /\ \A n, o \in People : sync'[n].on /\ sync'[o].on => n = o
    /\ \A n \in People :
        /\ \A x \in chat'[n].messages : x.kind \in {"invite", "join"} /\ x.state # "read"
        /\ \A x, y \in chat'[n].messages :
              x.dir = "out" /\ y.dir = "out" /\ x.kind = y.kind /\ x.kind # "invite" => x = y
        /\ calls' # calls => chat'[n].reach = chat[n].reach
        /\ RoomID \notin DOMAIN chat'[n].chats

BoundedChatNext == ChatNext /\ IF faulty THEN calls' <= FaultyCalls ELSE Growth

\* Two devices that record two events each.
Log == INSTANCE MCDevSync WITH now <- dsNow, MaxTime <- LogTime
logVars == <<ds, net, dsNow, retries, discarded, viaOutbox>>

\* Two phones whose mailboxes rotate at different times.
MCPhase == (s1 :> 0) @@ (s2 :> 1)
Ids == INSTANCE MCIdentity WITH
    now <- idNow, MaxTime <- PhoneTime, MaxRequests <- LinkRequests
phoneVars == <<id, reqs, bundles, offers, mailbox, idNow, refused, linked>>

\* Two people and an invite for one use, or for any number.
Communities == INSTANCE MCCommunity WITH
    People <- Members, now <- commNow, MaxTime <- CommTime
commVars == <<comm, invites, requests, approvals, revocations, registry, applied, commNow>>

allVars == <<vars, chatVars, logVars, phoneVars, commVars, part>>

MCInit ==
    /\ part \in {"scheduler", "chat", "devices", "identity", "community"}
    /\ Init /\ ChatInit /\ Log!Init /\ Ids!Init /\ Communities!Init
    /\ part # "chat" => ~faulty
    /\ part # "devices" => ~viaOutbox

MCNext ==
    /\ UNCHANGED part
    /\ \/ part = "scheduler" /\ Next /\ UNCHANGED <<chatVars, logVars, phoneVars, commVars>>
       \/ part = "chat" /\ BoundedChatNext /\ UNCHANGED <<vars, logVars, phoneVars, commVars>>
       \/ part = "devices" /\ Log!MCNext /\ UNCHANGED <<vars, chatVars, phoneVars, commVars>>
       \/ part = "identity" /\ Ids!MCNext /\ UNCHANGED <<vars, chatVars, logVars, commVars>>
       \/ part = "community" /\ Communities!MCNext /\ UNCHANGED <<vars, chatVars, logVars, phoneVars>>

MCSpec == MCInit /\ [][MCNext]_allVars

\* bob and carol know the same people.
Symmetry == Permutations({bob, carol})

-----------------------------------------------------------------------------
\* An event a device records after applying another has the larger Lamport
\* time (RecordLocal, ApplyBatch).
CausalLamport == part = "devices" => Log!CausalLamport

\* Without the outbox, the cursor a device keeps for another is the length of
\* the prefix it holds of that device's events (BuildBatch, ApplyBatch).
CursorIsPrefix == part = "devices" => Log!CursorIsPrefix

\* An envelope sent with a valid offer stays readable until its prekey expires
\* and while its mailbox is at most one rotation old (ChatSyncOnce, Prune).
OfferHonoured == part = "identity" => Ids!OfferHonoured

\* A phone takes a persona over through a device of its own, within the lifetime
\* of the request it had shown (DeviceApplyJoinPackage).
LinkedInTime == part = "identity" => Ids!LinkedInTime

\* max_uses bounds the approvals its issuer signs and the joins an observer
\* counts (Service.ApproveJoin, Registry.ApplyJoin).
InvitesBounded == part = "community" => Communities!InvitesBounded

\* No hour sees more than MaxPerHour accepted joins of one applicant
\* (checkAndRecordJoinAttemptLocked).
JoinRateKept == part = "community" => Communities!JoinRateKept
=============================================================================
