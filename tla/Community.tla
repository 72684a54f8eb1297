----------------------------- MODULE Community -----------------------------
(***************************************************************************)
(* Membership of a community (pkg/community): invites, join requests,      *)
(* approvals and revocations are signed tokens people hand to each other,  *)
(* in any order and as often as they like.  Service is the state of one    *)
(* phone behind the Community* calls of pkg/mobile, each of which loads    *)
(* community.enc, changes it and saves it; Registry is the in-memory       *)
(* member list of an observer that sees the tokens.                        *)
(*                                                                         *)
(* Signatures are ideal, so a token is a record only its issuer can make.  *)
(* One community; the tolerance of 300 s for clocks ahead is left out, as  *)
(* there is one clock.                                                     *)
(***************************************************************************)
EXTENDS Integers, Sequences, FiniteSets, Functions, FiniteSetsExt, TLC

CONSTANTS
    People,
    MaxUsesChoices, \* max_uses an invite is made with; 0 is unlimited
    InviteTTL, RequestTTL, ApprovalTTL, RevocationTTL,
    Hour, MaxPerHour,
    MaxTime, MaxInvites, MaxRequests, MaxApprovals, MaxRevocations, MaxApplied

VARIABLES
    comm,       \* comm[n]: the State in n's community.enc
    invites, requests, approvals, revocations,   \* tokens made
    registry,   \* the observer's Registry
    applied,    \* history: [who, at] of every join the registry accepted
    now

vars == <<comm, invites, requests, approvals, revocations, registry, applied, now>>

tokens == <<invites, requests, approvals, revocations>>

Roles == {"owner", "moderator", "member"}
NewState == [role |-> "none", uses |-> <<>>, member |-> "none"]
NewRegistry == [invites |-> {}, uses |-> <<>>, members |-> <<>>, attempts |-> <<>>]

Get(f, x, none) == IF x \in DOMAIN f THEN f[x] ELSE none

----------------------------------------------------------------------------
(* Tokens *)

NewInvite(n, max) ==
    [id |-> Cardinality(invites) + 1, issuer |-> n, max |-> max, expires |-> now + InviteTTL]
ValidInvite(inv) == now <= inv.expires

NewJoinRequest(n, inv) == [inv |-> inv.id, who |-> n, made |-> now]
ValidRequest(r) == now <= r.made + RequestTTL

\* The random nonce makes every approval a token of its own.
NewJoinApproval(n, inv, r, role) ==
    [inv |-> inv.id, issuer |-> n, who |-> r.who, role |-> role, made |-> now,
     nonce |-> Cardinality(approvals)]
ValidApproval(a) == now <= a.made + ApprovalTTL

ValidRevocation(v) == now <= v.made + RevocationTTL

Exhausted(inv, uses) == inv.max > 0 /\ uses >= inv.max

----------------------------------------------------------------------------
(* Service: the state of one phone *)

CanInvite(n) == comm[n].role \in {"owner", "moderator"}

Validate(st) ==
    /\ st.role \in Roles \cup {"none"} /\ st.member \in Roles \cup {"none"}
    /\ \A i \in DOMAIN st.uses : st.uses[i] >= 0

Save(n, st) == Validate(st) /\ comm' = [comm EXCEPT ![n] = st]

upsertStoredInviteLocked(uses, inv) == uses @@ (inv.id :> 0)

\* A stored invite is used once more; one that is not stored is not counted.
Used(uses, inv) == [i \in DOMAIN uses |-> uses[i] + (IF i = inv.id THEN 1 ELSE 0)]

CreateCommunity(n) ==
    IF comm[n].role # "none" THEN UNCHANGED comm ELSE Save(n, [comm[n] EXCEPT !.role = "owner"])

CreateInvite(n, inv) ==
    /\ CanInvite(n)
    /\ Save(n, [comm[n] EXCEPT !.uses = upsertStoredInviteLocked(@, inv)])

MayApprove(n, inv, r) ==
    /\ ValidInvite(inv) /\ CanInvite(n) /\ inv.issuer = n
    /\ ValidRequest(r) /\ r.inv = inv.id
    /\ ~Exhausted(inv, Get(comm[n].uses, inv.id, 0))

\* Mutant: an approval does not use up the invite.
ApproveJoinUncounted(n, inv, r) == MayApprove(n, inv, r) /\ Save(n, comm[n])

ApproveJoin(n, inv, r) ==
    /\ MayApprove(n, inv, r)
    /\ Save(n, [comm[n] EXCEPT !.uses = Used(@, inv)])

\* The applicant's phone: it takes the granted role, also over the role it
\* had.  An invite it stored itself is used up once more.
ApplyJoin(n, inv, r, a) ==
    /\ ValidInvite(inv) /\ ValidRequest(r) /\ ValidApproval(a)
    /\ r.inv = inv.id /\ a.inv = inv.id /\ a.issuer = inv.issuer
    /\ r.who = n
    /\ inv.id \in DOMAIN comm[n].uses => ~Exhausted(inv, comm[n].uses[inv.id])
    /\ Save(n, [role |-> a.role, uses |-> Used(comm[n].uses, inv), member |-> a.role])

----------------------------------------------------------------------------
(* The calls of pkg/mobile: load, one operation of the service, save *)

CommunityCreate(n) ==
    /\ CreateCommunity(n)
    /\ UNCHANGED <<tokens, registry, applied, now>>

CommunityCreateInvite(n, max) ==
    /\ Cardinality(invites) < MaxInvites
    /\ CreateInvite(n, NewInvite(n, max))
    /\ invites' = invites \cup {NewInvite(n, max)}
    /\ UNCHANGED <<requests, approvals, revocations, registry, applied, now>>

CommunityCreateJoinRequest(n, inv) ==
    /\ Cardinality(requests) < MaxRequests
    /\ ValidInvite(inv)
    /\ requests' = requests \cup {NewJoinRequest(n, inv)}
    /\ UNCHANGED <<comm, invites, approvals, revocations, registry, applied, now>>

CommunityApproveJoin(n, inv, r, role) ==
    /\ Cardinality(approvals) < MaxApprovals
    /\ ApproveJoin(n, inv, r)
    /\ approvals' = approvals \cup {NewJoinApproval(n, inv, r, role)}
    /\ UNCHANGED <<invites, requests, revocations, registry, applied, now>>

CommunityApplyJoin(n, inv, r, a) ==
    /\ Get(comm[n].uses, inv.id, 0) < MaxApplied
    /\ ApplyJoin(n, inv, r, a)
    /\ UNCHANGED <<tokens, registry, applied, now>>

----------------------------------------------------------------------------
(* Registry *)

AddInvite(inv) ==
    /\ ValidInvite(inv)
    /\ inv.id \notin registry.invites
    /\ registry' = [registry EXCEPT !.invites = @ \cup {inv.id},
                                    !.uses = @ @@ (inv.id :> 0)]
    /\ UNCHANGED <<comm, tokens, applied, now>>

\* Mutant: the attempt exactly an hour old no longer counts.
RecentShort(hits) == SelectSeq(hits, LAMBDA t : t > now - Hour)

Recent(hits) == SelectSeq(hits, LAMBDA t : t >= now - Hour)

\* Yields the kept attempts; the new one is recorded when below the limit.
checkAndRecordJoinAttemptLocked(who) ==
    LET kept == Recent(Get(registry.attempts, who, <<>>))
    IN  IF Len(kept) >= MaxPerHour THEN [ok |-> FALSE, hits |-> kept]
        ELSE [ok |-> TRUE, hits |-> Append(kept, now)]

\* The attempt is recorded before the ban is looked at, and stays recorded.
RegistryApplyJoin(inv, r, a) ==
    LET try == checkAndRecordJoinAttemptLocked(r.who)
        counted == [registry EXCEPT !.attempts = (r.who :> try.hits) @@ @]
        joins == try.ok /\ Get(registry.members, r.who, [status |-> "none"]).status # "banned"
    IN  /\ ValidInvite(inv) /\ ValidRequest(r) /\ ValidApproval(a)
        /\ r.inv = inv.id /\ a.inv = inv.id /\ a.who = r.who
        /\ ~Exhausted(inv, Get(registry.uses, inv.id, 0))
        /\ Cardinality(applied) < MaxApplied
        /\ registry' = IF ~joins THEN counted
                       ELSE [counted EXCEPT
                               !.uses = (inv.id :> Get(@, inv.id, 0) + 1) @@ @,
                               !.members = (r.who :> [status |-> "active", by |-> a.issuer,
                                                      inv |-> inv.id, role |-> a.role]) @@ @]
        /\ applied' = IF joins
                      THEN applied \cup {[who |-> r.who, at |-> now, n |-> Cardinality(applied)]}
                      ELSE applied
        /\ UNCHANGED <<comm, tokens, now>>

NewRevocation(kind, who) ==
    /\ Cardinality(revocations) < MaxRevocations
    /\ revocations' = revocations \cup {[kind |-> kind, who |-> who, made |-> now]}
    /\ UNCHANGED <<comm, invites, requests, approvals, registry, applied, now>>

\* A revocation of somebody unknown is ignored; a "revoke" that arrives
\* after a ban replaces it.
ApplyRevocation(v) ==
    /\ ValidRevocation(v)
    /\ v.who \in DOMAIN registry.members
    /\ registry' = [registry EXCEPT !.members[v.who].status =
                        IF v.kind = "ban" THEN "banned" ELSE "revoked"]
    /\ UNCHANGED <<comm, tokens, applied, now>>

Tick ==
    /\ now < MaxTime
    /\ now' = now + 1
    /\ UNCHANGED <<comm, tokens, registry, applied>>

Init ==
    /\ comm = [n \in People |-> NewState]
    /\ invites = {} /\ requests = {} /\ approvals = {} /\ revocations = {}
    /\ registry = NewRegistry
    /\ applied = {}
    /\ now = 0

Next ==
    \/ \E n \in People :
        \/ CommunityCreate(n)
        \/ \E max \in MaxUsesChoices : CommunityCreateInvite(n, max)
        \/ \E inv \in invites :
            \/ CommunityCreateJoinRequest(n, inv)
            \/ \E r \in requests : \/ \E role \in Roles : CommunityApproveJoin(n, inv, r, role)
                                   \/ \E a \in approvals : CommunityApplyJoin(n, inv, r, a)
        \/ \E kind \in {"revoke", "ban"} : NewRevocation(kind, n)
    \/ \E inv \in invites :
        \/ AddInvite(inv)
        \/ \E r \in requests, a \in approvals : RegistryApplyJoin(inv, r, a)
    \/ \E v \in revocations : ApplyRevocation(v)
    \/ Tick

Spec == Init /\ [][Next]_vars

----------------------------------------------------------------------------
(* Properties *)

\* max_uses bounds an invite on both sides (Service.ApproveJoin and
\* Registry.ApplyJoin): its issuer signs no more approvals, and an observer
\* counts no more joins, however tokens are repeated or reordered; everyone
\* the observer lists was approved by the issuer of the invite they used.
InvitesBounded ==
    \A inv \in invites :
        /\ inv.max > 0 => /\ Cardinality({a \in approvals : a.inv = inv.id}) <= inv.max
                          /\ Get(registry.uses, inv.id, 0) <= inv.max
        /\ LET via == {who \in DOMAIN registry.members : registry.members[who].inv = inv.id}
           IN  /\ Cardinality(via) <= Get(registry.uses, inv.id, 0)
               /\ \A who \in via : \E a \in approvals :
                    /\ a.inv = inv.id /\ a.who = who
                    /\ a.issuer = inv.issuer /\ registry.members[who].by = inv.issuer

\* checkAndRecordJoinAttemptLocked: no hour, wherever it starts, sees more
\* than MaxPerHour accepted joins of one applicant.
JoinRateKept ==
    \A j \in applied :
        Cardinality({k \in applied : k.who = j.who /\ k.at \in j.at..(j.at + Hour)}) <= MaxPerHour
=============================================================================
