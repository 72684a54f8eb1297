------------------------------ MODULE Identity ------------------------------
(***************************************************************************)
(* Personas, prekeys, rotating mailboxes, contact offers and the linking   *)
(* of a second device (pkg/identity), as the calls of pkg/mobile use them. *)
(* Every call loads a device's identity.enc, changes it and saves it; Load *)
(* and Save drop expired prekeys, and Save refuses a state that does not   *)
(* validate, so that the call fails and changes nothing.                   *)
(*                                                                         *)
(* Keys, nonces and signatures are ideal: a bundle opens only with the     *)
(* age identity it was encrypted to, and a device certificate verifies     *)
(* only when the persona's key signed it.                                  *)
(***************************************************************************)
EXTENDS Integers, Sequences, FiniteSets, Functions, SequencesExt, TLC

CONSTANTS
    Phones,      \* stores, one identity.enc each; a phone is its age identity
    Personas,    \* personas that can be created
    Unbound,     \* age recipient of a request that names none
    Period,      \* mailbox rotation
    Phase,       \* Phase[s]: phase_sec of the binding s creates
    PreKeyTTL,
    OfferTTL,
    LinkTTL,     \* lifetime of a join request and of a link bundle
    MaxPreKeys,
    MaxTime,
    MaxRequests, \* join requests made
    MaxOffers    \* offers made

VARIABLES
    id,          \* id[s]: the State in s's identity.enc
    reqs,        \* join requests
    bundles,     \* link bundles
    offers,      \* contact offers
    mailbox,     \* envelopes on the relay, pushed with an offer
    now,
    refused,     \* history: valid requests an approval call refused
    linked       \* history: [at, asked] of every persona taken over

vars == <<id, reqs, bundles, offers, mailbox, now, refused, linked>>

NewState == [personas |-> {}, devices |-> <<>>, prekeys |-> <<>>, bindings |-> {}]

NewDevice == [trust |-> "unverified", priv |-> TRUE]

Newest(ks) == SubSeq(ks, IF Len(ks) > MaxPreKeys THEN Len(ks) - MaxPreKeys + 1 ELSE 1, Len(ks))

\* Mutant: a prekey is dropped in the last second it is valid.
PruneEarly(st) ==
    [st EXCEPT !.bindings = @ \cap st.personas,
               !.prekeys = Newest(SelectSeq(@, LAMBDA k : now < k.expires))]

\* Expired prekeys, all but the newest MaxPreKeys, and the mailbox bindings
\* of unknown personas go.
Prune(st) ==
    [st EXCEPT !.bindings = @ \cap st.personas,
               !.prekeys = Newest(SelectSeq(@, LAMBDA k : now <= k.expires))]

\* Every device entry needs its private key, every binding its persona.
Validate(st) ==
    /\ \A d \in DOMAIN st.devices : st.devices[d].priv
    /\ st.bindings \subseteq st.personas
    /\ \A i \in DOMAIN st.prekeys : now <= st.prekeys[i].expires

Load(s) == Prune(id[s])

Save(s, st) ==
    /\ Validate(Prune(st))
    /\ id' = [id EXCEPT ![s] = Prune(st)]

CreatePersona(s, p) ==
    /\ \A x \in Phones : p \notin id[x].personas   \* a fresh random id
    /\ Save(s, [Load(s) EXCEPT !.personas = @ \cup {p}])
    /\ UNCHANGED <<reqs, bundles, offers, mailbox, now, refused, linked>>

----------------------------------------------------------------------------
(* Offers and mailboxes *)

NewPreKey(s) == [of |-> s, made |-> now, expires |-> now + PreKeyTTL]

EnsurePreKeys(s, st, min) ==
    LET t == Prune(st)
        need == min - Len(t.prekeys)
    IN  IF need <= 0 THEN t
        ELSE Prune([t EXCEPT !.prekeys = @ \o [i \in 1..need |-> NewPreKey(s)]])

EnsureMailboxBinding(st, p) == [st EXCEPT !.bindings = @ \cup {p}]

mailboxEpoch(s) == (now + (Phase[s] % Period)) \div Period

\* The seed of a binding is the store's own: no two stores share a mailbox.
mailboxForEpoch(s, p, epoch) == <<s, p, epoch>>
MailboxAt(s, p) == mailboxForEpoch(s, p, mailboxEpoch(s))
MailboxPrevAt(s, p) == mailboxForEpoch(s, p, mailboxEpoch(s) - 1)

newContactOffer(s, p, k) == [prekey |-> k, mailbox |-> MailboxAt(s, p), expires |-> now + OfferTTL]

CreateContactOffer(s, p) ==
    LET st == EnsureMailboxBinding(EnsurePreKeys(s, Load(s), 1), p)
    IN  /\ p \in st.personas
        /\ Cardinality(offers) < MaxOffers
        /\ Save(s, st)
        /\ offers' = offers \cup {newContactOffer(s, p, Last(st.prekeys))}
        /\ UNCHANGED <<reqs, bundles, mailbox, now, refused, linked>>

ValidOffer(o) == now <= o.expires

SendToOfferText(o) ==
    /\ ValidOffer(o)
    /\ mailbox' = mailbox \cup {[to |-> o.mailbox, prekey |-> o.prekey]}
    /\ UNCHANGED <<id, reqs, bundles, offers, now, refused, linked>>

\* The mailboxes ChatSyncOnce pulls from.
Polled(s, p) == {MailboxAt(s, p), MailboxPrevAt(s, p)}

\* Whether some loaded prekey opens the envelope (DecryptEnvelopeToText).
Decrypts(st, e) == e.prekey \in Range(st.prekeys)

\* The identity half of ChatSyncOnce: what is opened is acknowledged.
ChatSyncOnce(s, p) ==
    LET st == EnsureMailboxBinding(Load(s), p)
    IN  /\ p \in st.personas
        /\ IF p \in Load(s).bindings THEN UNCHANGED id ELSE Save(s, st)
        /\ mailbox' = {e \in mailbox : e.to \notin Polled(s, p) \/ ~Decrypts(st, e)}
        /\ UNCHANGED <<reqs, bundles, offers, now, refused, linked>>

----------------------------------------------------------------------------
(* Device linking *)

DeviceID == Cardinality(reqs) + 1

NewDeviceJoinRequestForDevice(p, to) ==
    [persona |-> p, dev |-> DeviceID, to |-> to, made |-> now, expires |-> now + LinkTTL]

\* The new phone makes a device with its own key; it need not know the
\* persona.
CreateDeviceJoinRequest(s, p, to) ==
    /\ Cardinality(reqs) < MaxRequests
    /\ to \in {s, Unbound}
    /\ Save(s, [Load(s) EXCEPT !.devices = (DeviceID :> NewDevice) @@ @])
    /\ reqs' = reqs \cup {NewDeviceJoinRequestForDevice(p, to)}
    /\ UNCHANGED <<bundles, offers, mailbox, now, refused, linked>>

\* The other entry point is given the device's id and key by its caller and
\* records no device.
DeviceCreateJoinRequest(s, p, to) ==
    /\ Cardinality(reqs) < MaxRequests
    /\ to \in {s, Unbound}
    /\ p \in id[s].personas
    /\ reqs' = reqs \cup {NewDeviceJoinRequestForDevice(p, to)}
    /\ UNCHANGED <<id, bundles, offers, mailbox, now, refused, linked>>

ValidRequest(r) == now <= r.expires

UpsertDeviceFromJoinPackage(st, pkg) ==
    IF pkg.dev \in DOMAIN st.devices THEN [st EXCEPT !.devices[pkg.dev].trust = pkg.trust]
    ELSE [st EXCEPT !.devices = (pkg.dev :> [trust |-> pkg.trust, priv |-> FALSE]) @@ @]

\* The persona's key signs the device; whoever has the persona can check it.
IssueDeviceCert(p, d) == [signer |-> p, dev |-> d]
VerifyDeviceCert(p, cert) == cert.signer = p

\* ApproveDeviceJoinRequest of the identity package.
NewDeviceJoinPackage(r) ==
    [persona |-> r.persona, dev |-> r.dev, trust |-> "trusted",
     cert |-> IssueDeviceCert(r.persona, r.dev)]
ValidPackage(p, pkg) == pkg.trust = "trusted" /\ VerifyDeviceCert(p, pkg.cert)

\* Mutant: a bundle gets a lifetime of its own.
NewBundleFresh(s, r) ==
    [persona |-> r.persona, pkg |-> NewDeviceJoinPackage(r), to |-> r.to, by |-> s,
     asked |-> r.made, expires |-> now + LinkTTL]

\* A bundle never outlives its request.
NewDeviceLinkBundle(s, r) ==
    [persona |-> r.persona, pkg |-> NewDeviceJoinPackage(r), to |-> r.to, by |-> s,
     asked |-> r.made,
     expires |-> IF r.expires < now + LinkTTL THEN r.expires ELSE now + LinkTTL]

ValidBundle(b) ==
    now <= b.expires /\ b.pkg.persona = b.persona /\ ValidPackage(b.persona, b.pkg)

Approves(s, r) == r.persona \in id[s].personas /\ ValidRequest(r)

EncryptDeviceLinkBundle(s, r) ==
    bundles' = IF r.to = Unbound THEN bundles ELSE bundles \cup {NewDeviceLinkBundle(s, r)}

\* The device is entered into the approver's store first: unless the
\* approver made the device itself, it has no private key of it, Save
\* refuses, and there is no bundle.
ApproveDeviceJoinRequest(s, r) ==
    LET st == UpsertDeviceFromJoinPackage(Load(s), NewDeviceJoinPackage(r))
    IN  /\ Approves(s, r)
        /\ IF Validate(Prune(st))
           THEN /\ Save(s, st)
                /\ EncryptDeviceLinkBundle(s, r)
                /\ UNCHANGED refused
           ELSE /\ refused' = refused \cup {r}
                /\ UNCHANGED <<id, bundles>>
        /\ UNCHANGED <<reqs, offers, mailbox, now, linked>>

DeviceApproveJoinRequest(s, r) ==
    /\ Approves(s, r)
    /\ EncryptDeviceLinkBundle(s, r)
    /\ UNCHANGED <<id, reqs, offers, mailbox, now, refused, linked>>

\* DecryptDeviceLink: the recipient's age identity, a valid bundle.
DecryptDeviceLink(s, b) == b.to = s /\ ValidBundle(b)

TakeOver(s, b) ==
    /\ Save(s, [UpsertDeviceFromJoinPackage(Load(s), b.pkg)
                    EXCEPT !.personas = @ \cup {b.persona}])
    /\ linked' = linked \cup {[phone |-> s, persona |-> b.persona, dev |-> b.pkg.dev,
                               at |-> now, asked |-> b.asked]}
    /\ UNCHANGED <<reqs, bundles, offers, mailbox, now, refused>>

ApplyDeviceJoinPackage(s, b) ==
    /\ DecryptDeviceLink(s, b)
    /\ b.pkg.dev \in DOMAIN id[s].devices
    /\ TakeOver(s, b)

\* Without the device check, Save's validation stands in for it.
DeviceApplyJoinPackage(s, b) ==
    /\ DecryptDeviceLink(s, b)
    /\ TakeOver(s, b)

Tick ==
    /\ now < MaxTime
    /\ now' = now + 1
    /\ UNCHANGED <<id, reqs, bundles, offers, mailbox, refused, linked>>

Init ==
    /\ id = [s \in Phones |-> NewState]
    /\ reqs = {}
    /\ bundles = {}
    /\ offers = {}
    /\ mailbox = {}
    /\ now = 0
    /\ refused = {}
    /\ linked = {}

Next ==
    \/ \E s \in Phones, p \in Personas :
        \/ CreatePersona(s, p)
        \/ CreateContactOffer(s, p)
        \/ ChatSyncOnce(s, p)
        \/ \E to \in Phones \cup {Unbound} : \/ CreateDeviceJoinRequest(s, p, to)
                                             \/ DeviceCreateJoinRequest(s, p, to)
    \/ \E o \in offers : SendToOfferText(o)
    \/ \E s \in Phones : \/ \E r \in reqs : \/ ApproveDeviceJoinRequest(s, r)
                                            \/ DeviceApproveJoinRequest(s, r)
                         \/ \E b \in bundles : \/ ApplyDeviceJoinPackage(s, b)
                                               \/ DeviceApplyJoinPackage(s, b)
    \/ Tick

Spec == Init /\ [][Next]_vars

----------------------------------------------------------------------------
(* Properties *)

\* An envelope sent with a valid offer stays readable: until its prekey
\* expires, and while the mailbox of the offer is at most one rotation old,
\* the ChatSyncOnce of the phone that made the offer polls its mailbox and
\* holds the prekey, whatever offers, syncs and links came in between.
OfferHonoured ==
    \A e \in mailbox :
        LET s == e.to[1]
            p == e.to[2]
        IN  now <= e.prekey.expires /\ mailboxEpoch(s) <= e.to[3] + 1
            => e.to \in Polled(s, p) /\ p \in id[s].personas /\ Decrypts(Load(s), e)

\* A linked phone got the persona through a device it made itself, trusts
\* that device now, and did so within the lifetime of the request it had
\* shown, however late the approval came.
LinkedInTime ==
    \A l \in linked :
        /\ l.dev \in DOMAIN id[l.phone].devices
        /\ id[l.phone].devices[l.dev] = [trust |-> "trusted", priv |-> TRUE]
        /\ l.at <= l.asked + LinkTTL

\* "Primary Device: Scans the QR code, verifies the request, and generates a
\* DeviceCert" (doc/sync_persistence_design.md:38): a valid request for a
\* persona the phone holds is not refused.
ValidRequestApproved == refused = {}
=============================================================================
