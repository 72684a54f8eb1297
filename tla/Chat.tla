-------------------------------- MODULE Chat --------------------------------
(***************************************************************************)
(* Contacts, direct chats, groups and community rooms (pkg/chat) of        *)
(* several people, as the mobile API (pkg/mobile) drives them.  Every call *)
(* loads chat.enc into a service of its own, pushes to the relay, changes  *)
(* the loaded state and saves it: the calls of one device run one after    *)
(* the other, so a call is one step here, with the set of recipients whose *)
(* push succeeded as its input.  ChatSyncOnce alone takes several steps:   *)
(* the pulled messages are applied and saved one by one and acknowledged   *)
(* together at the end, if the app lives that long.                        *)
(*                                                                         *)
(* Aliases, titles, texts, timestamps and the unread counter are left out; *)
(* a contact is reachable when it has both a mailbox and a prekey; a nil   *)
(* and an empty role map are the same.  Every payload carries a valid      *)
(* signature.                                                              *)
(***************************************************************************)
EXTENDS Integers, FiniteSets, Functions

CONSTANTS
    People,     \* personas, one per device; a person is their contact id
    NoOne,      \* the empty invitee of an update invite
    Befriended, \* the pairs <<n, c>> where n has c's offer from the start
    MaxCalls,   \* user calls in a behaviour
    MaxLosses   \* sync passes that end before their acknowledgement

VARIABLES
    chat,       \* chat[n]: the State in n's chat.enc
    mail,       \* mail[n]: the relay's messages for n
    sync,       \* sync[n]: n's running ChatSyncOnce
    next,       \* the next relay message id
    calls,      \* user calls made
    losses,     \* acknowledgements lost
    acked,      \* history: acked[n], the messages n acknowledged
    faulty      \* whether pushes can fail in this behaviour

chatVars == <<chat, mail, sync, next, calls, losses, acked, faulty>>

Roles == {"owner", "moderator", "member"}
GroupID == <<"group", {}>>
RoomID == <<"community", {}>>

DirectChatID(a, b) == <<"direct", {a, b}>>

NewState == [contacts |-> {}, reach |-> {}, chats |-> <<>>, messages |-> {}]

NewChat(parts) == [parts |-> parts, roles |-> <<>>]

----------------------------------------------------------------------------
(* Payloads *)

Payload(kind, from, id) ==
    [kind |-> kind, from |-> from, chat |-> id, invitee |-> NoOne,
     members |-> {}, subject |-> NoOne, role |-> "member"]

EncodeText(from, to) == Payload("text", from, DirectChatID(from, to))
EncodeGroupText(from) == Payload("group", from, GroupID)
EncodeGroupJoin(from) == Payload("join", from, GroupID)
EncodeCommunityPost(from) == Payload("post", from, RoomID)

EncodeGroupInvite(from, invitee, members) ==
    [Payload("invite", from, GroupID) EXCEPT !.invitee = invitee, !.members = members]

EncodeGroupRole(from, subject, role) ==
    [Payload("role", from, GroupID) EXCEPT !.subject = subject, !.role = role]

EncodeGroupRemove(from, subject) ==
    [Payload("remove", from, GroupID) EXCEPT !.subject = subject]

GroupMember(s, c) == [who |-> c, addr |-> c \in s.reach]

----------------------------------------------------------------------------
(* Changes of a State *)

HasChat(s, id) == id \in DOMAIN s.chats

\* The map f with the value v for x.
Entered(f, x, v) == [y \in DOMAIN f \cup {x} |-> IF y = x THEN v ELSE f[y]]

WithChat(s, id, ch) == [s EXCEPT !.chats = Entered(@, id, ch)]

ensureContactLocked(s, c) == [s EXCEPT !.contacts = @ \cup {c}]

\* Only an address that is missing is filled in.
ensureContactFromInviteLocked(s, ms) ==
    [s EXCEPT !.contacts = @ \cup {m.who : m \in ms},
              !.reach = @ \cup {m.who : m \in {x \in ms : x.addr}}]

ensureDirectChatLocked(s, id, c) ==
    IF HasChat(s, id) THEN s ELSE WithChat(s, id, NewChat({c}))

ensureGroupParticipantLocked(s, id, cs) ==
    IF HasChat(s, id) THEN [s EXCEPT !.chats[id].parts = @ \cup cs] ELSE s

ensureGroupChatLocked(s, id, c) ==
    IF HasChat(s, id) THEN [s EXCEPT !.chats[id].parts = @ \cup {c}]
    ELSE WithChat(s, id, NewChat({c}))

ensureCommunityChatLocked(s, id, c) == ensureGroupChatLocked(s, id, c)

RoleOf(s, id, c) ==
    IF HasChat(s, id) /\ c \in DOMAIN s.chats[id].roles
    THEN s.chats[id].roles[c] ELSE "none"

Owners(roles) == {c \in DOMAIN roles : roles[c] = "owner"}
hasOwnerRole(roles) == Owners(roles) # {}

canInviteLocked(s, id, actor) == RoleOf(s, id, actor) \in {"owner", "moderator"}
canManageMembershipLocked(s, id, actor) == RoleOf(s, id, actor) \in {"owner", "moderator"}
canManageRolesLocked(s, id, actor) == RoleOf(s, id, actor) = "owner"

ensureGroupRoleLocked(s, id, c, role) ==
    IF HasChat(s, id) /\ role \in Roles
    THEN [s EXCEPT !.chats[id].roles = Entered(@, c, role)] ELSE s

\* Whoever finds no owner makes one: an invite its sender, a sender itself.
OwnerIfNone(s, id, c) ==
    IF hasOwnerRole(s.chats[id].roles) THEN s
    ELSE ensureGroupRoleLocked(s, id, c, "owner")

ensureGroupInviteRolesLocked(s, id, inviter, self) ==
    LET t == OwnerIfNone(s, id, inviter)
    IN  [t EXCEPT !.chats[id].roles =
            [c \in DOMAIN @ \cup {self, inviter} |->
                IF c \in DOMAIN @ THEN @[c] ELSE IF c = self THEN "member" ELSE "owner"]]

removeGroupParticipantLocked(s, id, c) ==
    [s EXCEPT !.chats[id].parts = @ \ {c},
              !.chats[id].roles = Restrict(@, DOMAIN @ \ {c})]

\* A stored message has a random id of its own; the copy number tells two
\* messages with the same relay id apart.
AppendMessage(s, dir, id, p, state) ==
    [s EXCEPT !.messages = @ \cup
        {[dir |-> dir, id |-> id, chat |-> p.chat, kind |-> p.kind,
          from |-> p.from, state |-> state,
          copy |-> Cardinality({x \in s.messages : x.dir = dir /\ x.id = id})]}]

Outgoing(s, p) == AppendMessage(s, "out", next, p, "sent")

\* What Save and Load insist on.
Validate(s) ==
    \A id \in DOMAIN s.chats :
        /\ s.chats[id].parts # {}
        /\ DOMAIN s.chats[id].roles \subseteq s.chats[id].parts

----------------------------------------------------------------------------
(* Receiving *)

\* Mutant: redelivered messages are not recognised.
DuplicateNever(s, m) == FALSE

\* Relay may redeliver: a message whose id is stored is not applied again.
Duplicate(s, m) == \E x \in s.messages : x.dir = "in" /\ x.id = m.id

ApplyKind(s, self, p) ==
    CASE p.kind = "text"   -> ensureDirectChatLocked(s, p.chat, p.from)
      [] p.kind = "group"  -> ensureGroupChatLocked(s, p.chat, p.from)
      [] p.kind = "post"   -> ensureCommunityChatLocked(s, p.chat, p.from)
      [] p.kind = "invite" ->
            LET t == ensureContactFromInviteLocked(
                        ensureGroupChatLocked(s, p.chat, p.from), p.members)
            IN  ensureGroupInviteRolesLocked(
                    ensureGroupParticipantLocked(t, p.chat,
                        {m.who : m \in p.members} \cup {self, p.from}),
                    p.chat, p.from, self)
      [] p.kind = "join"   ->
            ensureGroupRoleLocked(ensureGroupChatLocked(s, p.chat, p.from),
                                  p.chat, p.from, "member")
      [] p.kind = "role"   ->
            LET t == ensureGroupChatLocked(s, p.chat, p.from)
            IN  IF canManageRolesLocked(t, p.chat, p.from)
                THEN ensureGroupRoleLocked(
                        ensureGroupParticipantLocked(t, p.chat, {p.subject}),
                        p.chat, p.subject, p.role)
                ELSE t
      [] p.kind = "remove" ->
            LET t == ensureGroupChatLocked(s, p.chat, p.from)
            IN  IF canManageMembershipLocked(t, p.chat, p.from)
                THEN removeGroupParticipantLocked(t, p.chat, p.subject)
                ELSE t

ApplyIncoming(s, self, m) ==
    IF Duplicate(s, m) \/ (m.p.kind = "invite" /\ m.p.invitee \notin {NoOne, self})
    THEN s
    ELSE AppendMessage(ApplyKind(ensureContactLocked(s, m.p.from), self, m.p),
                       "in", m.id, m.p, "delivered")

\* Mutant: the new member is told, the other participants are not.
broadcastSyncOnly(s, self, new) ==
    IF ~canInviteLocked(s, GroupID, self) \/ new \notin s.reach
    THEN <<>>
    ELSE [c \in {new} |-> EncodeGroupInvite(self, new,
             {GroupMember(s, x) : x \in (s.chats[GroupID].parts \cap s.contacts) \ {new}})]

\* After a join: an update invite to the others, the member list to the
\* new member.  Yields the payload pushed to each recipient.
broadcastGroupMemberAdded(s, self, new) ==
    IF ~canInviteLocked(s, GroupID, self) \/ new \notin s.reach
    THEN <<>>
    ELSE LET known == s.chats[GroupID].parts \cap s.contacts
             others == (known \ {new}) \cap s.reach
         IN  [c \in others \cup {new} |->
                IF c = new
                THEN EncodeGroupInvite(self, new, {GroupMember(s, x) : x \in known \ {new}})
                ELSE EncodeGroupInvite(self, NoOne, {GroupMember(s, new)})]

ApplyIncomingWithRelay(s, self, m) ==
    IF m.p.kind = "join" THEN broadcastGroupMemberAdded(s, self, m.p.from) ELSE <<>>
----------------------------------------------------------------------------
(* The calls of the mobile API *)

\* The recipients of a push the relay accepts, of those with an address.
sendPayloadToContact(s, to) ==
    LET r == to \cap s.reach IN IF faulty THEN SUBSET r ELSE {r}

Pushed(ps) ==
    mail' = [n \in People |-> IF n \in DOMAIN ps
                              THEN mail[n] \cup {[id |-> next, p |-> ps[n]]}
                              ELSE mail[n]]

Save(n, s) == chat' = IF Validate(s) THEN [chat EXCEPT ![n] = s] ELSE chat

\* A user call: no sync pass of the device is running, and the persona is
\* loaded.  A call that fails changes nothing and is not a step.
UserCall(n) ==
    /\ calls < MaxCalls
    /\ ~sync[n].on
    /\ calls' = calls + 1
    /\ UNCHANGED <<sync, losses, acked, faulty>>

\* A call that pushes p to `to` and, if some push succeeded, saves s.
SendCall(n, s, to, p) ==
    /\ \E D \in sendPayloadToContact(s, to) :
        /\ D # {}
        /\ Pushed([c \in D |-> p])
    /\ next' = next + 1
    /\ Save(n, Outgoing(s, p))

LocalCall(n, s) ==
    /\ Save(n, s)
    /\ UNCHANGED <<mail, next>>

AddContactFromOffer(s, c) ==
    [s EXCEPT !.contacts = @ \cup {c}, !.reach = @ \cup {c}]

ChatAddContactFromOffer(n, c) ==
    /\ n # c
    /\ c \notin chat[n].reach
    /\ LocalCall(n, AddContactFromOffer(chat[n], c))

SendTextToContact(n, c) ==
    SendCall(n, ensureDirectChatLocked(chat[n], DirectChatID(n, c), c),
             {c} \cap chat[n].contacts, EncodeText(n, c))

ChatSendText(n, c) == n # c /\ SendTextToContact(n, c)

CreateGroup(n, members) ==
    /\ members # {}
    /\ members \subseteq chat[n].contacts
    /\ \A x \in People : ~HasChat(chat[x], GroupID)  \* a fresh random id
    /\ LocalCall(n, WithChat(chat[n], GroupID, NewChat(members)))

ChatCreateGroup(n, members) == CreateGroup(n, members)

\* A sender that is not a participant is refused when there are roles, and
\* otherwise adds itself, as the owner if there is none.
SendGroupText(n) ==
    LET s == chat[n]
        t == IF n \in s.chats[GroupID].parts THEN s
             ELSE OwnerIfNone(ensureGroupParticipantLocked(
                                  ensureContactLocked(s, n), GroupID, {n}),
                              GroupID, n)
    IN  /\ HasChat(s, GroupID)
        /\ n \in s.chats[GroupID].parts \/ DOMAIN s.chats[GroupID].roles = {}
        /\ t.chats[GroupID].parts \subseteq t.contacts
        /\ SendCall(n, t, t.chats[GroupID].parts, EncodeGroupText(n))

ChatSendGroupText(n) == SendGroupText(n)

InviteToGroup(n, c) ==
    LET s == chat[n]
        t == OwnerIfNone(ensureGroupParticipantLocked(
                             ensureContactLocked(s, n), GroupID, {n}), GroupID, n)
        members == {GroupMember(t, x) : x \in (t.chats[GroupID].parts \ {c}) \cap t.contacts}
    IN  /\ HasChat(s, GroupID)
        /\ c \in s.contacts
        /\ canInviteLocked(t, GroupID, n)
        /\ SendCall(n, ensureGroupRoleLocked(
                          ensureGroupParticipantLocked(t, GroupID, {c}), GroupID, c, "member"),
                    {c}, EncodeGroupInvite(n, c, members))

ChatInviteToGroup(n, c) == n # c /\ InviteToGroup(n, c)

JoinGroup(n) ==
    /\ HasChat(chat[n], GroupID)
    /\ SendCall(n, chat[n], chat[n].chats[GroupID].parts \cap chat[n].contacts,
                EncodeGroupJoin(n))

ChatJoinGroup(n) == JoinGroup(n)

SetGroupRole(n, c, role) ==
    LET s == chat[n]
    IN  /\ HasChat(s, GroupID)
        /\ c \in s.contacts
        /\ canManageRolesLocked(s, GroupID, n)
        /\ SendCall(n, ensureGroupRoleLocked(
                          ensureGroupParticipantLocked(s, GroupID, {c}), GroupID, c, role),
                    (s.chats[GroupID].parts \cap s.contacts) \cup {c},
                    EncodeGroupRole(n, c, role))

ChatSetGroupRole(n, c, role) == SetGroupRole(n, c, role)

\* The last owner cannot be removed by a call of this device.
RemoveFromGroup(n, c) ==
    LET s == chat[n]
    IN  /\ HasChat(s, GroupID)
        /\ c \in s.contacts
        /\ canManageMembershipLocked(s, GroupID, n)
        /\ Owners(s.chats[GroupID].roles) # {c}
        /\ SendCall(n, removeGroupParticipantLocked(s, GroupID, c),
                    (s.chats[GroupID].parts \cap s.contacts) \cup {c},
                    EncodeGroupRemove(n, c))

ChatRemoveFromGroup(n, c) == RemoveFromGroup(n, c)

CreateCommunityRoom(n, members) ==
    /\ members # {}
    /\ members \subseteq chat[n].contacts
    /\ ~HasChat(chat[n], RoomID)
    /\ LocalCall(n, WithChat(chat[n], RoomID, NewChat(members)))

ChatCreateCommunityRoom(n, members) == CreateCommunityRoom(n, members)

SendCommunityPost(n) ==
    LET s == chat[n]
    IN  /\ HasChat(s, RoomID)
        /\ s.chats[RoomID].parts \subseteq s.contacts
        /\ SendCall(n, s, s.chats[RoomID].parts, EncodeCommunityPost(n))

ChatSendCommunityPost(n) == SendCommunityPost(n)

MarkMessageState(n, m, state) ==
    /\ m \in chat[n].messages
    /\ LocalCall(n, [chat[n] EXCEPT !.messages =
                         (@ \ {m}) \cup {[m EXCEPT !.state = state]}])

ChatMarkMessageState(n, m, state) == m.state # state /\ MarkMessageState(n, m, state)

\* ChatSyncOnce: load, then apply and save each pulled message; the ids of
\* those whose application and save succeeded are acknowledged at the end.
Idle == [on |-> FALSE, mem |-> NewState, acks |-> {}, todo |-> {}]

ChatSyncStart(n) ==
    /\ ~sync[n].on
    /\ mail[n] # {}
    /\ sync' = [sync EXCEPT ![n] = [Idle EXCEPT !.on = TRUE, !.mem = chat[n],
                                                      !.todo = mail[n]]]
    /\ UNCHANGED <<chat, mail, next, calls, losses, acked, faulty>>

ChatSyncApply(n, m) ==
    LET s == ApplyIncoming(sync[n].mem, n, m)
        ok == s = sync[n].mem \/ Validate(s)
        ps == IF ok THEN ApplyIncomingWithRelay(s, n, m) ELSE <<>>
    IN  /\ sync[n].on
        /\ m \in sync[n].todo
        /\ sync' = [sync EXCEPT ![n].mem = s, ![n].todo = @ \ {m},
                                ![n].acks = IF ok THEN @ \cup {m} ELSE @]
        /\ IF s = sync[n].mem THEN UNCHANGED chat ELSE Save(n, s)
        /\ IF ps = <<>> THEN UNCHANGED <<mail, next>>
           ELSE /\ \E D \in sendPayloadToContact(s, DOMAIN ps) : Pushed(Restrict(ps, D))
                /\ next' = next + 1
        /\ UNCHANGED <<calls, losses, acked, faulty>>

ChatSyncAck(n) ==
    /\ sync[n].on
    /\ sync[n].todo = {}
    /\ mail' = [mail EXCEPT ![n] = @ \ sync[n].acks]
    /\ acked' = [acked EXCEPT ![n] = @ \cup sync[n].acks]
    /\ sync' = [sync EXCEPT ![n] = Idle]
    /\ UNCHANGED <<chat, next, calls, losses, faulty>>

\* The app is stopped, or the acknowledgement fails.
ChatSyncLost(n) ==
    /\ sync[n].on
    /\ losses < MaxLosses
    /\ losses' = losses + 1
    /\ sync' = [sync EXCEPT ![n] = Idle]
    /\ UNCHANGED <<chat, mail, next, calls, acked, faulty>>

ChatInit ==
    /\ chat = [n \in People |->
                  LET cs == {c \in People : <<n, c>> \in Befriended}
                  IN  [NewState EXCEPT !.contacts = cs, !.reach = cs]]
    /\ mail = [n \in People |-> {}]
    /\ sync = [n \in People |-> Idle]
    /\ next = 1
    /\ calls = 0
    /\ losses = 0
    /\ acked = [n \in People |-> {}]
    /\ faulty \in BOOLEAN

ChatCall(n) ==
    \/ \E c \in People : \/ ChatAddContactFromOffer(n, c)
                         \/ ChatSendText(n, c)
                         \/ ChatInviteToGroup(n, c)
                         \/ ChatRemoveFromGroup(n, c)
                         \/ \E r \in Roles : ChatSetGroupRole(n, c, r)
    \/ \E cs \in SUBSET People : \/ ChatCreateGroup(n, cs)
                                 \/ ChatCreateCommunityRoom(n, cs)
    \/ ChatSendGroupText(n)
    \/ ChatJoinGroup(n)
    \/ ChatSendCommunityPost(n)
    \/ \E m \in chat[n].messages : ChatMarkMessageState(n, m, "read")

ChatNext ==
    \E n \in People :
        \/ UserCall(n) /\ ChatCall(n)
        \/ ChatSyncStart(n)
        \/ \E m \in sync[n].todo : ChatSyncApply(n, m)
        \/ ChatSyncAck(n)
        \/ ChatSyncLost(n)

ChatSpec == ChatInit /\ [][ChatNext]_chatVars
----------------------------------------------------------------------------
(* Properties *)

\* What is on disk always loads again (Validate holds), a relay message is
\* stored at most once however often it is delivered (the comment at
\* service.go:986), and a message ChatSyncOnce has acknowledged, which the
\* relay has forgotten, is in the receiver's store.
ChatInv ==
    \A n \in People :
        /\ Validate(chat[n])
        /\ chat[n].reach \subseteq chat[n].contacts
        /\ \A x, y \in chat[n].messages : x.dir = y.dir /\ x.id = y.id => x = y
        /\ \A m \in acked[n] : \E x \in chat[n].messages : x.dir = "in" /\ x.id = m.id

Quiet == \A n \in People : mail[n] = {} /\ ~sync[n].on

\* n sent a join after o had sent n an invite.
Accepted(n, o) ==
    \E x, y \in chat[n].messages : /\ x.dir = "in" /\ x.kind = "invite" /\ x.from = o
                                   /\ y.dir = "out" /\ y.kind = "join" /\ x.id < y.id

SomeoneRemoved == \E n \in People : \E x \in chat[n].messages : x.kind = "remove"

\* Once everyone listed has accepted the owner's invite (JoinGroup), owner and
\* members having each other's offers, and all mail is read: the invites,
\* joins and member updates have given everyone the same participants and an
\* address of each of them, whatever order they arrived in, provided no push
\* failed and nobody was removed.
JoinedAgree ==
    LET in == {n \in People : HasChat(chat[n], GroupID)}
        listed == UNION {chat[n].chats[GroupID].parts : n \in in}
        Settled(o) == /\ RoleOf(chat[o], GroupID, o) = "owner"
                      /\ \A n \in listed \ {o} : /\ Accepted(n, o)
                                                /\ n \in chat[o].reach
                                                /\ o \in chat[n].reach
    IN  (Quiet /\ ~faulty /\ ~SomeoneRemoved /\ \E o \in in : Settled(o))
        => \A n \in listed : /\ n \in in
                             /\ chat[n].chats[GroupID].parts = listed
                             /\ listed \ {n} \subseteq chat[n].reach
=============================================================================
