----------------------------- MODULE ChatProofs -----------------------------
(***************************************************************************)
(* The stores of the chat: what is on disk loads again, a relay message is *)
(* stored once at most, and an acknowledged message is stored, for any     *)
(* people, any number of calls and sync passes, failed pushes, refused     *)
(* saves and lost acknowledgements.                                        *)
(***************************************************************************)
EXTENDS Chat, TLAPS

StateFields == {"contacts", "reach", "chats", "messages"}
SyncFields == {"on", "mem", "acks", "todo"}
Kinds == {"text", "group", "post", "invite", "join", "role", "remove"}

Stored(s, m) == \E x \in s.messages : x.dir = "in" /\ x.id = m.id

\* The participants and roles are left to Validate.
StateOk(s) ==
    /\ s = [f \in StateFields |-> s[f]]
    /\ s.reach \subseteq s.contacts
    /\ \A x \in s.messages : x.id \in Nat /\ x.id < next
    /\ \A x, y \in s.messages : x.dir = y.dir /\ x.id = y.id => x = y

\* An invite reaches its invitee, or everyone as an update.
AddressedTo(n, p) ==
    p.kind \in Kinds /\ (p.kind = "invite" => p.invitee \in {NoOne, n})

MailOk(n) ==
    /\ \A m \in mail[n] : m.id \in Nat /\ m.id < next /\ AddressedTo(n, m.p)
    /\ \A l, m \in mail[n] : l.id = m.id => l = m

\* A pass works on a copy that may be ahead of the disk, when a save was
\* refused, but not by a message that is still to be applied.
SyncOk(n) ==
    /\ sync[n] = [f \in SyncFields |-> sync[n][f]]
    /\ sync[n].on =>
        /\ StateOk(sync[n].mem)
        /\ chat[n].messages \subseteq sync[n].mem.messages
        /\ sync[n].todo \subseteq mail[n]
        /\ \A m \in sync[n].todo : Stored(sync[n].mem, m) => Stored(chat[n], m)
        /\ \A m \in sync[n].acks : Stored(chat[n], m)

PersonOk(n) ==
    /\ StateOk(chat[n]) /\ Validate(chat[n])
    /\ MailOk(n)
    /\ SyncOk(n)
    /\ \A m \in acked[n] : Stored(chat[n], m)

\* The inductive invariant.
StoreInv ==
    /\ next \in Nat
    /\ chat = [n \in People |-> chat[n]] /\ mail = [n \in People |-> mail[n]]
    /\ sync = [n \in People |-> sync[n]] /\ acked = [n \in People |-> acked[n]]
    /\ \A n \in People : PersonOk(n)

-----------------------------------------------------------------------------
\* What a change of contacts, chats and addresses leaves alone.
Touches(s, t) ==
    /\ t = [f \in StateFields |-> t[f]]
    /\ t.messages = s.messages
    /\ t.reach \subseteq t.contacts

\* Participants and roles of the chats.
LEMMA ChatsChange ==
  ASSUME NEW s, Touches(s, s), NEW chats
  PROVE  Touches(s, [s EXCEPT !.chats = chats])
<1>1. PICK t : t = [s EXCEPT !.chats = chats] BY Zenon
<1>2. /\ t = [f \in StateFields |-> t[f]]
      /\ t.messages = s.messages /\ t.reach = s.reach /\ t.contacts = s.contacts
  BY <1>1 DEF Touches, StateFields
<1> QED BY <1>1, <1>2 DEF Touches

\* Each of the helpers that do not append a message.
LEMMA HelpersTouch ==
  ASSUME NEW s, Touches(s, s), NEW id, NEW c, NEW cs, NEW role, NEW ch
  PROVE  /\ Touches(s, WithChat(s, id, ch))
         /\ Touches(s, ensureDirectChatLocked(s, id, c))
         /\ Touches(s, ensureGroupParticipantLocked(s, id, cs))
         /\ Touches(s, ensureGroupChatLocked(s, id, c))
         /\ Touches(s, ensureGroupRoleLocked(s, id, c, role))
         /\ Touches(s, OwnerIfNone(s, id, c))
<1>1. \A x : Touches(s, WithChat(s, id, x)) BY ChatsChange DEF WithChat
<1>2. Touches(s, ensureDirectChatLocked(s, id, c)) BY <1>1 DEF ensureDirectChatLocked
<1>3. Touches(s, ensureGroupParticipantLocked(s, id, cs))
  BY ChatsChange DEF ensureGroupParticipantLocked
<1>4. Touches(s, ensureGroupChatLocked(s, id, c))
  BY Zenon, <1>1, ChatsChange DEF ensureGroupChatLocked
<1>5. \A x : Touches(s, ensureGroupRoleLocked(s, id, c, x))
  BY ChatsChange DEF ensureGroupRoleLocked
<1>6. Touches(s, OwnerIfNone(s, id, c)) BY <1>5 DEF OwnerIfNone
<1> QED BY <1>1, <1>2, <1>3, <1>4, <1>5, <1>6

\* The changes compose.
LEMMA TouchTwice ==
  ASSUME NEW s, NEW t, NEW u, Touches(s, t), Touches(t, u)
  PROVE  Touches(s, u)
BY DEF Touches

\* What is left is again a store to change.
LEMMA TouchSelf ==
  ASSUME NEW s, NEW t, Touches(s, t)
  PROVE  Touches(t, t)
BY DEF Touches

\* Contacts are added, with an address or without.
LEMMA ContactsTouch ==
  ASSUME NEW s, Touches(s, s), NEW c, NEW ms
  PROVE  /\ Touches(s, ensureContactLocked(s, c))
         /\ Touches(s, ensureContactFromInviteLocked(s, ms))
         /\ Touches(s, AddContactFromOffer(s, c))
<1>1. Touches(s, ensureContactLocked(s, c))
  <2>1. PICK t : t = ensureContactLocked(s, c) OBVIOUS
  <2>2. /\ t = [f \in StateFields |-> t[f]] /\ t.messages = s.messages
        /\ t.reach = s.reach /\ t.contacts = s.contacts \cup {c}
    BY <2>1 DEF ensureContactLocked, Touches, StateFields
  <2> QED BY <2>1, <2>2 DEF Touches
<1>2. Touches(s, ensureContactFromInviteLocked(s, ms))
  <2> DEFINE who == {m.who : m \in ms}
             known == {m.who : m \in {x \in ms : x.addr}}
  <2>1. PICK t : t = ensureContactFromInviteLocked(s, ms) OBVIOUS
  <2>2. known \subseteq who OBVIOUS
  <2>3. t = [s EXCEPT !.contacts = s.contacts \cup who, !.reach = s.reach \cup known]
    BY <2>1 DEF ensureContactFromInviteLocked, Touches, StateFields
  <2> HIDE DEF who, known
  <2>4. /\ t = [f \in StateFields |-> t[f]] /\ t.messages = s.messages
        /\ t.reach = s.reach \cup known /\ t.contacts = s.contacts \cup who
    BY Zenon, <2>3 DEF Touches, StateFields
  <2> QED BY <2>1, <2>2, <2>4 DEF Touches
<1>3. Touches(s, AddContactFromOffer(s, c))
  <2>1. PICK t : t = AddContactFromOffer(s, c) OBVIOUS
  <2>2. /\ t = [f \in StateFields |-> t[f]] /\ t.messages = s.messages
        /\ t.reach = s.reach \cup {c} /\ t.contacts = s.contacts \cup {c}
    BY Zenon, <2>1 DEF AddContactFromOffer, Touches, StateFields
  <2> QED BY <2>1, <2>2 DEF Touches
<1> QED BY <1>1, <1>2, <1>3

\* The roles an invite sets, and a removal.
LEMMA RolesTouch ==
  ASSUME NEW s, Touches(s, s), NEW id, NEW c, NEW d
  PROVE  /\ Touches(s, ensureGroupInviteRolesLocked(s, id, c, d))
         /\ Touches(s, removeGroupParticipantLocked(s, id, c))
<1>1. Touches(s, ensureGroupInviteRolesLocked(s, id, c, d))
  <2>1. PICK t : t = OwnerIfNone(s, id, c) OBVIOUS
  <2>2. Touches(s, t) BY <2>1, HelpersTouch
  <2>3. Touches(t, t) BY <2>2, TouchSelf
  <2>4. \A chats : Touches(t, [t EXCEPT !.chats = chats]) BY <2>3, ChatsChange
  <2>5. \E chats : ensureGroupInviteRolesLocked(s, id, c, d) = [t EXCEPT !.chats = chats]
    BY Zenon, <2>1 DEF ensureGroupInviteRolesLocked
  <2> QED BY <2>2, <2>4, <2>5, TouchTwice
<1>2. Touches(s, removeGroupParticipantLocked(s, id, c))
  <2>1. PICK u : u = [s EXCEPT !.chats[id].parts = @ \ {c}] BY Zenon
  <2>2. Touches(s, u) BY <2>1, ChatsChange
  <2>3. Touches(u, u) BY <2>2, TouchSelf
  <2>4. \A chats : Touches(u, [u EXCEPT !.chats = chats]) BY <2>3, ChatsChange
  <2>5. \E chats : removeGroupParticipantLocked(s, id, c) = [u EXCEPT !.chats = chats]
    BY Zenon, <2>1 DEF removeGroupParticipantLocked
  <2> QED BY <2>2, <2>4, <2>5, TouchTwice
<1> QED BY <1>1, <1>2

\* What a payload of each kind does to the store, before it is appended.
LEMMA ApplyTouches ==
  ASSUME NEW s, Touches(s, s), NEW self, NEW p, p.kind \in Kinds
  PROVE  Touches(s, ApplyKind(s, self, p))
<1>0. PICK t : t = ensureGroupChatLocked(s, p.chat, p.from) OBVIOUS
<1>1. Touches(s, t) /\ Touches(t, t) BY <1>0, HelpersTouch, TouchSelf
<1>2. CASE p.kind = "text"
  <2>1. ApplyKind(s, self, p) = ensureDirectChatLocked(s, p.chat, p.from) BY <1>2 DEF ApplyKind
  <2> QED BY <2>1, HelpersTouch
<1>3. CASE p.kind \in {"group", "post"}
  <2>1. ApplyKind(s, self, p) = t BY <1>0, <1>3 DEF ApplyKind, ensureCommunityChatLocked
  <2> QED BY <1>1, <2>1
<1>4. CASE p.kind = "invite"
  <2>1. PICK u : u = ensureContactFromInviteLocked(t, p.members) OBVIOUS
  <2>2. Touches(t, u) /\ Touches(u, u) BY <1>1, <2>1, ContactsTouch, TouchSelf
  <2>3. PICK v : v = ensureGroupParticipantLocked(u, p.chat,
                        {m.who : m \in p.members} \cup {self, p.from})
    BY Zenon
  <2>4. Touches(u, v) /\ Touches(v, v) BY <2>2, <2>3, HelpersTouch, TouchSelf
  <2>5. ApplyKind(s, self, p) = ensureGroupInviteRolesLocked(v, p.chat, p.from, self)
    BY <1>0, <1>4, <2>1, <2>3 DEF ApplyKind
  <2>6. Touches(v, ApplyKind(s, self, p)) BY <2>4, <2>5, RolesTouch
  <2>7. Touches(s, u) BY <1>1, <2>2, TouchTwice
  <2>8. Touches(s, v) BY <2>4, <2>7, TouchTwice
  <2> QED BY <2>6, <2>8, TouchTwice
<1>5. CASE p.kind = "join"
  <2>1. ApplyKind(s, self, p) = ensureGroupRoleLocked(t, p.chat, p.from, "member")
    BY <1>0, <1>5 DEF ApplyKind
  <2>2. Touches(t, ApplyKind(s, self, p)) BY <1>1, <2>1, HelpersTouch
  <2> QED BY <1>1, <2>2, TouchTwice
<1>6. CASE p.kind = "role"
  <2>1. PICK u : u = ensureGroupParticipantLocked(t, p.chat, {p.subject}) OBVIOUS
  <2>2. Touches(t, u) /\ Touches(u, u) BY <1>1, <2>1, HelpersTouch, TouchSelf
  <2>3. ApplyKind(s, self, p) \in {t, ensureGroupRoleLocked(u, p.chat, p.subject, p.role)}
    BY <1>0, <1>6, <2>1 DEF ApplyKind
  <2>4. Touches(u, ensureGroupRoleLocked(u, p.chat, p.subject, p.role)) BY <2>2, HelpersTouch
  <2>5. Touches(s, u) BY <1>1, <2>2, TouchTwice
  <2>6. Touches(s, ensureGroupRoleLocked(u, p.chat, p.subject, p.role))
    BY <2>4, <2>5, TouchTwice
  <2> QED BY <1>1, <2>3, <2>6
<1>7. CASE p.kind = "remove"
  <2>1. ApplyKind(s, self, p) \in {t, removeGroupParticipantLocked(t, p.chat, p.subject)}
    BY <1>0, <1>7 DEF ApplyKind
  <2>2. Touches(t, removeGroupParticipantLocked(t, p.chat, p.subject)) BY <1>1, RolesTouch
  <2>3. Touches(s, removeGroupParticipantLocked(t, p.chat, p.subject))
    BY <1>1, <2>2, TouchTwice
  <2> QED BY <1>1, <2>1, <2>3
<1> QED BY <1>2, <1>3, <1>4, <1>5, <1>6, <1>7 DEF Kinds

\* A message with an id that is new in its direction.
LEMMA AppendOk ==
  ASSUME next \in Nat, NEW s, StateOk(s), NEW t, Touches(s, t),
         NEW dir, NEW id \in Nat, id <= next, NEW p, NEW state,
         ~\E x \in s.messages : x.dir = dir /\ x.id = id,
         next' \in Nat, next' >= next, id < next'
  PROVE  LET u == AppendMessage(t, dir, id, p, state)
         IN  /\ StateOk(u)'
             /\ s.messages \subseteq u.messages
             /\ \E x \in u.messages : x.dir = dir /\ x.id = id
             /\ \A x \in u.messages : x \in s.messages \/ (x.dir = dir /\ x.id = id)
<1> DEFINE new == [dir |-> dir, id |-> id, chat |-> p.chat, kind |-> p.kind,
                   from |-> p.from, state |-> state,
                   copy |-> Cardinality({x \in t.messages : x.dir = dir /\ x.id = id})]
<1>1. PICK u : u = AppendMessage(t, dir, id, p, state) OBVIOUS
<1>2. u = [t EXCEPT !.messages = t.messages \cup {new}] BY <1>1 DEF AppendMessage
<1>3. new.dir = dir /\ new.id = id OBVIOUS
<1> HIDE DEF new
<1>4. /\ u = [f \in StateFields |-> u[f]] /\ u.messages = s.messages \cup {new}
      /\ u.reach \subseteq u.contacts
  BY <1>2 DEF Touches, StateFields
<1>5. \A x \in u.messages : x.id \in Nat /\ x.id < next'
  BY <1>3, <1>4 DEF StateOk
<1>6. \A x, y \in u.messages : x.dir = y.dir /\ x.id = y.id => x = y
  BY Zenon, <1>3, <1>4 DEF StateOk
<1>7. StateOk(u)' BY <1>4, <1>5, <1>6 DEF StateOk
<1> QED BY <1>1, <1>3, <1>4, <1>7

\* Relay ids only grow.
LEMMA StaysOk ==
  ASSUME NEW s, StateOk(s), next \in Nat, next' \in Nat, next' >= next
  PROVE  StateOk(s)'
BY DEF StateOk

\* A push adds one message with a new id to each recipient's mailbox.
LEMMA PushOk ==
  ASSUME StoreInv, NEW ps, \A c \in DOMAIN ps : AddressedTo(c, ps[c]),
         Pushed(ps), next' = next + 1
  PROVE  /\ next' \in Nat /\ next' >= next
         /\ mail' = [n \in People |-> mail'[n]]
         /\ \A n \in People : MailOk(n)' /\ mail[n] \subseteq mail'[n]
<1>1. next \in Nat BY DEF StoreInv
<1>2. mail' = [n \in People |-> mail'[n]] BY DEF Pushed
<1>3. ASSUME NEW n \in People PROVE MailOk(n)' /\ mail[n] \subseteq mail'[n]
  <2>0. /\ \A m \in mail[n] : m.id \in Nat /\ m.id < next /\ AddressedTo(n, m.p)
        /\ \A l, m \in mail[n] : l.id = m.id => l = m
    BY DEF StoreInv, PersonOk, MailOk
  <2>1. CASE n \notin DOMAIN ps
    <3>1. mail'[n] = mail[n] BY <2>1 DEF Pushed
    <3>2. \A m \in mail[n] : m.id < next' BY <1>1, <2>0
    <3> QED BY <2>0, <3>1, <3>2 DEF MailOk, AddressedTo
  <2>2. CASE n \in DOMAIN ps
    <3>1. PICK new : new = [id |-> next, p |-> ps[n]] BY Zenon
    <3>2. mail'[n] = mail[n] \cup {new} BY <2>2, <3>1 DEF Pushed
    <3>3. new.id = next /\ AddressedTo(n, new.p) BY <2>2, <3>1
    <3>4. \A m \in mail'[n] : m.id \in Nat /\ m.id < next' /\ AddressedTo(n, m.p)
      BY <1>1, <2>0, <3>2, <3>3
    <3>5. \A l, m \in mail'[n] : l.id = m.id => l = m
      BY <1>1, <2>0, <3>2, <3>3
    <3> QED BY <3>2, <3>4, <3>5 DEF MailOk, AddressedTo
  <2> QED BY <2>1, <2>2
<1> QED BY <1>1, <1>2, <1>3

\* Nothing of a person but the mailbox changes, and that grows.
LEMMA Bystander ==
  ASSUME next \in Nat, next' \in Nat, next' >= next, NEW k, PersonOk(k),
         chat'[k] = chat[k], sync'[k] = sync[k], acked'[k] = acked[k],
         MailOk(k)', mail[k] \subseteq mail'[k]
  PROVE  PersonOk(k)'
<1>1. StateOk(chat[k]) /\ Validate(chat[k]) /\ SyncOk(k) BY DEF PersonOk
<1>2. (StateOk(chat[k]) /\ Validate(chat[k]))'
  <2>1. PICK c : c = chat[k] OBVIOUS
  <2>2. StateOk(c)' BY <1>1, <2>1, StaysOk
  <2> QED BY Zenon, <1>1, <2>1, <2>2 DEF StateOk, Validate
<1>3. SyncOk(k)'
  <2>0. PICK c : c = sync[k].mem OBVIOUS
  <2>1. sync'[k].on => StateOk(c)' /\ sync'[k].mem = c
    BY <1>1, <2>0, StaysOk DEF SyncOk
  <2>4. sync'[k].on => StateOk(sync[k].mem)' BY <2>1 DEF StateOk
  <2>2. sync'[k].on =>
          /\ chat'[k].messages \subseteq sync'[k].mem.messages
          /\ sync'[k].todo \subseteq mail'[k]
          /\ \A m \in sync'[k].todo : Stored(sync'[k].mem, m) => Stored(chat'[k], m)
          /\ \A m \in sync'[k].acks : Stored(chat'[k], m)
    BY <1>1 DEF SyncOk
  <2>3. sync'[k] = [f \in SyncFields |-> sync'[k][f]] BY <1>1 DEF SyncOk
  <2> QED BY <2>2, <2>3, <2>4 DEF SyncOk, Stored
<1>4. (\A m \in acked[k] : Stored(chat[k], m))' BY DEF PersonOk, Stored
<1> QED BY <1>2, <1>3, <1>4 DEF PersonOk

\* A user call saves a store with the messages it had, and perhaps more.
LEMMA CallSaves ==
  ASSUME StoreInv, NEW n \in People, ~sync[n].on, UNCHANGED <<sync, acked>>,
         NEW u, StateOk(u)', Save(n, u),
         \A m : Stored(chat[n], m) => Stored(u, m),
         next' \in Nat, next' >= next,
         mail' = [k \in People |-> mail'[k]],
         \A k \in People : MailOk(k)' /\ mail[k] \subseteq mail'[k]
  PROVE  StoreInv'
<1>0. next \in Nat /\ chat = [k \in People |-> chat[k]] /\ \A k \in People : PersonOk(k)
  BY DEF StoreInv
<1>1. CASE ~Validate(u)
  <2>1. chat' = chat BY <1>1 DEF Save
  <2>2. \A k \in People : PersonOk(k)' BY <1>0, <2>1, Bystander
  <2> QED BY <2>1, <2>2 DEF StoreInv
<1>2. CASE Validate(u)
  <2>1. chat' = [k \in People |-> chat'[k]] /\ chat'[n] = u
        /\ \A k \in People \ {n} : chat'[k] = chat[k]
    BY <1>0, <1>2 DEF Save
  <2>2. \A k \in People \ {n} : PersonOk(k)' BY Zenon, <1>0, <2>1, Bystander
  <2>3. PersonOk(n)'
    <3>1. (StateOk(chat[n]) /\ Validate(chat[n]))' BY <1>2, <2>1 DEF StateOk, Validate
    <3>2. SyncOk(n)' BY <1>0 DEF PersonOk, SyncOk
    <3>3. (\A m \in acked[n] : Stored(chat[n], m))' BY <1>0, <2>1 DEF PersonOk, Stored
    <3> QED BY <3>1, <3>2, <3>3 DEF PersonOk
  <2> QED BY <2>1, <2>2, <2>3 DEF StoreInv
<1> QED BY <1>1, <1>2

\* A call that pushes a payload, and one that does not.
LEMMA SendSaves ==
  ASSUME StoreInv, NEW n \in People, UserCall(n),
         NEW s, Touches(chat[n], s), NEW to, NEW p, SendCall(n, s, to, p),
         \A c \in to : AddressedTo(c, p)
  PROVE  StoreInv'
<1>0. next \in Nat /\ StateOk(chat[n]) BY DEF StoreInv, PersonOk
<1>1. PICK D \in sendPayloadToContact(s, to) : Pushed([c \in D |-> p]) BY DEF SendCall
<1>2. D \subseteq to BY <1>1 DEF sendPayloadToContact
<1>3. PICK ps : ps = [c \in D |-> p] BY Zenon
<1>4. \A c \in DOMAIN ps : AddressedTo(c, ps[c]) BY <1>2, <1>3
<1>5. next' = next + 1 /\ Pushed(ps) /\ Save(n, Outgoing(s, p))
  BY <1>1, <1>3 DEF SendCall
<1>6. /\ next' \in Nat /\ next' >= next /\ mail' = [k \in People |-> mail'[k]]
      /\ \A k \in People : MailOk(k)' /\ mail[k] \subseteq mail'[k]
  BY <1>4, <1>5, PushOk
<1>7. ~\E x \in chat[n].messages : x.dir = "out" /\ x.id = next BY <1>0 DEF StateOk
<1>8. PICK u : u = AppendMessage(s, "out", next, p, "sent") OBVIOUS
<1>9. next < next' /\ next <= next BY <1>0, <1>5
<1>10. StateOk(u)' /\ chat[n].messages \subseteq u.messages
  BY <1>0, <1>6, <1>7, <1>8, <1>9, AppendOk
<1>11. \A m : Stored(chat[n], m) => Stored(u, m) BY <1>10 DEF Stored
<1>12. Save(n, u) BY <1>5, <1>8 DEF Outgoing
<1> QED BY <1>6, <1>10, <1>11, <1>12, CallSaves DEF UserCall

\* A call that pushes nothing saves the contacts and chats it changed.
LEMMA LocalSaves ==
  ASSUME StoreInv, NEW n \in People, UserCall(n),
         NEW s, Touches(chat[n], s), LocalCall(n, s)
  PROVE  StoreInv'
<1>0. next \in Nat /\ StateOk(chat[n]) BY DEF StoreInv, PersonOk
<1>1. next' = next /\ mail' = mail /\ Save(n, s) BY DEF LocalCall
<1>2. StateOk(s)' BY <1>0, <1>1 DEF StateOk, Touches
<1>3. \A k \in People : MailOk(k)' BY <1>1 DEF StoreInv, PersonOk, MailOk, AddressedTo
<1>4. \A m : Stored(chat[n], m) => Stored(s, m) BY DEF Stored, Touches
<1>5. next' \in Nat /\ next' >= next BY <1>0, <1>1
<1>6. mail' = [k \in People |-> mail'[k]] BY <1>1 DEF StoreInv
<1> QED BY <1>1, <1>2, <1>3, <1>4, <1>5, <1>6, CallSaves DEF UserCall

\* Marking a message replaces it by itself in another state.
LEMMA MarkSaves ==
  ASSUME StoreInv, NEW n \in People, UserCall(n),
         NEW m \in chat[n].messages, ChatMarkMessageState(n, m, "read")
  PROVE  StoreInv'
<1>0. next \in Nat /\ StateOk(chat[n]) BY DEF StoreInv, PersonOk
<1>1. PICK r : r = [m EXCEPT !.state = "read"] BY Zenon
<1>2. PICK s : s = [chat[n] EXCEPT !.messages = (chat[n].messages \ {m}) \cup {r}] BY Zenon
<1>3. next' = next /\ mail' = mail /\ Save(n, s)
  BY <1>1, <1>2 DEF ChatMarkMessageState, MarkMessageState, LocalCall
<1>4. r.dir = m.dir /\ r.id = m.id BY <1>1
<1>5. /\ s = [f \in StateFields |-> s[f]] /\ s.reach \subseteq s.contacts
      /\ s.messages = (chat[n].messages \ {m}) \cup {r}
  BY <1>0, <1>2 DEF StateOk, StateFields
<1>6. \A x \in s.messages : x.id \in Nat /\ x.id < next BY <1>0, <1>4, <1>5 DEF StateOk
<1>7. \A x, y \in s.messages : x.dir = y.dir /\ x.id = y.id => x = y
  BY <1>0, <1>4, <1>5 DEF StateOk
<1>8. StateOk(s)' BY <1>3, <1>5, <1>6, <1>7 DEF StateOk
<1>9. \A k \in People : MailOk(k)' BY <1>3 DEF StoreInv, PersonOk, MailOk, AddressedTo
<1>10. \A l : Stored(chat[n], l) => Stored(s, l) BY <1>4, <1>5 DEF Stored
<1>11. next' \in Nat /\ next' >= next BY <1>0, <1>3
<1>12. mail' = [k \in People |-> mail'[k]] BY <1>3 DEF StoreInv
<1> QED BY <1>3, <1>8, <1>9, <1>10, <1>11, <1>12, CallSaves DEF UserCall

\* The payloads, and whom they may reach.
LEMMA Addressing ==
  ASSUME NEW n, NEW c, NEW d, NEW ms, NEW role
  PROVE  /\ AddressedTo(c, EncodeText(n, d))
         /\ AddressedTo(c, EncodeGroupText(n)) /\ AddressedTo(c, EncodeGroupJoin(n))
         /\ AddressedTo(c, EncodeCommunityPost(n)) /\ AddressedTo(c, EncodeGroupRole(n, d, role))
         /\ AddressedTo(c, EncodeGroupRemove(n, d)) /\ AddressedTo(c, EncodeGroupInvite(n, c, ms))
         /\ AddressedTo(c, EncodeGroupInvite(n, NoOne, ms))
BY DEF AddressedTo, Kinds, Payload, EncodeText, EncodeGroupText, EncodeGroupJoin,
       EncodeCommunityPost, EncodeGroupRole, EncodeGroupRemove, EncodeGroupInvite

\* Every call of the user.
LEMMA CallInv ==
  ASSUME StoreInv, NEW n \in People, UserCall(n), ChatCall(n)
  PROVE  StoreInv'
<1>0. PICK s : s = chat[n] OBVIOUS
<1>1. Touches(s, s) BY <1>0 DEF StoreInv, PersonOk, StateOk, Touches
<1>2. PICK g : g = ensureGroupParticipantLocked(ensureContactLocked(s, n), GroupID, {n}) OBVIOUS
<1>3. PICK t : t = OwnerIfNone(g, GroupID, n) OBVIOUS
<1>4. Touches(s, t) /\ Touches(t, t)
  <2>1. PICK e : e = ensureContactLocked(s, n) OBVIOUS
  <2>2. Touches(s, e) /\ Touches(e, e) BY <1>1, <2>1, ContactsTouch, TouchSelf
  <2>3. Touches(e, g) /\ Touches(g, g) BY <1>2, <2>1, <2>2, HelpersTouch, TouchSelf
  <2>4. Touches(g, t) /\ Touches(t, t) BY <1>3, <2>3, HelpersTouch, TouchSelf
  <2>5. Touches(s, g) BY <2>2, <2>3, TouchTwice
  <2> QED BY <2>4, <2>5, TouchTwice
<1>5. ASSUME NEW c \in People, ChatAddContactFromOffer(n, c) PROVE StoreInv'
  <2>1. LocalCall(n, AddContactFromOffer(s, c)) BY <1>0, <1>5 DEF ChatAddContactFromOffer
  <2>2. Touches(s, AddContactFromOffer(s, c)) BY <1>1, ContactsTouch
  <2> QED BY <1>0, <2>1, <2>2, LocalSaves
<1>6. ASSUME NEW c \in People, ChatSendText(n, c) PROVE StoreInv'
  <2>1. PICK u : u = ensureDirectChatLocked(s, DirectChatID(n, c), c) OBVIOUS
  <2>2. SendCall(n, u, {c} \cap s.contacts, EncodeText(n, c))
    BY <1>0, <1>6, <2>1 DEF ChatSendText, SendTextToContact
  <2>3. Touches(s, u) BY <1>1, <2>1, HelpersTouch
  <2> QED BY <1>0, <2>2, <2>3, SendSaves, Addressing
<1>7. ASSUME NEW c \in People, ChatInviteToGroup(n, c) PROVE StoreInv'
  <2>1. PICK ms : ms = {GroupMember(t, x) : x \in (t.chats[GroupID].parts \ {c}) \cap t.contacts}
    BY Zenon
  <2>2. PICK u : u = ensureGroupParticipantLocked(t, GroupID, {c}) OBVIOUS
  <2>3. PICK v : v = ensureGroupRoleLocked(u, GroupID, c, "member") OBVIOUS
  <2>4. SendCall(n, v, {c}, EncodeGroupInvite(n, c, ms))
    BY <1>0, <1>2, <1>3, <1>7, <2>1, <2>2, <2>3 DEF ChatInviteToGroup, InviteToGroup
  <2>5. Touches(t, u) /\ Touches(u, u) BY <1>4, <2>2, HelpersTouch, TouchSelf
  <2>6. Touches(u, v) BY <2>3, <2>5, HelpersTouch
  <2>7. Touches(s, u) BY <1>4, <2>5, TouchTwice
  <2>8. Touches(s, v) BY <2>6, <2>7, TouchTwice
  <2>9. \A x \in {c} : AddressedTo(x, EncodeGroupInvite(n, c, ms)) BY Addressing
  <2> QED BY <1>0, <2>4, <2>8, <2>9, SendSaves
<1>8. ASSUME NEW c \in People, ChatRemoveFromGroup(n, c) PROVE StoreInv'
  <2>1. PICK u : u = removeGroupParticipantLocked(s, GroupID, c) OBVIOUS
  <2>2. SendCall(n, u, (s.chats[GroupID].parts \cap s.contacts) \cup {c}, EncodeGroupRemove(n, c))
    BY <1>0, <1>8, <2>1 DEF ChatRemoveFromGroup, RemoveFromGroup
  <2>3. Touches(s, u) BY <1>1, <2>1, RolesTouch
  <2> QED BY <1>0, <2>2, <2>3, SendSaves, Addressing
<1>9. ASSUME NEW c \in People, NEW r \in Roles, ChatSetGroupRole(n, c, r) PROVE StoreInv'
  <2>1. PICK u : u = ensureGroupParticipantLocked(s, GroupID, {c}) OBVIOUS
  <2>2. PICK v : v = ensureGroupRoleLocked(u, GroupID, c, r) OBVIOUS
  <2>3. SendCall(n, v, (s.chats[GroupID].parts \cap s.contacts) \cup {c}, EncodeGroupRole(n, c, r))
    BY <1>0, <1>9, <2>1, <2>2 DEF ChatSetGroupRole, SetGroupRole
  <2>4. Touches(s, u) /\ Touches(u, u) BY <1>1, <2>1, HelpersTouch, TouchSelf
  <2>5. Touches(u, v) BY <2>2, <2>4, HelpersTouch
  <2>6. Touches(s, v) BY <2>4, <2>5, TouchTwice
  <2> QED BY <1>0, <2>3, <2>6, SendSaves, Addressing
<1>10. ASSUME NEW cs \in SUBSET People, ChatCreateGroup(n, cs) \/ ChatCreateCommunityRoom(n, cs)
       PROVE  StoreInv'
  <2>1. \/ LocalCall(n, WithChat(s, GroupID, NewChat(cs)))
        \/ LocalCall(n, WithChat(s, RoomID, NewChat(cs)))
    BY <1>0, <1>10 DEF ChatCreateGroup, CreateGroup, ChatCreateCommunityRoom, CreateCommunityRoom
  <2>2. \A id, ch : Touches(s, WithChat(s, id, ch)) BY <1>1, HelpersTouch
  <2> QED BY <1>0, <2>1, <2>2, LocalSaves
<1>11. CASE ChatSendGroupText(n)
  <2>1. PICK u : u = IF n \in s.chats[GroupID].parts THEN s ELSE t OBVIOUS
  <2>2. SendCall(n, u, u.chats[GroupID].parts, EncodeGroupText(n))
    BY <1>0, <1>2, <1>3, <1>11, <2>1 DEF ChatSendGroupText, SendGroupText
  <2>3. Touches(s, u) BY <1>1, <1>4, <2>1
  <2> QED BY <1>0, <2>2, <2>3, SendSaves, Addressing
<1>12. CASE ChatJoinGroup(n)
  <2>1. SendCall(n, s, s.chats[GroupID].parts \cap s.contacts, EncodeGroupJoin(n))
    BY <1>0, <1>12 DEF ChatJoinGroup, JoinGroup
  <2> QED BY <1>0, <1>1, <2>1, SendSaves, Addressing
<1>13. CASE ChatSendCommunityPost(n)
  <2>1. SendCall(n, s, s.chats[RoomID].parts, EncodeCommunityPost(n))
    BY <1>0, <1>13 DEF ChatSendCommunityPost, SendCommunityPost
  <2> QED BY <1>0, <1>1, <2>1, SendSaves, Addressing
<1>14. ASSUME NEW m \in chat[n].messages, ChatMarkMessageState(n, m, "read") PROVE StoreInv'
  BY <1>14, MarkSaves
<1> QED BY <1>5, <1>6, <1>7, <1>8, <1>9, <1>10, <1>11, <1>12, <1>13, <1>14 DEF ChatCall

\* The copy of the next state.
LEMMA CopyOk ==
  ASSUME NEW n, NEW s, StateOk(s)', sync'[n].mem = s
  PROVE  StateOk(sync[n].mem)'
BY DEF StateOk

\* What a step of a pass does to its copy s, to the disk c and to the list of
\* messages to acknowledge.
LEMMA PassStep ==
  ASSUME StoreInv, NEW n \in People, NEW m \in sync[n].todo, sync[n].on,
         NEW s, StateOk(s)', sync[n].mem.messages \subseteq s.messages,
         \A x \in s.messages : x \in sync[n].mem.messages \/ (x.dir = "in" /\ x.id = m.id),
         NEW c, StateOk(c)', Validate(c),
         chat[n].messages \subseteq c.messages, c.messages \subseteq s.messages,
         NEW acks, \A l \in acks : l \in sync[n].acks \/ Stored(c, l),
         chat' = [chat EXCEPT ![n] = c],
         NEW new, new = [f \in SyncFields |-> new[f]], new.on, new.mem = s,
         new.todo = sync[n].todo \ {m}, new.acks = acks, sync' = [sync EXCEPT ![n] = new],
         acked' = acked, next' \in Nat, next' >= next,
         mail' = [k \in People |-> mail'[k]],
         \A k \in People : MailOk(k)' /\ mail[k] \subseteq mail'[k]
  PROVE  StoreInv'
<1>0. /\ next \in Nat /\ chat = [k \in People |-> chat[k]] /\ sync = [k \in People |-> sync[k]]
      /\ acked = [k \in People |-> acked[k]] /\ \A k \in People : PersonOk(k)
  BY DEF StoreInv
<1>1. /\ chat' = [k \in People |-> chat'[k]] /\ chat'[n] = c
      /\ \A k \in People \ {n} : chat'[k] = chat[k]
  BY Zenon, <1>0
<1>2. /\ sync' = [k \in People |-> sync'[k]] /\ sync'[n] = new
      /\ \A k \in People \ {n} : sync'[k] = sync[k]
  BY Zenon, <1>0
<1>3. \A k \in People \ {n} : PersonOk(k)' BY <1>0, <1>1, <1>2, Bystander
<1>4. PersonOk(n)'
  <2>0. SyncOk(n) /\ MailOk(n) BY <1>0 DEF PersonOk
  <2>1. (StateOk(chat[n]) /\ Validate(chat[n]))' BY Zenon, <1>1 DEF StateOk, Validate
  <2>2. \A l \in new.todo : Stored(s, l) => Stored(c, l)
    <3> SUFFICES ASSUME NEW l \in new.todo, Stored(s, l) PROVE Stored(c, l) OBVIOUS
    <3>1. l \in sync[n].todo /\ l # m OBVIOUS
    <3>2. l.id # m.id BY Zenon, <2>0, <3>1 DEF SyncOk, MailOk
    <3>3. Stored(sync[n].mem, l) BY <3>2 DEF Stored
    <3>4. Stored(chat[n], l) BY <2>0, <3>1, <3>3 DEF SyncOk
    <3> QED BY <3>4 DEF Stored
  <2>3. \A l \in acks : Stored(c, l) BY Zenon, <2>0 DEF SyncOk, Stored
  <2>4. new.todo \subseteq mail'[n] BY Zenon, <2>0 DEF SyncOk
  <2>5. StateOk(sync[n].mem)'
    <3>1. sync'[n].mem = s BY <1>2
    <3> QED BY <3>1, CopyOk
  <2>6. SyncOk(n)' BY Zenon, <1>1, <1>2, <2>2, <2>3, <2>4, <2>5 DEF SyncOk, Stored
  <2>7. (\A l \in acked[n] : Stored(chat[n], l))' BY <1>0, <1>1 DEF PersonOk, Stored
  <2> QED BY <2>1, <2>6, <2>7 DEF PersonOk
<1> QED BY <1>0, <1>1, <1>2, <1>3, <1>4 DEF StoreInv

\* The update invites after a join reach whom they are for.
LEMMA BroadcastAddressed ==
  ASSUME NEW s, NEW self, NEW m, NEW c \in DOMAIN ApplyIncomingWithRelay(s, self, m)
  PROVE  AddressedTo(c, ApplyIncomingWithRelay(s, self, m)[c])
<1>1. PICK new : new = m.p.from OBVIOUS
<1>2. CASE ApplyIncomingWithRelay(s, self, m) = <<>>
  BY <1>2
<1>3. CASE ApplyIncomingWithRelay(s, self, m) # <<>>
  <2>1. PICK known : known = s.chats[GroupID].parts \cap s.contacts BY Zenon
  <2>2. PICK ms : ms = {GroupMember(s, x) : x \in known \ {new}} BY Zenon
  <2>3. ApplyIncomingWithRelay(s, self, m) =
          [x \in ((known \ {new}) \cap s.reach) \cup {new} |->
             IF x = new THEN EncodeGroupInvite(self, new, ms)
             ELSE EncodeGroupInvite(self, NoOne, {GroupMember(s, new)})]
    BY <1>1, <1>3, <2>1, <2>2 DEF ApplyIncomingWithRelay, broadcastGroupMemberAdded
  <2> QED BY <2>3, Addressing
<1> QED BY <1>2, <1>3

\* ChatSyncOnce takes a message: known already, or new and saved, or new and
\* refused by Save.
LEMMA SyncApplyInv ==
  ASSUME StoreInv, NEW n \in People, NEW m \in sync[n].todo, ChatSyncApply(n, m)
  PROVE  StoreInv'
<1>0. /\ next \in Nat /\ PersonOk(n) /\ sync[n].on /\ acked' = acked
      /\ chat = [k \in People |-> chat[k]]
  BY DEF StoreInv, ChatSyncApply
<1>1. SyncOk(n) /\ MailOk(n) /\ StateOk(chat[n]) /\ Validate(chat[n]) BY <1>0 DEF PersonOk
<1>2. PICK mem : mem = sync[n].mem OBVIOUS
<1>3. PICK s : s = ApplyIncoming(mem, n, m) OBVIOUS
<1>4. PICK ps : ps = IF s = mem \/ Validate(s) THEN ApplyIncomingWithRelay(s, n, m) ELSE <<>>
  OBVIOUS
<1>5. PICK acks : acks = IF s = mem \/ Validate(s) THEN sync[n].acks \cup {m} ELSE sync[n].acks
  BY Zenon
<1>6. /\ sync' = [sync EXCEPT ![n].mem = s, ![n].todo = @ \ {m}, ![n].acks = acks]
      /\ IF s = mem THEN chat' = chat ELSE Save(n, s)
      /\ IF ps = <<>> THEN UNCHANGED <<mail, next>>
         ELSE /\ \E D \in sendPayloadToContact(s, DOMAIN ps) : Pushed(Restrict(ps, D))
              /\ next' = next + 1
  BY <1>2, <1>3, <1>4, <1>5 DEF ChatSyncApply
<1>7. m.id \in Nat /\ m.id < next /\ AddressedTo(n, m.p) /\ StateOk(mem)
      /\ chat[n].messages \subseteq mem.messages /\ (Stored(mem, m) => Stored(chat[n], m))
  BY <1>0, <1>1, <1>2 DEF SyncOk, MailOk
<1>8. /\ next' \in Nat /\ next' >= next /\ mail' = [k \in People |-> mail'[k]]
      /\ \A k \in People : MailOk(k)' /\ mail[k] \subseteq mail'[k]
  <2>1. CASE ps = <<>>
    <3>1. next' = next /\ mail' = mail BY <1>6, <2>1
    <3>2. \A k \in People : MailOk(k)' BY <3>1 DEF StoreInv, PersonOk, MailOk, AddressedTo
    <3> QED BY <1>0, <3>1, <3>2 DEF StoreInv
  <2>2. CASE ps # <<>>
    <3>1. next' = next + 1 BY <1>6, <2>2
    <3>2. PICK D \in sendPayloadToContact(s, DOMAIN ps) : Pushed(Restrict(ps, D)) BY <1>6, <2>2
    <3>3. D \subseteq DOMAIN ps BY <3>2 DEF sendPayloadToContact
    <3>4. ps = ApplyIncomingWithRelay(s, n, m) BY <1>4, <2>2
    <3>5. \A c \in DOMAIN ps : AddressedTo(c, ps[c]) BY <3>4, BroadcastAddressed
    <3>6. PICK qs : qs = Restrict(ps, D) OBVIOUS
    <3>7. \A c \in DOMAIN qs : AddressedTo(c, qs[c]) BY <3>3, <3>5, <3>6 DEF Restrict
    <3> QED BY <3>1, <3>2, <3>6, <3>7, PushOk
  <2> QED BY <2>1, <2>2
<1>9. PICK new : /\ new = [f \in SyncFields |-> new[f]] /\ new.on /\ new.mem = s
                 /\ new.todo = sync[n].todo \ {m} /\ new.acks = acks
                 /\ sync' = [sync EXCEPT ![n] = new]
  <2>1. PICK old : old = sync[n] OBVIOUS
  <2>2. PICK new : new = [old EXCEPT !.mem = s, !.todo = old.todo \ {m}, !.acks = acks] OBVIOUS
  <2>3. old = [f \in SyncFields |-> old[f]] /\ old.on BY <1>0, <1>1, <2>1 DEF SyncOk
  <2>4. /\ new = [f \in SyncFields |-> new[f]] /\ new.mem = s /\ new.todo = old.todo \ {m}
        /\ new.acks = acks /\ new.on = old.on
    BY Zenon, <2>2, <2>3 DEF SyncFields
  <2>5. sync = [k \in People |-> sync[k]] BY DEF StoreInv
  <2>6. sync' = [sync EXCEPT ![n] = new] BY Zenon, <1>6, <2>1, <2>2, <2>3, <2>5 DEF SyncFields
  <2> QED BY Zenon, <2>1, <2>3, <2>4, <2>6
<1>10. PICK disk : disk = chat[n] OBVIOUS
<1>11. StateOk(disk)' /\ StateOk(mem)' BY <1>0, <1>1, <1>7, <1>8, <1>10, StaysOk
<1>12. chat = [chat EXCEPT ![n] = disk] BY <1>0, <1>10
<1>13. CASE Stored(mem, m)
  <2>1. s = mem BY <1>3, <1>13 DEF ApplyIncoming, Duplicate, Stored
  <2>2. chat' = [chat EXCEPT ![n] = disk] BY <1>6, <1>12, <2>1
  <2>3. \A l \in acks : l \in sync[n].acks \/ Stored(disk, l)
    BY <1>5, <1>7, <1>10, <1>13
  <2> QED BY Zenon, <1>0, <1>1, <1>2, <1>7, <1>8, <1>9, <1>10, <1>11, <2>1, <2>2, <2>3, PassStep
<1>14. CASE ~Stored(mem, m)
  <2>1. PICK t : t = ApplyKind(ensureContactLocked(mem, m.p.from), n, m.p) OBVIOUS
  <2>2. Touches(mem, t)
    <3>1. PICK e : e = ensureContactLocked(mem, m.p.from) OBVIOUS
    <3>2. Touches(mem, mem) BY <1>7 DEF StateOk, Touches
    <3>3. Touches(mem, e) /\ Touches(e, e) BY <3>1, <3>2, ContactsTouch, TouchSelf
    <3>4. Touches(e, t) BY <1>7, <2>1, <3>1, <3>3, ApplyTouches DEF AddressedTo
    <3> QED BY <3>3, <3>4, TouchTwice
  <2>3. s = AppendMessage(t, "in", m.id, m.p, "delivered")
    BY <1>3, <1>7, <1>14, <2>1 DEF ApplyIncoming, Duplicate, Stored, AddressedTo
  <2>4. ~\E x \in mem.messages : x.dir = "in" /\ x.id = m.id BY <1>14 DEF Stored
  <2>5. m.id <= next /\ m.id < next' BY <1>0, <1>7, <1>8
  <2>6. /\ StateOk(s)' /\ mem.messages \subseteq s.messages
        /\ \E x \in s.messages : x.dir = "in" /\ x.id = m.id
        /\ \A x \in s.messages : x \in mem.messages \/ (x.dir = "in" /\ x.id = m.id)
    BY <1>0, <1>7, <1>8, <2>2, <2>3, <2>4, <2>5, AppendOk
  <2>7. Stored(s, m) /\ s # mem BY <1>14, <2>6 DEF Stored
  <2>8. CASE Validate(s)
    <3>1. chat' = [chat EXCEPT ![n] = s] BY <1>6, <2>7, <2>8 DEF Save
    <3>2. \A l \in acks : l \in sync[n].acks \/ Stored(s, l) BY <1>5, <2>7
    <3>3. chat[n].messages \subseteq s.messages BY <1>7, <2>6
    <3> QED BY Zenon, <1>0, <1>2, <1>8, <1>9, <2>6, <2>8, <3>1, <3>2, <3>3, PassStep
  <2>9. CASE ~Validate(s)
    <3>1. chat' = [chat EXCEPT ![n] = disk] BY <1>6, <1>12, <2>7, <2>9 DEF Save
    <3>2. \A l \in acks : l \in sync[n].acks \/ Stored(disk, l) BY <1>5, <2>7, <2>9
    <3>3. disk.messages \subseteq s.messages BY <1>7, <1>10, <2>6
    <3> QED BY Zenon, <1>0, <1>1, <1>2, <1>8, <1>9, <1>10, <1>11, <2>6, <3>1, <3>2, <3>3, PassStep
  <2> QED BY <2>8, <2>9
<1> QED BY <1>13, <1>14

\* A pass begins with the disk's store and the mail there is.
LEMMA SyncStartInv ==
  ASSUME StoreInv, NEW n \in People, ChatSyncStart(n)
  PROVE  StoreInv'
<1>0. /\ next \in Nat /\ sync = [k \in People |-> sync[k]] /\ \A k \in People : PersonOk(k)
      /\ UNCHANGED <<chat, mail, next, acked>>
  BY DEF StoreInv, ChatSyncStart
<1>1. PICK new : new = [Idle EXCEPT !.on = TRUE, !.mem = chat[n], !.todo = mail[n]] OBVIOUS
<1>2. /\ new = [f \in SyncFields |-> new[f]] /\ new.mem = chat[n] /\ new.todo = mail[n]
      /\ new.acks = {}
  BY Zenon, <1>1 DEF Idle, SyncFields
<1>3. sync' = [sync EXCEPT ![n] = new] BY <1>1 DEF ChatSyncStart
<1>4. /\ sync' = [k \in People |-> sync'[k]] /\ sync'[n] = new
      /\ \A k \in People \ {n} : sync'[k] = sync[k]
  BY <1>0, <1>3
<1>5. \A k \in People : MailOk(k)' BY <1>0 DEF PersonOk, MailOk, AddressedTo
<1>6. \A k \in People \ {n} : PersonOk(k)' BY <1>0, <1>4, <1>5, Bystander
<1>7. (StateOk(chat[n]) /\ Validate(chat[n]))' BY <1>0 DEF PersonOk, StateOk, Validate
<1>8. StateOk(sync[n].mem)'
  <2>1. sync'[n].mem = chat'[n] BY <1>0, <1>2, <1>4
  <2> QED BY <1>7, <2>1 DEF StateOk
<1>9. SyncOk(n)' BY <1>0, <1>2, <1>4, <1>8 DEF SyncOk, Stored
<1>10. (\A m \in acked[n] : Stored(chat[n], m))' BY <1>0 DEF PersonOk, Stored
<1>11. PersonOk(n)' BY <1>5, <1>7, <1>9, <1>10 DEF PersonOk
<1> QED BY <1>0, <1>4, <1>6, <1>11 DEF StoreInv

\* A pass ends, with its acknowledgement or without.
LEMMA SyncEndInv ==
  ASSUME StoreInv, NEW n \in People, ChatSyncAck(n) \/ ChatSyncLost(n)
  PROVE  StoreInv'
<1>0. /\ next \in Nat /\ sync = [k \in People |-> sync[k]] /\ \A k \in People : PersonOk(k)
      /\ mail = [k \in People |-> mail[k]] /\ acked = [k \in People |-> acked[k]]
      /\ chat = [k \in People |-> chat[k]]
      /\ sync[n].on /\ UNCHANGED <<chat, next>> /\ sync' = [sync EXCEPT ![n] = Idle]
  BY DEF StoreInv, ChatSyncAck, ChatSyncLost
<1>1. /\ mail' = [k \in People |-> mail'[k]] /\ mail'[n] \subseteq mail[n]
      /\ \A k \in People \ {n} : mail'[k] = mail[k]
  BY <1>0 DEF ChatSyncAck, ChatSyncLost
<1>2. /\ acked' = [k \in People |-> acked'[k]] /\ acked'[n] \subseteq acked[n] \cup sync[n].acks
      /\ \A k \in People \ {n} : acked'[k] = acked[k]
  BY <1>0 DEF ChatSyncAck, ChatSyncLost
<1>3. /\ sync' = [k \in People |-> sync'[k]] /\ sync'[n] = Idle
      /\ \A k \in People \ {n} : sync'[k] = sync[k]
  BY <1>0
<1>4. \A k \in People : MailOk(k)'
  <2> SUFFICES ASSUME NEW k \in People PROVE MailOk(k)' OBVIOUS
  <2>1. MailOk(k) /\ mail'[k] \subseteq mail[k] BY <1>0, <1>1 DEF PersonOk
  <2> QED BY <1>0, <2>1 DEF MailOk, AddressedTo
<1>5. ASSUME NEW k \in People \ {n} PROVE PersonOk(k)'
  <2>1. chat'[k] = chat[k] /\ sync'[k] = sync[k] /\ acked'[k] = acked[k] BY <1>0, <1>2, <1>3
  <2>2. mail[k] \subseteq mail'[k] BY <1>1
  <2>3. next' \in Nat /\ next' >= next BY <1>0
  <2>4. PersonOk(k) /\ MailOk(k)' BY <1>0, <1>4
  <2> QED BY <1>0, <2>1, <2>2, <2>3, <2>4, Bystander
<1>6. (StateOk(chat[n]) /\ Validate(chat[n]))' BY <1>0 DEF PersonOk, StateOk, Validate
<1>7. SyncOk(n)'
  <2>1. PICK idle : idle = Idle OBVIOUS
  <2>2. idle = [f \in SyncFields |-> idle[f]] /\ ~idle.on BY Zenon, <2>1 DEF Idle, SyncFields
  <2>3. sync'[n] = idle BY <1>3, <2>1
  <2> QED BY <2>2, <2>3 DEF SyncOk
<1>8. (\A m \in acked[n] : Stored(chat[n], m))'
  BY <1>0, <1>2 DEF PersonOk, SyncOk, Stored
<1>9. PersonOk(n)' BY <1>4, <1>6, <1>7, <1>8 DEF PersonOk
<1> QED BY <1>0, <1>1, <1>2, <1>3, <1>5, <1>9 DEF StoreInv

\* Every step of the chat keeps the invariant.
LEMMA StoreStep ==
  StoreInv /\ [ChatNext]_chatVars => StoreInv'
<1> SUFFICES ASSUME StoreInv, [ChatNext]_chatVars PROVE StoreInv' OBVIOUS
<1>1. CASE UNCHANGED chatVars
  BY <1>1 DEF chatVars, StoreInv, PersonOk, StateOk, Validate, MailOk, AddressedTo, SyncOk, Stored
<1>2. CASE ChatNext
  BY <1>2, CallInv, SyncStartInv, SyncApplyInv, SyncEndInv DEF ChatNext
<1> QED BY <1>1, <1>2

\* Nothing is stored, sent or acknowledged at first.
LEMMA StoreInit ==
  ChatInit => StoreInv
<1> SUFFICES ASSUME ChatInit PROVE StoreInv OBVIOUS
<1>1. ASSUME NEW n \in People PROVE PersonOk(n)
  <2>1. PICK cs : cs = {c \in People : <<n, c>> \in Befriended} BY Zenon
  <2>2. chat[n] = [NewState EXCEPT !.contacts = cs, !.reach = cs] BY Zenon, <2>1 DEF ChatInit
  <2>3. /\ chat[n] = [f \in StateFields |-> chat[n][f]] /\ chat[n].messages = {}
        /\ chat[n].reach = cs /\ chat[n].contacts = cs /\ chat[n].chats = <<>>
    BY Zenon, <2>2 DEF NewState, StateFields
  <2>4. StateOk(chat[n]) /\ Validate(chat[n]) BY <2>3 DEF StateOk, Validate
  <2>5. MailOk(n) BY Zenon DEF ChatInit, MailOk
  <2>6. SyncOk(n) BY Zenon DEF ChatInit, SyncOk, Idle, SyncFields
  <2>7. acked[n] = {} BY Zenon DEF ChatInit
  <2> QED BY <2>4, <2>5, <2>6, <2>7 DEF PersonOk
<1>2. next \in Nat BY Zenon DEF ChatInit
<1> QED BY Zenon, <1>1, <1>2 DEF ChatInit, StoreInv

\* What is on disk always loads again, a relay message is stored once at most
\* however often it is delivered, and what ChatSyncOnce has acknowledged is in
\* the receiver's store.
THEOREM ChatStoresSafe == ChatSpec => []ChatInv
<1>1. StoreInv => ChatInv
  BY DEF StoreInv, PersonOk, StateOk, Stored, ChatInv
<1> QED BY <1>1, StoreInit, StoreStep, PTL DEF ChatSpec

=============================================================================
