-------------------------- MODULE MeshRouterProofs --------------------------
(***************************************************************************)
(* The replay window of the mesh router: a message that lives no longer    *)
(* than the window less one bucket is delivered once, for any nodes, links *)
(* and cache sizes, any order of frames, and any number of lost ones.      *)
(***************************************************************************)
EXTENDS MeshRouter, TLAPS

\* The lifetime the window covers.  A message is remembered from its delivery
\* until its bucket is shifted out, which takes more than the other buckets last.
LifetimeCovered == TTL <= (Buckets - 1) * BucketDuration + 1

RouterFields == {"cache", "zero", "buckets", "parts", "lastForward", "timers"}

\* A message of the past.
Dated(m) == m.ts \in Nat /\ m.ts <= now

\* The fields the argument reads, and that what can be sent on is of the past.
RouterOk(r) ==
    /\ r = [f \in RouterFields |-> r[f]]
    /\ r.buckets = [i \in 1 .. Buckets |-> r.buckets[i]]
    /\ r.zero = Never \/ (r.zero \in Nat /\ r.zero <= now)
    /\ \A m \in r.cache.items : Dated(m)
    /\ \A x \in r.timers : Dated(x[1])

\* A bucket has the message, and has not aged by more than the message.
Remembered(r, m) ==
    /\ r.zero \in Nat
    /\ \E i \in 1 .. Buckets :
        /\ m \in r.buckets[i]
        /\ m.ts + (Buckets - i) * BucketDuration < r.zero + BucketDuration

\* The inductive invariant: a delivered message that may still arrive is remembered.
MeshInv ==
    /\ now \in Nat
    /\ node = [n \in Nodes |-> node[n]]
    /\ \A n \in Nodes : RouterOk(node[n])
    /\ \A f \in net : f.kind = "chunk" => Dated(f.body.m)
    /\ \A x \in got : /\ x[1] \in Nodes /\ Dated(x[2])
                      /\ now < ExpiresAt(x[2]) => Remembered(node[x[1]], x[2])
    /\ again = {}

-----------------------------------------------------------------------------
\* The number of whole buckets in a time.
LEMMA WholeBuckets ==
  ASSUME NEW t \in Nat, NEW b \in Nat \ {0}
  PROVE  /\ t \div b \in Nat
         /\ (t \div b) * b <= t
         /\ t < (t \div b) * b + b
OBVIOUS

\* A rotation leaves the newest bucket open at this time, and cache and timers
\* alone.
LEMMA RotateOk ==
  ASSUME NEW r, RouterOk(r), now \in Nat
  PROVE  /\ RouterOk(rotateLocked(r))
         /\ rotateLocked(r).zero \in Nat
         /\ now < rotateLocked(r).zero + BucketDuration
<1> DEFINE q == rotateLocked(r)
<1>0. BucketDuration \in Nat \ {0} /\ Buckets \in Nat \ {0} /\ Never \notin Nat BY WindowSet
<1>1. CASE r.zero = Never
  <2>1. q = [r EXCEPT !.zero = now] BY <1>1 DEF rotateLocked
  <2>2. /\ q = [f \in RouterFields |-> q[f]]
        /\ q.zero = now /\ q.buckets = r.buckets /\ q.cache = r.cache /\ q.timers = r.timers
    BY <2>1 DEF RouterOk, RouterFields
  <2> HIDE DEF q
  <2>3. q.zero \in Nat /\ q.zero <= now BY <2>2
  <2>4. RouterOk(q) BY Zenon, <2>2, <2>3 DEF RouterOk
  <2>5. now < now + BucketDuration BY <1>0
  <2> QED BY <2>2, <2>4, <2>5 DEF q
<1>2. CASE r.zero # Never /\ now - r.zero < BucketDuration
  <2>1. q = r BY <1>2 DEF rotateLocked
  <2>2. r.zero \in Nat /\ r.zero <= now BY <1>2 DEF RouterOk
  <2>3. now < r.zero + BucketDuration BY <1>0, <1>2, <2>2
  <2> QED BY <2>1, <2>2, <2>3
<1>3. CASE r.zero # Never /\ ~(now - r.zero < BucketDuration)
  <2> DEFINE shift == (now - r.zero) \div BucketDuration
             zero == IF shift >= Buckets THEN now ELSE r.zero + shift * BucketDuration
             buckets == [i \in 1 .. Buckets |->
                            IF i + shift <= Buckets THEN r.buckets[i + shift] ELSE {}]
  <2>1. q = [r EXCEPT !.zero = zero, !.buckets = buckets] BY <1>3 DEF rotateLocked
  <2>2. r.zero \in Nat /\ r.zero <= now BY <1>3 DEF RouterOk
  <2>3. now - r.zero \in Nat BY <2>2
  <2>4. shift \in Nat /\ shift * BucketDuration <= now - r.zero
        /\ now - r.zero < shift * BucketDuration + BucketDuration
    BY Zenon, <1>0, <2>3, WholeBuckets
  <2>5. buckets = [i \in 1 .. Buckets |-> buckets[i]] OBVIOUS
  <2> HIDE DEF shift, buckets
  <2>6. shift * BucketDuration \in Nat BY <1>0, <2>4
  <2>7. zero \in Nat /\ zero <= now /\ now < zero + BucketDuration
    BY <1>0, <2>2, <2>4, <2>6
  <2> HIDE DEF zero
  <2>8. /\ q = [f \in RouterFields |-> q[f]]
        /\ q.zero = zero /\ q.buckets = buckets /\ q.cache = r.cache /\ q.timers = r.timers
    BY Zenon, <2>1 DEF RouterOk, RouterFields
  <2> HIDE DEF q
  <2>9. RouterOk(q) BY Zenon, <2>5, <2>7, <2>8 DEF RouterOk
  <2> QED BY <2>7, <2>8, <2>9 DEF q
<1> QED BY <1>1, <1>2, <1>3

\* A rotation shifts out no bucket that holds a message still alive.
LEMMA RotateRemembers ==
  ASSUME NEW r, RouterOk(r), now \in Nat, LifetimeCovered,
         NEW m, m.ts \in Nat, now < ExpiresAt(m), Remembered(r, m)
  PROVE  Remembered(rotateLocked(r), m)
<1> DEFINE q == rotateLocked(r)
<1>0. BucketDuration \in Nat \ {0} /\ Buckets \in Nat \ {0} /\ Never \notin Nat /\ TTL \in Nat
  BY WindowSet
<1>1. r.zero \in Nat /\ r.zero # Never /\ r.zero <= now BY <1>0 DEF Remembered, RouterOk
<1>2. CASE now - r.zero < BucketDuration
  BY <1>1, <1>2 DEF rotateLocked
<1>3. CASE ~(now - r.zero < BucketDuration)
  <2> DEFINE shift == (now - r.zero) \div BucketDuration
             zero == IF shift >= Buckets THEN now ELSE r.zero + shift * BucketDuration
             buckets == [i \in 1 .. Buckets |->
                            IF i + shift <= Buckets THEN r.buckets[i + shift] ELSE {}]
  <2>1. q = [r EXCEPT !.zero = zero, !.buckets = buckets] BY <1>1, <1>3 DEF rotateLocked
  <2>2. q.zero = zero /\ q.buckets = buckets BY Zenon, <2>1 DEF RouterOk, RouterFields
  <2>3. PICK i \in 1 .. Buckets :
          /\ m \in r.buckets[i]
          /\ m.ts + (Buckets - i) * BucketDuration < r.zero + BucketDuration
    BY DEF Remembered
  <2>4. shift \in Nat /\ shift * BucketDuration <= now - r.zero
    <3>1. now - r.zero \in Nat BY <1>1
    <3> QED BY <1>0, <3>1, WholeBuckets
  <2> HIDE DEF shift
  <2>5. i > shift
    <3> SUFFICES ASSUME i <= shift PROVE FALSE BY <2>4
    <3>1. i * BucketDuration <= shift * BucketDuration BY <1>0, <2>4
    <3>2. (Buckets - i) * BucketDuration + i * BucketDuration
            = (Buckets - 1) * BucketDuration + BucketDuration
      BY <1>0
    <3>3. /\ i * BucketDuration \in Nat /\ shift * BucketDuration \in Nat
          /\ (Buckets - i) * BucketDuration \in Int /\ (Buckets - 1) * BucketDuration \in Int
      BY <1>0, <2>4
    <3>4. now < m.ts + TTL BY DEF ExpiresAt
    <3>5. TTL <= (Buckets - 1) * BucketDuration + 1 BY DEF LifetimeCovered
    <3> QED BY <1>0, <1>1, <2>3, <2>4, <3>1, <3>2, <3>3, <3>4, <3>5
  <2>6. i - shift \in 1 .. Buckets /\ shift < Buckets BY <1>0, <2>4, <2>5
  <2>7. m \in buckets[i - shift]
    <3>1. (i - shift) + shift = i BY <2>4
    <3> QED BY <1>0, <2>3, <2>6, <3>1
  <2>8. zero = r.zero + shift * BucketDuration BY <1>0, <2>4, <2>6
  <2>9. (Buckets - (i - shift)) * BucketDuration
          = (Buckets - i) * BucketDuration + shift * BucketDuration
    BY <1>0, <2>4
  <2>10. /\ shift * BucketDuration \in Nat /\ (Buckets - i) * BucketDuration \in Int BY <1>0, <2>4
  <2>11. zero \in Nat BY <1>1, <2>8, <2>10
  <2>12. m.ts + (Buckets - (i - shift)) * BucketDuration < zero + BucketDuration
    BY <1>0, <1>1, <2>3, <2>8, <2>9, <2>10
  <2> QED BY <2>2, <2>6, <2>7, <2>11, <2>12 DEF Remembered
<1> QED BY <1>2, <1>3

\* Cache, reassembly and timers do not touch the window.
SameWindow(r, q) == q.zero = r.zero /\ q.buckets = r.buckets

\* A router with the same buckets remembers the same messages.
LEMMA SameRemembered ==
  ASSUME NEW r, NEW q, SameWindow(r, q), NEW m, Remembered(r, m)
  PROVE  Remembered(q, m)
BY DEF SameWindow, Remembered

\* Put adds the message and removes others.
LEMMA PutOk ==
  ASSUME NEW r, RouterOk(r), NEW m, Dated(m)
  PROVE  RouterOk(Put(r, m)) /\ SameWindow(r, Put(r, m))
<1> DEFINE c == WithoutFront(PushBack(r.cache, m))
           q == Put(r, m)
<1>1. q = [r EXCEPT !.cache = c] BY DEF Put, RouterOk, RouterFields
<1>2. c.items \subseteq r.cache.items \cup {m} BY DEF WithoutFront, PushBack, Keep
<1>3. \A x \in c.items : Dated(x) BY Zenon, <1>2 DEF RouterOk
<1> HIDE DEF c
<1>4. /\ q = [f \in RouterFields |-> q[f]]
      /\ q.zero = r.zero /\ q.buckets = r.buckets /\ q.cache = c /\ q.timers = r.timers
  BY <1>1 DEF RouterOk, RouterFields
<1> HIDE DEF q
<1>5. RouterOk(q) BY Zenon, <1>3, <1>4 DEF RouterOk
<1> QED BY <1>4, <1>5 DEF SameWindow, q

\* maybeForward starts a timer at most.
LEMMA ForwardOk ==
  ASSUME NEW r, RouterOk(r), NEW m, Dated(m), NEW hop, NEW q \in maybeForward(r, m, hop)
  PROVE  RouterOk(q) /\ SameWindow(r, q)
<1>1. CASE q = r BY <1>1 DEF SameWindow
<1>2. CASE q # r
  <2> DEFINE last == {x \in r.lastForward : x[1] # m} \cup {<<m, now>>}
             timers == r.timers \cup {<<m, hop + 1>>}
  <2>1. q = [r EXCEPT !.lastForward = last, !.timers = timers]
    BY <1>2 DEF maybeForward, RouterOk, RouterFields
  <2>2. \A x \in timers : Dated(x[1]) BY DEF RouterOk
  <2> HIDE DEF last, timers
  <2>3. /\ q = [f \in RouterFields |-> q[f]]
        /\ q.zero = r.zero /\ q.buckets = r.buckets /\ q.cache = r.cache /\ q.timers = timers
    BY Zenon, <2>1 DEF RouterOk, RouterFields
  <2> QED BY Zenon, <2>2, <2>3 DEF RouterOk, SameWindow
<1> QED BY <1>1, <1>2

\* SeenOrAdd enters a message in the newest bucket.
LEMMA AddSeenOk ==
  ASSUME NEW r, RouterOk(r), r.zero \in Nat, now \in Nat, now < r.zero + BucketDuration,
         NEW m, Dated(m)
  PROVE  /\ RouterOk(AddSeen(r, m))
         /\ Remembered(AddSeen(r, m), m)
         /\ \A x : Remembered(r, x) => Remembered(AddSeen(r, m), x)
<1> DEFINE q == AddSeen(r, m)
           b == [r.buckets EXCEPT ![Buckets] = @ \cup {m}]
<1>0. BucketDuration \in Nat \ {0} /\ Buckets \in Nat \ {0} BY WindowSet
<1>1. q = [r EXCEPT !.buckets = b] BY DEF AddSeen
<1>2. /\ b = [i \in 1 .. Buckets |-> b[i]]
      /\ \A i \in 1 .. Buckets : r.buckets[i] \subseteq b[i]
      /\ Buckets \in 1 .. Buckets /\ m \in b[Buckets]
  <2>1. PICK old : old = r.buckets OBVIOUS
  <2>2. old = [i \in 1 .. Buckets |-> old[i]] BY <2>1 DEF RouterOk
  <2>3. b = [old EXCEPT ![Buckets] = @ \cup {m}] BY <2>1
  <2>4. Buckets \in 1 .. Buckets BY <1>0
  <2> HIDE DEF b
  <2>5. b = [i \in 1 .. Buckets |-> IF i = Buckets THEN old[i] \cup {m} ELSE old[i]]
    BY Zenon, <2>2, <2>3
  <2> QED BY <2>1, <2>4, <2>5
<1> HIDE DEF b
<1>3. /\ q = [f \in RouterFields |-> q[f]]
      /\ q.zero = r.zero /\ q.buckets = b /\ q.cache = r.cache /\ q.timers = r.timers
  BY <1>1 DEF RouterOk, RouterFields
<1> HIDE DEF q
<1>4. RouterOk(q) BY Zenon, <1>2, <1>3 DEF RouterOk
<1>5. m.ts + (Buckets - Buckets) * BucketDuration < r.zero + BucketDuration
  <2>1. (Buckets - Buckets) * BucketDuration = 0 BY <1>0
  <2> QED BY <1>0, <2>1 DEF Dated
<1>6. Remembered(q, m) BY Zenon, <1>2, <1>3, <1>5 DEF Remembered
<1>7. \A x : Remembered(r, x) => Remembered(q, x) BY Zenon, <1>2, <1>3 DEF Remembered
<1> QED BY <1>4, <1>6, <1>7 DEF q

\* The frames a node sends for messages of the past.
LEMMA BroadcastOk ==
  ASSUME NEW n, NEW ms, \A x \in ms : Dated(x[1])
  PROVE  \A f \in broadcastMessage(n, ms) : Dated(f.body.m)
BY DEF broadcastMessage, Air, ChunkMessage

\* One node changes, keeping what it remembers, and frames are added or removed.
LEMMA NodeStep ==
  ASSUME MeshInv, now' = now, got' = got, again' = again,
         NEW n \in Nodes, NEW q, node' = [node EXCEPT ![n] = q], RouterOk(q),
         \A m : Dated(m) /\ now < ExpiresAt(m) /\ Remembered(node[n], m) => Remembered(q, m),
         \A f \in net' : f \in net \/ (f.kind = "chunk" => Dated(f.body.m))
  PROVE  MeshInv'
<1>1. now' \in Nat /\ again' = {} BY DEF MeshInv
<1>2. node' = [k \in Nodes |-> node'[k]] /\ node'[n] = q
      /\ \A k \in Nodes \ {n} : node'[k] = node[k]
  BY DEF MeshInv
<1>4. \A k \in Nodes : RouterOk(node'[k])
  BY <1>2 DEF MeshInv
<1>5. \A k \in Nodes : RouterOk(node[k])'
  BY Zenon, <1>4 DEF RouterOk, Dated
<1>6. (\A f \in net : f.kind = "chunk" => Dated(f.body.m))'
  BY DEF MeshInv, Dated
<1>7. (\A x \in got : /\ x[1] \in Nodes /\ Dated(x[2])
                      /\ now < ExpiresAt(x[2]) => Remembered(node[x[1]], x[2]))'
  <2> SUFFICES ASSUME NEW x \in got
               PROVE  /\ x[1] \in Nodes /\ Dated(x[2])'
                      /\ now < ExpiresAt(x[2]) => Remembered(node'[x[1]], x[2])
    BY DEF ExpiresAt, Remembered
  <2>1. /\ x[1] \in Nodes /\ Dated(x[2])
        /\ now < ExpiresAt(x[2]) => Remembered(node[x[1]], x[2])
    BY DEF MeshInv
  <2>2. Dated(x[2])' BY <2>1 DEF Dated
  <2> QED BY <1>2, <2>1, <2>2
<1> QED BY <1>1, <1>2, <1>5, <1>6, <1>7 DEF MeshInv

\* Partial messages play no part.
LEMMA PartsOk ==
  ASSUME NEW r, RouterOk(r), NEW parts
  PROVE  /\ RouterOk([r EXCEPT !.parts = parts])
         /\ SameWindow(r, [r EXCEPT !.parts = parts])
         /\ [r EXCEPT !.parts = parts].cache = r.cache
<1>1. PICK q : q = [r EXCEPT !.parts = parts] BY Zenon
<1>2. /\ q = [f \in RouterFields |-> q[f]]
      /\ q.zero = r.zero /\ q.buckets = r.buckets /\ q.cache = r.cache /\ q.timers = r.timers
  BY <1>1 DEF RouterOk, RouterFields
<1>3. RouterOk(q) /\ SameWindow(r, q) /\ q.cache = r.cache BY Zenon, <1>2 DEF RouterOk, SameWindow
<1> QED BY <1>1, <1>3

\* onMessage: the message is not among those delivered, and is remembered.
LEMMA Deliver ==
  ASSUME MeshInv, LifetimeCovered, now' = now, net' \subseteq net,
         NEW n \in Nodes, NEW m, Dated(m), now < ExpiresAt(m),
         NEW r, RouterOk(r), r.zero \in Nat, now < r.zero + BucketDuration, ~Seen(r, m),
         \A x : Dated(x) /\ now < ExpiresAt(x) /\ Remembered(node[n], x) => Remembered(r, x),
         NEW hop, NEW q \in maybeForward(Put(AddSeen(r, m), m), m, hop),
         node' = [node EXCEPT ![n] = q],
         got' = got \cup {<<n, m>>}, again' = again \cup (got \cap {<<n, m>>})
  PROVE  MeshInv'
<1>1. PICK s : s = AddSeen(r, m) OBVIOUS
<1>2. now \in Nat BY DEF MeshInv
<1>3. RouterOk(s) /\ Remembered(s, m) /\ \A x : Remembered(r, x) => Remembered(s, x)
  BY <1>1, <1>2, AddSeenOk
<1>4. PICK p : p = Put(s, m) OBVIOUS
<1>5. RouterOk(p) /\ SameWindow(s, p) BY <1>3, <1>4, PutOk
<1>6. RouterOk(q) /\ SameWindow(p, q) BY <1>1, <1>4, <1>5, ForwardOk
<1>7. \A x : Remembered(s, x) => Remembered(q, x) BY <1>5, <1>6, SameRemembered
<1>8. <<n, m>> \notin got
  <2> SUFFICES ASSUME <<n, m>> \in got PROVE FALSE OBVIOUS
  <2>1. Remembered(node[n], m) BY DEF MeshInv
  <2>2. Remembered(r, m) BY <2>1
  <2> QED BY <2>2 DEF Seen, Remembered
<1>9. again' = {} BY <1>8 DEF MeshInv
<1>10. node' = [k \in Nodes |-> node'[k]] /\ node'[n] = q
       /\ \A k \in Nodes \ {n} : node'[k] = node[k]
  BY DEF MeshInv
<1>11. \A k \in Nodes : RouterOk(node'[k]) BY <1>6, <1>10 DEF MeshInv
<1>12. \A k \in Nodes : RouterOk(node[k])' BY <1>11 DEF RouterOk, Dated
<1>13. (\A f \in net : f.kind = "chunk" => Dated(f.body.m))' BY DEF MeshInv, Dated
<1>14. (\A x \in got : /\ x[1] \in Nodes /\ Dated(x[2])
                       /\ now < ExpiresAt(x[2]) => Remembered(node[x[1]], x[2]))'
  <2> SUFFICES ASSUME NEW x \in got'
               PROVE  /\ x[1] \in Nodes /\ Dated(x[2])
                      /\ now < ExpiresAt(x[2]) => Remembered(node'[x[1]], x[2])
    BY DEF ExpiresAt, Remembered, Dated
  <2>1. CASE x = <<n, m>>
    <3>1. Remembered(q, m) BY <1>3, <1>7
    <3> QED BY <1>10, <2>1, <3>1
  <2>2. CASE x \in got
    <3>1. /\ x[1] \in Nodes /\ Dated(x[2])
          /\ now < ExpiresAt(x[2]) => Remembered(node[x[1]], x[2])
      BY <2>2 DEF MeshInv
    <3>2. ASSUME x[1] = n, now < ExpiresAt(x[2]) PROVE Remembered(q, x[2])
      <4>1. Remembered(r, x[2]) BY <3>1, <3>2
      <4> QED BY <1>3, <1>7, <4>1
    <3> QED BY <1>10, <3>1, <3>2
  <2> QED BY <2>1, <2>2
<1> QED BY <1>2, <1>9, <1>10, <1>12, <1>13, <1>14 DEF MeshInv

\* A chunk: dropped, kept, completing a message seen before, or delivering one.
LEMMA ChunkInv ==
  ASSUME MeshInv, LifetimeCovered, NEW n \in Nodes, NEW f \in net, f.kind = "chunk",
         handleChunk(n, f), UNCHANGED <<inRange, sent, losses, now>>
  PROVE  MeshInv'
<1>1. PICK m : m = f.body.m OBVIOUS
<1>2. PICK p : p = Partial(node[n], f.body) OBVIOUS
<1>3. PICK rot : rot = rotateLocked(node[n]) OBVIOUS
<1>4. PICK r : r = [rot EXCEPT !.parts = Without(rot.parts, m)] BY Zenon
<1>5. /\ net' = net \ {f}
      /\ \/ UNCHANGED <<node, got, again>>
         \/ /\ node' = [node EXCEPT ![n].parts = (m :> p) @@ @]
            /\ UNCHANGED <<got, again>>
         \/ /\ node' = [node EXCEPT ![n] = r]
            /\ UNCHANGED <<got, again>>
         \/ /\ node' = [node EXCEPT ![n] = AddSeen(r, m)]
            /\ UNCHANGED <<got, again>>
         \/ /\ now < ExpiresAt(m) /\ ~Seen(r, m)
            /\ \E q \in maybeForward(Put(AddSeen(r, m), m), m, p.hop) :
                 node' = [node EXCEPT ![n] = q]
            /\ got' = got \cup {<<n, m>>}
            /\ again' = again \cup (got \cap {<<n, m>>})
  <2>1. ~(now >= ExpiresAt(m)) => now < ExpiresAt(m)
    <3>1. now \in Nat /\ m.ts \in Nat /\ TTL \in Nat BY <1>1, WindowSet DEF MeshInv, Dated
    <3> QED BY <3>1 DEF ExpiresAt
  <2> QED BY <1>1, <1>2, <1>3, <1>4, <2>1 DEF handleChunk, Exchange
<1>6. Dated(m) /\ now \in Nat /\ now' = now /\ RouterOk(node[n]) BY <1>1 DEF MeshInv
<1>7. RouterOk(rot) /\ rot.zero \in Nat /\ now < rot.zero + BucketDuration
  BY <1>3, <1>6, RotateOk
<1>8. RouterOk(r) /\ SameWindow(rot, r) BY Zenon, <1>4, <1>7, PartsOk
<1>9. \A x : Dated(x) /\ now < ExpiresAt(x) /\ Remembered(node[n], x) => Remembered(r, x)
  BY <1>3, <1>6, <1>8, RotateRemembers, SameRemembered DEF Dated
<1>10. r.zero \in Nat /\ now < r.zero + BucketDuration BY <1>7, <1>8 DEF SameWindow
<1>11. \A g \in net' : g \in net BY <1>5
<1>12. node = [k \in Nodes |-> node[k]] BY DEF MeshInv
<1>13. CASE UNCHANGED <<node, got, again>>
  <2>1. node' = [node EXCEPT ![n] = node[n]] BY <1>12, <1>13
  <2> QED BY Zenon, <1>6, <1>11, <1>13, <2>1, NodeStep
<1>14. CASE node' = [node EXCEPT ![n].parts = (m :> p) @@ @] /\ UNCHANGED <<got, again>>
  <2>1. PICK q : q = [node[n] EXCEPT !.parts = (m :> p) @@ node[n].parts] BY Zenon
  <2>2. node' = [node EXCEPT ![n] = q] BY <1>14, <2>1
  <2>3. RouterOk(q) /\ SameWindow(node[n], q) BY <1>6, <2>1, PartsOk
  <2>4. \A x : Remembered(node[n], x) => Remembered(q, x) BY <2>3, SameRemembered
  <2> QED BY Zenon, <1>6, <1>11, <1>14, <2>2, <2>3, <2>4, NodeStep
<1>15. CASE node' = [node EXCEPT ![n] = r] /\ UNCHANGED <<got, again>>
  BY Zenon, <1>6, <1>8, <1>9, <1>11, <1>15, NodeStep
<1>16. CASE node' = [node EXCEPT ![n] = AddSeen(r, m)] /\ UNCHANGED <<got, again>>
  <2>1. PICK q : q = AddSeen(r, m) OBVIOUS
  <2>2. RouterOk(q) /\ \A x : Remembered(r, x) => Remembered(q, x)
    BY <1>6, <1>8, <1>10, <2>1, AddSeenOk
  <2> QED BY Zenon, <1>6, <1>9, <1>11, <1>16, <2>1, <2>2, NodeStep
<1>17. ASSUME /\ now < ExpiresAt(m) /\ ~Seen(r, m)
              /\ \E q \in maybeForward(Put(AddSeen(r, m), m), m, p.hop) :
                   node' = [node EXCEPT ![n] = q]
              /\ got' = got \cup {<<n, m>>}
              /\ again' = again \cup (got \cap {<<n, m>>})
       PROVE  MeshInv'
  <2>1. PICK q \in maybeForward(Put(AddSeen(r, m), m), m, p.hop) : node' = [node EXCEPT ![n] = q]
    BY Zenon, <1>17
  <2>2. net' \subseteq net BY <1>5
  <2> QED BY Zenon, <1>6, <1>8, <1>9, <1>10, <1>17, <2>1, <2>2, Deliver
<1> QED BY <1>5, <1>13, <1>14, <1>15, <1>16, <1>17

\* An inventory rotates the window or leaves it; what is asked for is no chunk.
LEMMA InventoryInv ==
  ASSUME MeshInv, LifetimeCovered, NEW n \in Nodes, NEW f \in net,
         handleInventory(n, f), UNCHANGED <<inRange, sent, losses, now>>
  PROVE  MeshInv'
<1>1. PICK q \in {node[n], rotateLocked(node[n])} : node' = [node EXCEPT ![n] = q]
  BY Zenon DEF handleInventory
<1>2. UNCHANGED <<got, again, now>> BY DEF handleInventory
<1>3. \A g \in net' : g \in net \/ g.kind = "want"
  BY DEF handleInventory, Exchange, Air
<1>4. RouterOk(node[n]) /\ now \in Nat BY DEF MeshInv
<1>5. RouterOk(q) BY <1>1, <1>4, RotateOk
<1>6. \A x : Dated(x) /\ now < ExpiresAt(x) /\ Remembered(node[n], x) => Remembered(q, x)
  BY <1>1, <1>4, RotateRemembers DEF Dated
<1>7. \A g \in net' : g \in net \/ (g.kind = "chunk" => Dated(g.body.m)) BY <1>3
<1> QED BY Zenon, <1>1, <1>2, <1>5, <1>6, <1>7, NodeStep

\* Steps that change no router: frames appear or disappear, and time may pass.
LEMMA AirInv ==
  ASSUME MeshInv, UNCHANGED <<node, got, again>>, now' \in Nat, now' >= now,
         \A f \in net' : f \in net \/ (f.kind = "chunk" => Dated(f.body.m))
  PROVE  MeshInv'
<1>0. now \in Nat /\ TTL \in Nat BY WindowSet DEF MeshInv
<1>1. \A m : Dated(m) => Dated(m)' BY <1>0 DEF Dated
<1>2. \A k \in Nodes : RouterOk(node[k])'
  <2> SUFFICES ASSUME NEW k \in Nodes PROVE RouterOk(node[k])' OBVIOUS
  <2>1. RouterOk(node[k]) BY DEF MeshInv
  <2>2. node[k].zero = Never \/ (node[k].zero \in Nat /\ node[k].zero <= now')
    BY <1>0, <2>1 DEF RouterOk
  <2> QED BY <1>1, <2>1, <2>2 DEF RouterOk
<1>3. (\A f \in net : f.kind = "chunk" => Dated(f.body.m))'
  <2> SUFFICES ASSUME NEW f \in net', f.kind = "chunk" PROVE Dated(f.body.m)' OBVIOUS
  <2>1. Dated(f.body.m) BY DEF MeshInv
  <2> QED BY <1>1, <2>1
<1>4. (\A x \in got : /\ x[1] \in Nodes /\ Dated(x[2])
                      /\ now < ExpiresAt(x[2]) => Remembered(node[x[1]], x[2]))'
  <2> SUFFICES ASSUME NEW x \in got
               PROVE  /\ x[1] \in Nodes /\ Dated(x[2])'
                      /\ now' < ExpiresAt(x[2]) => Remembered(node[x[1]], x[2])
    BY DEF ExpiresAt, Remembered
  <2>1. /\ x[1] \in Nodes /\ Dated(x[2])
        /\ now < ExpiresAt(x[2]) => Remembered(node[x[1]], x[2])
    BY DEF MeshInv
  <2>2. now' < ExpiresAt(x[2]) => now < ExpiresAt(x[2])
    BY <1>0, <2>1 DEF Dated, ExpiresAt
  <2> QED BY <1>1, <2>1, <2>2
<1> QED BY <1>2, <1>3, <1>4 DEF MeshInv

\* A want: what is still cached goes out again, what has expired leaves the cache.
LEMMA WantInv ==
  ASSUME MeshInv, NEW n \in Nodes, NEW f \in net,
         handleWant(n, f), UNCHANGED <<inRange, sent, losses, now>>
  PROVE  MeshInv'
<1> DEFINE out == {<<m, 0>> : m \in {x \in f.body : Has(node[n], x)}}
           cache == Get(node[n].cache, f.body)
<1>0. RouterOk(node[n]) BY DEF MeshInv
<1>1. net' = (net \ {f}) \cup broadcastMessage(n, out) /\ UNCHANGED <<got, again, now>>
  BY DEF handleWant, Exchange
<1>2. \A x \in out : Dated(x[1])
  <2>1. \A m \in node[n].cache.items : Dated(m) BY Zenon DEF MeshInv, RouterOk
  <2> QED BY <2>1 DEF Has, Live
<1>3. PICK q : q = [node[n] EXCEPT !.cache = cache] BY Zenon
<1>4. node' = [node EXCEPT ![n] = q] BY Zenon, <1>0, <1>3 DEF handleWant
<1>5. cache.items \subseteq node[n].cache.items BY DEF Get, Keep
<1> HIDE DEF out, cache
<1>6. /\ q = [x \in RouterFields |-> q[x]] /\ SameWindow(node[n], q)
      /\ q.cache = cache /\ q.timers = node[n].timers
  BY Zenon, <1>0, <1>3 DEF RouterOk, RouterFields, SameWindow
<1>7. RouterOk(q) BY Zenon, <1>0, <1>5, <1>6 DEF RouterOk, SameWindow
<1>8. \A x : Remembered(node[n], x) => Remembered(q, x) BY <1>6, SameRemembered
<1>9. \A g \in broadcastMessage(n, out) : Dated(g.body.m) BY <1>2, BroadcastOk
<1>10. \A g \in net' : g \in net \/ (g.kind = "chunk" => Dated(g.body.m)) BY <1>1, <1>9
<1> QED BY Zenon, <1>1, <1>4, <1>7, <1>8, <1>10, NodeStep

\* Sending puts the message in the cache and its chunks on the air.
LEMMA SendInv ==
  ASSUME MeshInv, NEW n \in Nodes, NEW chunks, Send(n, chunks)
  PROVE  MeshInv'
<1>1. PICK m : m = [from |-> n, ts |-> now, k |-> Cardinality(sent), chunks |-> chunks] BY Zenon
<1>2. /\ node' = [node EXCEPT ![n] = Put(node[n], m)]
      /\ net' = net \cup broadcastMessage(n, {<<m, 0>>})
      /\ UNCHANGED <<got, again, now>>
  BY <1>1 DEF Send
<1>3. Dated(m) BY <1>1 DEF MeshInv, Dated
<1>4. PICK q : q = Put(node[n], m) OBVIOUS
<1>5. RouterOk(node[n]) BY DEF MeshInv
<1>6. RouterOk(q) /\ SameWindow(node[n], q) BY <1>3, <1>4, <1>5, PutOk
<1>7. \A g \in broadcastMessage(n, {<<m, 0>>}) : Dated(g.body.m) BY <1>3, BroadcastOk
<1>8. \A x : Remembered(node[n], x) => Remembered(q, x) BY <1>6, SameRemembered
<1> QED BY Zenon, <1>2, <1>4, <1>6, <1>7, <1>8, NodeStep

\* The timer of maybeForward and the sweep.
LEMMA TimersInv ==
  ASSUME MeshInv, NEW n \in Nodes, ForwardDue(n) \/ SweepTick(n)
  PROVE  MeshInv'
<1>0. RouterOk(node[n]) /\ now' = now /\ UNCHANGED <<got, again>>
  BY DEF MeshInv, ForwardDue, SweepTick
<1>1. CASE ForwardDue(n)
  <2>1. PICK x \in node[n].timers :
          /\ node' = [node EXCEPT ![n].timers = @ \ {x}]
          /\ net' = net \cup broadcastMessage(n, {x})
    BY Zenon, <1>1 DEF ForwardDue
  <2>2. PICK q : q = [node[n] EXCEPT !.timers = node[n].timers \ {x}] BY Zenon
  <2>3. node' = [node EXCEPT ![n] = q] BY <2>1, <2>2
  <2>4. /\ q = [f \in RouterFields |-> q[f]] /\ SameWindow(node[n], q)
        /\ q.cache = node[n].cache /\ q.timers = node[n].timers \ {x}
    BY Zenon, <1>0, <2>2 DEF RouterOk, RouterFields, SameWindow
  <2>5. RouterOk(q) BY Zenon, <1>0, <2>4 DEF RouterOk, SameWindow
  <2>6. Dated(x[1]) BY <1>0 DEF RouterOk
  <2>7. \A g \in broadcastMessage(n, {x}) : Dated(g.body.m) BY <2>6, BroadcastOk
  <2>8. \A y : Remembered(node[n], y) => Remembered(q, y) BY <2>4, SameRemembered
  <2> QED BY Zenon, <1>0, <2>1, <2>3, <2>5, <2>7, <2>8, NodeStep
<1>2. CASE SweepTick(n)
  <2> DEFINE cache == Sweep(node[n].cache)
             old == node[n].parts
             parts == [x \in {y \in DOMAIN old : now - old[y].at < StaleAfter} |-> old[x]]
  <2>1. PICK q : q = [node[n] EXCEPT !.cache = cache, !.parts = parts] BY Zenon
  <2>2. node' = [node EXCEPT ![n] = q] /\ net' = net
    BY Zenon, <1>0, <1>2, <2>1 DEF SweepTick, RouterOk, RouterFields, MeshInv
  <2>3. cache.items \subseteq node[n].cache.items BY DEF Sweep, Keep
  <2> HIDE DEF cache, parts
  <2>4. /\ q = [f \in RouterFields |-> q[f]] /\ SameWindow(node[n], q)
        /\ q.cache = cache /\ q.timers = node[n].timers
    BY Zenon, <1>0, <2>1 DEF RouterOk, RouterFields, SameWindow
  <2>5. RouterOk(q) BY Zenon, <1>0, <2>3, <2>4 DEF RouterOk, SameWindow
  <2>6. \A y : Remembered(node[n], y) => Remembered(q, y) BY <2>4, SameRemembered
  <2> QED BY Zenon, <1>0, <2>2, <2>5, <2>6, NodeStep
<1> QED BY <1>1, <1>2

\* Every step of the mesh keeps the invariant.
LEMMA MeshStep ==
  ASSUME MeshInv, LifetimeCovered, [Next]_vars
  PROVE  MeshInv'
<1>0. now \in Nat BY DEF MeshInv
<1>1. ASSUME NEW n \in Nodes, NEW chunks \in 1 .. Chunks, Send(n, chunks) PROVE MeshInv'
  BY <1>1, SendInv
<1>2. ASSUME NEW n \in Nodes, ForwardDue(n) \/ SweepTick(n) PROVE MeshInv'
  BY <1>2, TimersInv
<1>3. ASSUME NEW n \in Nodes, maybeBroadcastInventory(n) PROVE MeshInv'
  <2>1. UNCHANGED <<node, got, again, now>> /\ \A f \in net' : f \in net \/ f.kind = "inv"
    BY <1>3 DEF maybeBroadcastInventory, Air
  <2> QED BY <1>0, <2>1, AirInv
<1>4. ASSUME NEW n \in Nodes, NEW f \in net, handleFrame(n, f) PROVE MeshInv'
  BY <1>4, ChunkInv, InventoryInv, WantInv DEF handleFrame
<1>5. CASE Lose
  <2>1. UNCHANGED <<node, got, again, now>> /\ \A f \in net' : f \in net
    BY <1>5 DEF Lose, Exchange
  <2> QED BY <1>0, <2>1, AirInv
<1>6. CASE ComeInRange
  BY <1>0, <1>6, AirInv DEF ComeInRange
<1>7. CASE Tick
  BY <1>0, <1>7, AirInv DEF Tick
<1>8. CASE UNCHANGED vars
  BY <1>0, <1>8, AirInv DEF vars
<1> QED BY <1>1, <1>2, <1>3, <1>4, <1>5, <1>6, <1>7, <1>8 DEF Next

\* A router starts empty.
LEMMA MeshInit ==
  Init => MeshInv
<1> SUFFICES ASSUME Init PROVE MeshInv OBVIOUS
<1>1. RouterOk(NewRouter) BY Zenon DEF RouterOk, NewRouter, RouterFields
<1> QED BY <1>1 DEF Init, MeshInv

\* With lifetimes the replay window covers, onMessage sees a message once at
\* most, whatever the cache forgets and however often neighbours send it again.
THEOREM MeshDeliversOnce ==
  ASSUME LifetimeCovered
  PROVE  Spec => []DeliveredOnce
<1>1. MeshInv => DeliveredOnce BY DEF MeshInv, DeliveredOnce
<1>2. MeshInv /\ [Next]_vars => MeshInv' BY MeshStep
<1> QED BY <1>1, <1>2, MeshInit, PTL DEF Spec

=============================================================================
