---------------------------- MODULE SpanProofs ----------------------------
(* Proofs about Span, for every topology of daemons, every set of           *)
(* connections that break and any number of duplicate relays.               *)
EXTENDS Span, SeqShapes, WellFoundedInduction

-----------------------------------------------------------------------------
(* The inductive invariant *)

\* The ids of the SPANs that d relays to e, and the links that e has of them.
RelayIds(d, e)  == {r.id : r \in {s \in relay[d] : s.to = e}}
LinksFrom(e, d) == {l \in link[e] : l.from = d}

About(m, i) == m.kind # "CONN" /\ m.id = i

\* What the stream q from a daemon with relays R to one with links L may hold.
\* An id is used again when its DELETE has been read, so that the messages of
\* an id are a CREATE, a DELETE, or both in this order.
OneUse(q) == \A j, k \in DOMAIN q :
  j < k /\ q[k].kind # "CONN" /\ About(q[j], q[k].id) =>
    q[j].kind = "CREATE" /\ q[k].kind = "DELETE"

CreateIsNew(L, q) == \A k \in DOMAIN q : q[k].kind = "CREATE" => \A l \in L : l.id # q[k].id

DeleteIsLast(R, q) == \A k \in DOMAIN q : q[k].kind = "DELETE" => q[k].id \notin R

Deleted(q, i) == \E k \in DOMAIN q : q[k].kind = "DELETE" /\ q[k].id = i

HeldUp(R, L, q) ==
  /\ \A l \in L : l.id \in R \/ Deleted(q, l.id)
  /\ \A k \in DOMAIN q : q[k].kind = "CREATE" => q[k].id \in R \/ Deleted(q, q[k].id)

OneLink(L) == \A l, m \in L : l.id = m.id => l = m

PairInv(R, L, q) ==
  /\ OneUse(q) /\ CreateIsNew(L, q) /\ DeleteIsLast(R, q) /\ HeldUp(R, L, q) /\ OneLink(L)

PairsInv == \A d, e \in Daemons :
  {d, e} \notin broken => PairInv(RelayIds(d, e), LinksFrom(e, d), chan[d][e])

\* Everything runs over connections, what is read is from one that works, and
\* a connection that failed is broken.
WireInv ==
  /\ \A d, e \in Daemons : e \in connq[d] => {d, e} \in Conns
  /\ \A d, e \in Daemons : e \in failed[d] => {d, e} \in broken
  /\ \A d, e \in Daemons : chan[d][e] # <<>> => {d, e} \in Conns /\ {d, e} \notin broken
  /\ \A d \in Daemons : \A l \in link[d] : l.from = Kernel \/ {d, l.from} \in Conns

\* One relay per id; it stands for a link.
RelayInv ==
  \A d \in Daemons : \A r \in relay[d] :
    /\ \E l \in link[d] : Of(r, l)
    /\ \A s \in relay[d] : r.to = s.to /\ r.id = s.id => r = s

\* conn->tree has at most one relay, and it is one that exists.
TreeInv ==
  \A d, e \in Daemons : \A i \in tree[d][e] :
    i \in RelayIds(d, e) /\ \A j \in tree[d][e] : i = j

DistInv ==
  /\ \A d \in Daemons : \A l \in link[d] : l.dist <= MaxDist + 1
  /\ \A d, e \in Daemons : \A k \in DOMAIN chan[d][e] : chan[d][e][k].dist <= MaxDist + 1

Types ==
  /\ mounted \in BOOLEAN
  /\ link \in [Daemons -> SUBSET Link]
  /\ relay \in [Daemons -> SUBSET Relay]
  /\ tree \in [Daemons -> [Daemons -> SUBSET Ids]]
  /\ connq \in [Daemons -> SUBSET Daemons]
  /\ sig \in [Daemons -> SUBSET (Daemons \cup {Kernel})]
  /\ chan \in [Daemons -> [Daemons -> Seq(Message)]]
  /\ failed \in [Daemons -> SUBSET (Daemons \cup {Kernel})]
  /\ broken \subseteq Conns /\ crashed \subseteq Daemons

IInv == Types /\ WireInv /\ RelayInv /\ TreeInv /\ DistInv /\ PairsInv

-----------------------------------------------------------------------------
(* One direction of a connection *)

\* What is left of the stream q when its first message has been read.
Rest(R, L, q, t) ==
  /\ OneUse(t) /\ CreateIsNew(L, t) /\ DeleteIsLast(R, t)
  /\ \A i : Deleted(q, i) => Deleted(t, i) \/ (q[1].kind = "DELETE" /\ q[1].id = i)
  /\ \A k \in DOMAIN t : t[k].kind # "CONN" /\ About(q[1], t[k].id) =>
       q[1].kind = "CREATE" /\ t[k].kind = "DELETE"
  /\ \A k \in DOMAIN t : t[k].kind = "CREATE" => t[k].id \in R \/ Deleted(q, t[k].id)

LEMMA PairRead ==
  ASSUME NEW R, NEW L, NEW q \in Seq(Message), q # <<>>, PairInv(R, L, q), NEW t, t = Tail(q)
  PROVE  Rest(R, L, q, t)
<1>1. PICK n \in Nat : n = Len(q)
  OBVIOUS
<1>2. /\ n > 0 /\ DOMAIN q = 1..n /\ DOMAIN t = 1..(n - 1)
      /\ \A k \in 1..(n - 1) : t[k] = q[k + 1]
  BY <1>1, TailShape
<1>3. ASSUME NEW k \in DOMAIN t PROVE k \in Nat /\ k + 1 \in DOMAIN q /\ t[k] = q[k + 1] /\ 1 < k + 1
  BY <1>2
<1>4. /\ OneUse(q) /\ CreateIsNew(L, q) /\ DeleteIsLast(R, q)
      /\ \A k \in DOMAIN q : q[k].kind = "CREATE" => q[k].id \in R \/ Deleted(q, q[k].id)
  BY DEF PairInv, HeldUp
<1>5. OneUse(t)
  <2>1. SUFFICES ASSUME NEW j \in DOMAIN t, NEW k \in DOMAIN t, j < k, t[k].kind # "CONN",
                        About(t[j], t[k].id)
                 PROVE  t[j].kind = "CREATE" /\ t[k].kind = "DELETE"
    BY DEF OneUse
  <2>2. j + 1 < k + 1
    BY <1>3, <2>1
  <2>3. QED
    BY <1>3, <1>4, <2>1, <2>2 DEF OneUse
<1>6. CreateIsNew(L, t)
  BY <1>3, <1>4 DEF CreateIsNew
<1>7. DeleteIsLast(R, t)
  BY <1>3, <1>4 DEF DeleteIsLast
<1>8. ASSUME NEW i, Deleted(q, i) PROVE Deleted(t, i) \/ (q[1].kind = "DELETE" /\ q[1].id = i)
  <2>1. PICK k \in DOMAIN q : q[k].kind = "DELETE" /\ q[k].id = i
    BY <1>8 DEF Deleted
  <2>2. CASE k = 1
    BY <2>1, <2>2
  <2>3. CASE k # 1
    <3>1. k - 1 \in DOMAIN t /\ t[k - 1] = q[k]
      BY <1>2, <2>3
    <3>2. QED
      BY <2>1, <3>1 DEF Deleted
  <2>4. QED
    BY <2>2, <2>3
<1>9. 1 \in DOMAIN q
  BY <1>2
<1>10. ASSUME NEW k \in DOMAIN t, t[k].kind # "CONN", About(q[1], t[k].id)
       PROVE  q[1].kind = "CREATE" /\ t[k].kind = "DELETE"
  BY <1>3, <1>4, <1>9, <1>10 DEF OneUse
<1>11. ASSUME NEW k \in DOMAIN t, t[k].kind = "CREATE" PROVE t[k].id \in R \/ Deleted(q, t[k].id)
  BY <1>3, <1>4, <1>11
<1>12. QED
  BY <1>5, <1>6, <1>7, <1>8, <1>10, <1>11 DEF Rest

LEMMA PairReadConn ==
  ASSUME NEW R, NEW L, NEW q \in Seq(Message), q # <<>>, PairInv(R, L, q), q[1].kind = "CONN"
  PROVE  PairInv(R, L, Tail(q))
<1>1. PICK t : t = Tail(q)
  OBVIOUS
<1>2. /\ OneUse(t) /\ CreateIsNew(L, t) /\ DeleteIsLast(R, t)
      /\ \A i : Deleted(q, i) => Deleted(t, i) \/ (q[1].kind = "DELETE" /\ q[1].id = i)
      /\ \A k \in DOMAIN t : t[k].kind = "CREATE" => t[k].id \in R \/ Deleted(q, t[k].id)
  <2>1. Rest(R, L, q, t)
    BY <1>1, PairRead
  <2>2. QED
    BY <2>1 DEF Rest
<1>3. \A i : Deleted(q, i) => Deleted(t, i)
  BY <1>2
<1>4. HeldUp(R, L, t)
  BY <1>2, <1>3 DEF PairInv, HeldUp
<1>5. QED
  BY <1>1, <1>2, <1>4 DEF PairInv

LEMMA PairReadCreate ==
  ASSUME NEW R, NEW L, NEW q \in Seq(Message), q # <<>>, PairInv(R, L, q),
         q[1].kind = "CREATE", NEW l, l.id = q[1].id
  PROVE  PairInv(R, L \cup {l}, Tail(q))
<1>1. PICK t : t = Tail(q)
  OBVIOUS
<1>2. /\ OneUse(t) /\ CreateIsNew(L, t) /\ DeleteIsLast(R, t)
      /\ \A i : Deleted(q, i) => Deleted(t, i) \/ (q[1].kind = "DELETE" /\ q[1].id = i)
      /\ \A k \in DOMAIN t : t[k].kind # "CONN" /\ About(q[1], t[k].id) =>
           q[1].kind = "CREATE" /\ t[k].kind = "DELETE"
      /\ \A k \in DOMAIN t : t[k].kind = "CREATE" => t[k].id \in R \/ Deleted(q, t[k].id)
  <2>1. Rest(R, L, q, t)
    BY <1>1, PairRead
  <2>2. QED
    BY <2>1 DEF Rest
<1>3. \A i : Deleted(q, i) => Deleted(t, i)
  BY <1>2
<1>4. 1 \in DOMAIN q
  BY TailShape
<1>5. l.id \in R \/ Deleted(q, l.id)
  BY <1>4 DEF PairInv, HeldUp
<1>6. \A k \in L : k.id # l.id
  BY <1>4 DEF PairInv, CreateIsNew
<1>7. HeldUp(R, L \cup {l}, t)
  BY <1>2, <1>3, <1>5 DEF PairInv, HeldUp
<1>8. OneLink(L \cup {l})
  BY <1>6 DEF PairInv, OneLink
<1>9. ASSUME NEW k \in DOMAIN t, t[k].kind = "CREATE" PROVE l.id # t[k].id
  BY <1>2, <1>9 DEF About
<1>10. CreateIsNew(L \cup {l}, t)
  BY <1>2, <1>9 DEF CreateIsNew
<1>11. QED
  BY <1>1, <1>2, <1>7, <1>8, <1>10 DEF PairInv

LEMMA PairReadDelete ==
  ASSUME NEW R, NEW L, NEW q \in Seq(Message), q # <<>>, PairInv(R, L, q),
         q[1].kind = "DELETE", NEW l \in L, l.id = q[1].id
  PROVE  PairInv(R, L \ {l}, Tail(q))
<1>1. PICK t : t = Tail(q)
  OBVIOUS
<1>2. /\ OneUse(t) /\ CreateIsNew(L, t) /\ DeleteIsLast(R, t)
      /\ \A i : Deleted(q, i) => Deleted(t, i) \/ (q[1].kind = "DELETE" /\ q[1].id = i)
      /\ \A k \in DOMAIN t : t[k].kind # "CONN" /\ About(q[1], t[k].id) =>
           q[1].kind = "CREATE" /\ t[k].kind = "DELETE"
      /\ \A k \in DOMAIN t : t[k].kind = "CREATE" => t[k].id \in R \/ Deleted(q, t[k].id)
  <2>1. Rest(R, L, q, t)
    BY <1>1, PairRead
  <2>2. QED
    BY <2>1 DEF Rest
<1>3. ASSUME NEW k \in L \ {l} PROVE k.id \in R \/ Deleted(t, k.id)
  <2>1. k.id # l.id
    BY DEF PairInv, OneLink
  <2>2. k.id \in R \/ Deleted(q, k.id)
    BY DEF PairInv, HeldUp
  <2>3. QED
    BY <1>2, <2>1, <2>2
<1>4. ASSUME NEW k \in DOMAIN t, t[k].kind = "CREATE" PROVE t[k].id \in R \/ Deleted(t, t[k].id)
  <2>1. ~About(q[1], t[k].id)
    BY <1>2, <1>4
  <2>2. QED
    BY <1>2, <1>4, <2>1 DEF About
<1>5. HeldUp(R, L \ {l}, t)
  BY <1>3, <1>4 DEF HeldUp
<1>6. OneLink(L \ {l}) /\ CreateIsNew(L \ {l}, t)
  BY <1>2 DEF PairInv, OneLink, CreateIsNew
<1>7. QED
  BY <1>1, <1>2, <1>5, <1>6 DEF PairInv

\* A relay is made and its CREATE written.
LEMMA PairCreate ==
  ASSUME NEW R, NEW L, NEW q \in Seq(Message), PairInv(R, L, q),
         NEW i, i \notin R, \A l \in L : l.id # i, \A k \in DOMAIN q : ~About(q[k], i),
         NEW m \in Message, m.kind = "CREATE", m.id = i
  PROVE  PairInv(R \cup {i}, L, Append(q, m))
<1>1. PICK t, n : t = Append(q, m) /\ n = Len(q)
  OBVIOUS
<1>2. /\ n \in Nat /\ DOMAIN q = 1..n /\ DOMAIN t = 1..(n + 1)
      /\ \A k \in 1..(n + 1) : t[k] = IF k <= n THEN q[k] ELSE m
  BY <1>1, AppendShape
<1>3. ASSUME NEW k \in DOMAIN t
      PROVE  (k \in DOMAIN q /\ t[k] = q[k]) \/ (k = n + 1 /\ t[k] = m)
  BY <1>2
<1>4. \A k \in DOMAIN q : k \in DOMAIN t /\ t[k] = q[k]
  BY <1>2
<1>5. OneUse(t)
  <2>1. SUFFICES ASSUME NEW j \in DOMAIN t, NEW k \in DOMAIN t, j < k, t[k].kind # "CONN",
                        About(t[j], t[k].id)
                 PROVE  t[j].kind = "CREATE" /\ t[k].kind = "DELETE"
    BY DEF OneUse
  <2>2. j \in DOMAIN q /\ t[j] = q[j]
    BY <1>2, <2>1
  <2>3. k \in DOMAIN q /\ t[k] = q[k]
    <3>1. CASE k = n + 1 /\ t[k] = m
      BY <2>1, <2>2, <3>1
    <3>2. QED
      BY <1>3, <3>1
  <2>4. QED
    BY <2>1, <2>2, <2>3 DEF PairInv, OneUse
<1>6. CreateIsNew(L, t)
  BY <1>3 DEF PairInv, CreateIsNew
<1>7. DeleteIsLast(R \cup {i}, t)
  <2>1. SUFFICES ASSUME NEW k \in DOMAIN t, t[k].kind = "DELETE" PROVE t[k].id \notin R \cup {i}
    BY DEF DeleteIsLast
  <2>2. k \in DOMAIN q /\ t[k] = q[k]
    BY <1>3, <2>1
  <2>3. t[k].id # i
    BY <2>1, <2>2 DEF About
  <2>4. QED
    BY <2>1, <2>2, <2>3 DEF PairInv, DeleteIsLast
<1>8. \A x : Deleted(q, x) => Deleted(t, x)
  BY <1>4 DEF Deleted
<1>9. HeldUp(R \cup {i}, L, t)
  BY <1>3, <1>8 DEF PairInv, HeldUp
<1>10. QED
  BY <1>1, <1>5, <1>6, <1>7, <1>9 DEF PairInv

\* s holds one DELETE for each of the ids D.
OneEach(s, D) ==
  /\ \A k \in DOMAIN s : s[k].kind = "DELETE" /\ s[k].id \in D /\ s[k].dist = 0
  /\ \A j, k \in DOMAIN s : s[j].id = s[k].id => j = k
  /\ \A i \in D : \E k \in DOMAIN s : s[k].id = i

\* Relays go and their DELETEs are written.
LEMMA PairDelete ==
  ASSUME NEW R, NEW L, NEW q \in Seq(Message), PairInv(R, L, q),
         NEW D, D \subseteq R, NEW s \in Seq(Message), OneEach(s, D)
  PROVE  PairInv(R \ D, L, q \o s)
<1> USE DEF OneEach
<1>1. PICK t, n, p : t = q \o s /\ n = Len(q) /\ p = Len(s)
  OBVIOUS
<1>2. /\ n \in Nat /\ p \in Nat /\ DOMAIN q = 1..n /\ DOMAIN s = 1..p /\ DOMAIN t = 1..(n + p)
      /\ \A k \in 1..(n + p) : t[k] = IF k <= n THEN q[k] ELSE s[k - n]
  BY <1>1, ConcatShape
<1>3. ASSUME NEW k \in DOMAIN t
      PROVE  (k \in DOMAIN q /\ t[k] = q[k]) \/ (k - n \in DOMAIN s /\ t[k] = s[k - n])
  BY <1>2
<1>4. \A k \in DOMAIN q : k \in DOMAIN t /\ t[k] = q[k]
  BY <1>2
<1>5. \A k \in DOMAIN s : n + k \in DOMAIN t /\ t[n + k] = s[k]
  BY <1>2
<1>6. /\ OneUse(q) /\ CreateIsNew(L, q) /\ DeleteIsLast(R, q) /\ HeldUp(R, L, q) /\ OneLink(L)
  BY DEF PairInv
<1>7. ASSUME NEW j \in DOMAIN t, NEW k \in DOMAIN t, j < k, t[k].kind # "CONN", About(t[j], t[k].id)
      PROVE  t[j].kind = "CREATE" /\ t[k].kind = "DELETE"
  <2>1. CASE k \in DOMAIN q /\ t[k] = q[k]
    <3>1. j \in DOMAIN q /\ t[j] = q[j]
      BY <1>2, <1>7, <2>1
    <3>2. QED
      BY <1>6, <1>7, <2>1, <3>1 DEF OneUse
  <2>2. CASE k - n \in DOMAIN s /\ t[k] = s[k - n]
    <3>1. t[k].kind = "DELETE" /\ t[k].id \in R
      BY <2>2
    <3>2. t[j].kind # "CONN" /\ t[j].id = t[k].id
      BY <1>7 DEF About
    <3>3. j \in DOMAIN q /\ t[j] = q[j]
      <4>1. CASE j - n \in DOMAIN s /\ t[j] = s[j - n]
        <5>1. j - n = k - n
          BY <2>2, <3>2, <4>1
        <5>2. QED
          BY <1>2, <1>7, <5>1
      <4>2. QED
        BY <1>3, <4>1
    <3>4. t[j].kind # "DELETE"
      BY <1>6, <3>1, <3>2, <3>3 DEF DeleteIsLast
    <3>5. t[j].kind \in {"CONN", "CREATE", "DELETE"}
      <4>1. q[j] \in Message
        BY <3>3
      <4>2. QED
        BY <3>3, <4>1 DEF Message
    <3>6. QED
      BY <3>1, <3>2, <3>4, <3>5
  <2>3. QED
    BY <1>3, <2>1, <2>2
<1>8. OneUse(t)
  BY <1>7 DEF OneUse
<1>9. CreateIsNew(L, t)
  BY <1>3, <1>6 DEF CreateIsNew
<1>10. DeleteIsLast(R \ D, t)
  BY <1>3, <1>6 DEF DeleteIsLast
<1>11. \A x : Deleted(q, x) => Deleted(t, x)
  BY <1>4 DEF Deleted
<1>12. \A x \in D : Deleted(t, x)
  BY <1>5 DEF Deleted
<1>13. HeldUp(R \ D, L, t)
  BY <1>3, <1>6, <1>11, <1>12 DEF HeldUp
<1>14. QED
  BY <1>1, <1>6, <1>8, <1>9, <1>10, <1>13 DEF PairInv

LEMMA PairEmpty ==
  ASSUME NEW R
  PROVE  PairInv(R, {}, <<>>)
BY DEF PairInv, OneUse, CreateIsNew, DeleteIsLast, HeldUp, OneLink

-----------------------------------------------------------------------------
(* Types *)

LEMMA ConnPair ==
  ASSUME NEW d \in Daemons, NEW e \in Daemons, {d, e} \in Conns
  PROVE  d # e
<1>1. Cardinality({d, e}) = 2
  BY TopologyAssumption
<1>2. Cardinality({d}) = 1
  BY FS_Singleton
<1>3. QED
  BY <1>1, <1>2

LEMMA PairSym == \A d, e : {d, e} = {e, d}
OBVIOUS

LEMMA SignalType ==
  ASSUME Types, NEW d \in Daemons, NEW e \in Daemons \cup {Kernel}
  PROVE  Signal(d, e) \in [Daemons -> SUBSET (Daemons \cup {Kernel})]
<1>1. sig \in [Daemons -> SUBSET (Daemons \cup {Kernel})]
  BY DEF Types
<1>2. QED
  BY <1>1 DEF Signal

LEMMA DeleteType ==
  ASSUME NEW i \in Ids
  PROVE  /\ DeleteMsg(i) \in Message /\ DeleteMsg(i).kind = "DELETE" /\ DeleteMsg(i).id = i
         /\ DeleteMsg(i).dist = 0
BY DEF DeleteMsg, Message

\* The ids of the relays to e among rs.
IdsTo(rs, e) == {r.id : r \in {x \in rs : x.to = e}}

\* dmsg_relay_delete writes one DELETE for each relay.
LEMMA DeletesShape ==
  ASSUME NEW d, NEW e, NEW rs \in SUBSET Relay, NEW s, s = Deletes(d, e, rs),
         NEW D, D = IdsTo(rs, e)
  PROVE  s \in Seq(Message) /\ OneEach(s, D) /\ (D = {} => s = <<>>)
<1>1. D \subseteq Ids
  BY DEF Relay, IdsTo
<1>2. PICK S : S = {DeleteMsg(i) : i \in D}
  OBVIOUS
<1>3. s = SetToSeq(S)
  <2>1. S = {DeleteMsg(r.id) : r \in {q \in rs : q.to = e}}
    BY <1>2 DEF IdsTo
  <2>2. QED
    BY <2>1 DEF Deletes
<1>4. IsFiniteSet(S)
  <2>1. IsFiniteSet(Ids)
    BY BoundAssumption, FS_Interval DEF Ids
  <2>2. IsFiniteSet(D)
    BY <1>1, <2>1, FS_Subset
  <2>3. PICK f : f = [i \in D |-> DeleteMsg(i)]
    OBVIOUS
  <2>4. f \in Surjection(D, S)
    BY <1>2, <2>3 DEF Surjection
  <2>5. QED
    BY <2>2, <2>4, FS_Surjection
<1>5. /\ s \in Seq(S) /\ DOMAIN s = 1..Len(s)
      /\ \A k \in DOMAIN s : s[k] \in S
      /\ \A j, k \in DOMAIN s : s[j] = s[k] => j = k
      /\ \A x \in S : \E k \in DOMAIN s : s[k] = x
  BY <1>3, <1>4, SetToSeqShape
<1>6. ASSUME NEW x \in S
      PROVE  x \in Message /\ x.kind = "DELETE" /\ x.id \in D /\ x.dist = 0 /\ x = DeleteMsg(x.id)
  <2>1. PICK i \in D : x = DeleteMsg(i)
    BY <1>2
  <2>2. QED
    BY <1>1, <2>1, DeleteType
<1>7. s \in Seq(Message)
  <2>1. S \subseteq Message
    BY <1>6
  <2>2. QED
    BY <1>5, <2>1
<1>8. ASSUME NEW j \in DOMAIN s, NEW k \in DOMAIN s, s[j].id = s[k].id PROVE j = k
  <2>1. s[j] = DeleteMsg(s[j].id) /\ s[k] = DeleteMsg(s[k].id)
    BY <1>5, <1>6
  <2>2. QED
    BY <1>5, <1>8, <2>1
<1>9. ASSUME NEW i \in D PROVE \E k \in DOMAIN s : s[k].id = i
  <2>1. DeleteMsg(i) \in S /\ DeleteMsg(i).id = i
    BY <1>1, <1>2, DeleteType
  <2>2. QED
    BY <1>5, <2>1
<1>10. ASSUME D = {} PROVE s = <<>>
  <2>1. S = {}
    BY <1>2, <1>10
  <2>2. PICK n \in Nat : n = Len(s)
    BY <1>7
  <2>3. \A k \in 1..n : s[k] \in {}
    BY <1>5, <2>1, <2>2
  <2>4. n = 0
    <3>1. ~(1 \in 1..n)
      BY <2>3
    <3>2. QED
      BY <3>1
  <2>5. QED
    BY <1>7, <2>2, <2>4, EmptySeq
<1>11. OneEach(s, D)
  BY <1>5, <1>6, <1>8, <1>9 DEF OneEach
<1>12. QED
  BY <1>7, <1>10, <1>11

-----------------------------------------------------------------------------
(* A daemon crashes *)

LEMMA CrashInv ==
  ASSUME IInv, NEW d \in Daemons, Crash(d), mounted' = mounted
  PROVE  IInv'
<1>1. Types /\ WireInv /\ RelayInv /\ TreeInv /\ DistInv /\ PairsInv
  BY DEF IInv
<1>2. /\ link' = [link EXCEPT ![d] = {}] /\ relay' = [relay EXCEPT ![d] = {}]
      /\ tree' = [tree EXCEPT ![d] = [e \in Daemons |-> {}]]
      /\ connq' = [connq EXCEPT ![d] = {}] /\ sig' = [sig EXCEPT ![d] = {}]
      /\ broken' = broken \cup {c \in Conns : d \in c}
      /\ chan' = [x \in Daemons |-> [y \in Daemons |-> IF d \in {x, y} THEN <<>> ELSE chan[x][y]]]
      /\ failed' = [failed EXCEPT ![d] = {}] /\ crashed' = crashed \cup {d}
  BY DEF Crash
<1>3. Types'
  <2>1. chan' \in [Daemons -> [Daemons -> Seq(Message)]]
    BY <1>1, <1>2 DEF Types
  <2>2. tree' \in [Daemons -> [Daemons -> SUBSET Ids]]
    BY <1>1, <1>2 DEF Types
  <2>3. QED
    BY <1>1, <1>2, <2>1, <2>2 DEF Types
<1>4. ASSUME NEW x \in Daemons
      PROVE  /\ x = d => link'[x] = {} /\ relay'[x] = {} /\ connq'[x] = {} /\ failed'[x] = {}
             /\ x # d => link'[x] = link[x] /\ relay'[x] = relay[x] /\ connq'[x] = connq[x]
                         /\ failed'[x] = failed[x] /\ tree'[x] = tree[x]
             /\ \A y \in Daemons : x = d => tree'[x][y] = {}
  BY <1>1, <1>2 DEF Types
<1>5. ASSUME NEW x \in Daemons, NEW y \in Daemons
      PROVE  chan'[x][y] = IF d \in {x, y} THEN <<>> ELSE chan[x][y]
  BY <1>2
<1>6. WireInv'
  <2>1. ASSUME NEW x \in Daemons, NEW y \in Daemons, chan'[x][y] # <<>>
        PROVE  {x, y} \in Conns /\ {x, y} \notin broken'
    <3>1. d \notin {x, y} /\ chan[x][y] # <<>>
      BY <1>5, <2>1
    <3>2. {x, y} \in Conns /\ {x, y} \notin broken
      BY <1>1, <3>1 DEF WireInv
    <3>3. QED
      BY <1>2, <3>1, <3>2
  <2>2. \A x, y \in Daemons : y \in connq'[x] => {x, y} \in Conns
    BY <1>1, <1>4 DEF WireInv
  <2>3. \A x, y \in Daemons : y \in failed'[x] => {x, y} \in broken'
    BY <1>1, <1>2, <1>4 DEF WireInv
  <2>4. \A x \in Daemons : \A l \in link'[x] : l.from = Kernel \/ {x, l.from} \in Conns
    BY <1>1, <1>4 DEF WireInv
  <2>5. QED
    BY <2>1, <2>2, <2>3, <2>4 DEF WireInv
<1>7. RelayInv'
  BY <1>1, <1>4 DEF RelayInv
<1>8. ASSUME NEW x \in Daemons, NEW y \in Daemons
      PROVE  /\ x # d => RelayIds(x, y)' = RelayIds(x, y)
             /\ y # d => LinksFrom(y, x)' = LinksFrom(y, x)
             /\ y = d => LinksFrom(y, x)' = {}
  BY <1>4 DEF RelayIds, LinksFrom
<1>9. TreeInv'
  BY <1>1, <1>4, <1>8 DEF TreeInv
<1>10. DistInv'
  <2>1. \A x, y \in Daemons : \A k \in DOMAIN chan'[x][y] : chan'[x][y][k].dist <= MaxDist + 1
    BY <1>1, <1>5 DEF DistInv
  <2>2. QED
    BY <1>1, <1>4, <2>1 DEF DistInv
<1>11. ASSUME NEW x \in Daemons, NEW y \in Daemons, {x, y} \notin broken'
       PROVE  PairInv(RelayIds(x, y)', LinksFrom(y, x)', chan'[x][y])
  <2>1. {x, y} \notin broken
    BY <1>2, <1>11
  <2>2. CASE d \notin {x, y}
    <3>1. x # d /\ y # d
      BY <2>2
    <3>2. QED
      BY <1>1, <1>5, <1>8, <2>1, <2>2, <3>1 DEF PairsInv
  <2>3. CASE d \in {x, y}
    <3>1. {x, y} \notin Conns
      BY <1>2, <1>11, <2>3
    <3>2. x # Kernel
      BY TopologyAssumption
    <3>3. \A l \in link[y] : l.from # x
      BY <1>1, <3>1, <3>2, PairSym DEF WireInv
    <3>4. LinksFrom(y, x)' = {}
      BY <1>8, <3>3 DEF LinksFrom
    <3>5. chan'[x][y] = <<>>
      BY <1>5, <2>3
    <3>6. QED
      BY <3>4, <3>5, PairEmpty
  <2>4. QED
    BY <2>2, <2>3
<1>12. PairsInv'
  BY <1>11 DEF PairsInv
<1>13. QED
  BY <1>3, <1>6, <1>7, <1>9, <1>10, <1>12 DEF IInv

-----------------------------------------------------------------------------
(* Messages are read *)

\* The connections hold in, where there is nothing that needs a connection more.
Kept(in) ==
  /\ in \in [Daemons -> [Daemons -> Seq(Message)]]
  /\ \A x, y \in Daemons : in[x][y] # <<>> => chan[x][y] # <<>>
  /\ \A x, y \in Daemons : \A k \in DOMAIN in[x][y] : in[x][y][k].dist <= MaxDist + 1

\* The first message of e to d is read.
Reads(d, e, m, in) ==
  /\ in[e][d] = Tail(chan[e][d]) /\ chan[e][d] \in Seq(Message)
  /\ \A x, y \in Daemons : ~(x = e /\ y = d) => in[x][y] = chan[x][y]
  /\ {d, e} \in Conns /\ {e, d} \notin broken /\ d # e
  /\ m = chan[e][d][1] /\ m \in Message /\ m.dist <= MaxDist + 1
  /\ PairInv(RelayIds(e, d), LinksFrom(d, e), chan[e][d])

LEMMA ReadChan ==
  ASSUME IInv, NEW d \in Daemons, NEW e \in Daemons, chan[e][d] # <<>>,
         NEW in, in = [chan EXCEPT ![e][d] = Tail(@)], NEW m, m = Head(chan[e][d])
  PROVE  Kept(in) /\ Reads(d, e, m, in)
<1>1. chan \in [Daemons -> [Daemons -> Seq(Message)]] /\ WireInv /\ DistInv /\ PairsInv
  BY DEF IInv, Types
<1>2. PICK q \in Seq(Message) : q = chan[e][d]
  BY <1>1
<1>3. /\ Tail(q) \in Seq(Message) /\ Head(q) = q[1] /\ 1 \in DOMAIN q
      /\ \A k \in DOMAIN Tail(q) : k + 1 \in DOMAIN q /\ Tail(q)[k] = q[k + 1]
  <2>1. PICK n \in Nat : n = Len(q)
    OBVIOUS
  <2>2. /\ Tail(q) \in Seq(Message) /\ Head(q) = q[1] /\ 1 \in DOMAIN q
        /\ DOMAIN Tail(q) = 1..(n - 1) /\ DOMAIN q = 1..n
        /\ \A k \in 1..(n - 1) : Tail(q)[k] = q[k + 1]
    BY <1>2, <2>1, TailShape
  <2>3. QED
    BY <2>1, <2>2
<1>4. q[1] \in Message
  BY <1>2, <1>3
<1>5. in \in [Daemons -> [Daemons -> Seq(Message)]] /\ in[e][d] = Tail(q)
  BY <1>1, <1>2, <1>3
<1>6. ASSUME NEW x \in Daemons, NEW y \in Daemons, ~(x = e /\ y = d)
      PROVE  in[x][y] = chan[x][y]
  BY <1>1, <1>6
<1>7. ASSUME NEW k \in DOMAIN q PROVE q[k].dist <= MaxDist + 1
  BY <1>1, <1>2 DEF DistInv
<1>8. ASSUME NEW x \in Daemons, NEW y \in Daemons, NEW k \in DOMAIN in[x][y]
      PROVE  in[x][y][k].dist <= MaxDist + 1
  <2>1. CASE x = e /\ y = d
    BY <1>3, <1>5, <1>7, <2>1
  <2>2. CASE ~(x = e /\ y = d)
    <3>1. in[x][y] = chan[x][y]
      BY <1>6, <2>2
    <3>2. QED
      BY <1>1, <3>1 DEF DistInv
  <2>3. QED
    BY <2>1, <2>2
<1>9. {e, d} \in Conns /\ {e, d} \notin broken
  BY <1>1 DEF WireInv
<1>10. {d, e} \in Conns /\ d # e
  BY <1>9, PairSym, ConnPair
<1>11. PairInv(RelayIds(e, d), LinksFrom(d, e), chan[e][d])
  BY <1>1, <1>9 DEF PairsInv
<1>12. \A x, y \in Daemons : in[x][y] # <<>> => chan[x][y] # <<>>
  BY <1>6
<1>13. Kept(in)
  BY <1>5, <1>8, <1>12 DEF Kept
<1>14. m = q[1] /\ q[1].dist <= MaxDist + 1
  BY <1>2, <1>3, <1>7
<1>15. QED
  BY <1>2, <1>4, <1>5, <1>6, <1>9, <1>10, <1>11, <1>13, <1>14 DEF Reads

LEMMA ReceiveConnInv ==
  ASSUME IInv, NEW d \in Daemons, NEW e \in Daemons, ReceiveConn(d, e)
  PROVE  IInv'
<1>1. Types /\ WireInv /\ RelayInv /\ TreeInv /\ DistInv /\ PairsInv
  BY DEF IInv
<1>2. /\ chan[e][d] # <<>> /\ Head(chan[e][d]).kind = "CONN"
      /\ connq' = [connq EXCEPT ![d] = @ \cup {e}] /\ sig' = Signal(d, e)
      /\ chan' = [chan EXCEPT ![e][d] = Tail(@)]
      /\ mounted' = mounted /\ link' = link /\ relay' = relay /\ tree' = tree
      /\ broken' = broken /\ failed' = failed /\ crashed' = crashed
  BY DEF ReceiveConn
<1>3. PICK in, m : in = [chan EXCEPT ![e][d] = Tail(@)] /\ m = Head(chan[e][d])
  OBVIOUS
<1>4. Kept(in) /\ Reads(d, e, m, in)
  BY <1>2, <1>3, ReadChan
<1>5. chan' = in /\ in \in [Daemons -> [Daemons -> Seq(Message)]] /\ {d, e} \in Conns
  BY <1>2, <1>3, <1>4 DEF Kept, Reads
<1>6. Types'
  <2>1. sig' \in [Daemons -> SUBSET (Daemons \cup {Kernel})]
    BY <1>1, <1>2, SignalType
  <2>2. connq' \in [Daemons -> SUBSET Daemons]
    BY <1>1, <1>2 DEF Types
  <2>3. QED
    BY <1>1, <1>2, <1>5, <2>1, <2>2 DEF Types
<1>7. WireInv'
  <2>1. \A x, y \in Daemons : y \in connq'[x] => y \in connq[x] \/ (x = d /\ y = e)
    BY <1>1, <1>2 DEF Types
  <2>2. \A x, y \in Daemons : y \in connq'[x] => {x, y} \in Conns
    BY <1>1, <1>5, <2>1 DEF WireInv
  <2>3. \A x, y \in Daemons : chan'[x][y] # <<>> => {x, y} \in Conns /\ {x, y} \notin broken
    BY <1>1, <1>4, <1>5 DEF Kept, WireInv
  <2>4. QED
    BY <1>1, <1>2, <2>2, <2>3 DEF WireInv
<1>8. RelayInv' /\ DistInv'
  BY <1>1, <1>2, <1>4, <1>5 DEF RelayInv, DistInv, Kept
<1>9. \A x, y \in Daemons : RelayIds(x, y)' = RelayIds(x, y) /\ LinksFrom(x, y)' = LinksFrom(x, y)
  BY <1>2 DEF RelayIds, LinksFrom
<1>10. TreeInv'
  BY <1>1, <1>2, <1>9 DEF TreeInv
<1>11. PairInv(RelayIds(e, d), LinksFrom(d, e), in[e][d])
  <2>1. /\ chan[e][d][1].kind = "CONN" /\ in[e][d] = Tail(chan[e][d]) /\ chan[e][d] \in Seq(Message)
        /\ PairInv(RelayIds(e, d), LinksFrom(d, e), chan[e][d])
    BY <1>2, <1>3, <1>4 DEF Reads
  <2>2. QED
    BY <1>2, <2>1, PairReadConn
<1>12. ASSUME NEW x \in Daemons, NEW y \in Daemons, {x, y} \notin broken'
       PROVE  PairInv(RelayIds(x, y)', LinksFrom(y, x)', chan'[x][y])
  <2>1. CASE x = e /\ y = d
    BY <1>5, <1>9, <1>11, <2>1
  <2>2. CASE ~(x = e /\ y = d)
    <3>1. chan'[x][y] = chan[x][y]
      BY <1>4, <1>5, <2>2 DEF Reads
    <3>2. PairInv(RelayIds(x, y), LinksFrom(y, x), chan[x][y])
      BY <1>1, <1>2, <1>12 DEF PairsInv
    <3>3. QED
      BY <1>9, <3>1, <3>2
  <2>3. QED
    BY <2>1, <2>2
<1>13. PairsInv'
  BY <1>12 DEF PairsInv
<1>14. QED
  BY <1>6, <1>7, <1>8, <1>10, <1>13 DEF IInv

\* dmsg_lnk_span on a CREATE; in is what the connections hold afterwards.
LEMMA AddLinkInv ==
  ASSUME IInv, NEW d \in Daemons, NEW l \in Link, AddLink(d, l), mounted' \in BOOLEAN,
         NEW in, chan' = in, Kept(in),
         l.from = Kernel \/ {d, l.from} \in Conns, l.dist <= MaxDist + 1,
         \A x, y \in Daemons : {x, y} \notin broken =>
           PairInv(RelayIds(x, y),
                   IF y = d /\ l.from = x THEN LinksFrom(y, x) \cup {l} ELSE LinksFrom(y, x), in[x][y])
  PROVE  IInv'
<1>1. Types /\ WireInv /\ RelayInv /\ TreeInv /\ DistInv /\ PairsInv
  BY DEF IInv
<1>2. /\ link' = [link EXCEPT ![d] = @ \cup {l}] /\ sig' = Signal(d, l.from)
      /\ relay' = relay /\ tree' = tree /\ connq' = connq /\ broken' = broken /\ failed' = failed
      /\ crashed' = crashed
  BY DEF AddLink
<1>3. l.from \in Daemons \cup {Kernel}
  BY DEF Link
<1>4. Types'
  <2>1. sig' \in [Daemons -> SUBSET (Daemons \cup {Kernel})]
    BY <1>1, <1>2, <1>3, SignalType
  <2>2. link' \in [Daemons -> SUBSET Link]
    BY <1>1, <1>2 DEF Types
  <2>3. QED
    BY <1>1, <1>2, <2>1, <2>2 DEF Types, Kept
<1>5. \A x \in Daemons : link'[x] = IF x = d THEN link[x] \cup {l} ELSE link[x]
  BY <1>1, <1>2 DEF Types
<1>6. WireInv'
  <2>1. ASSUME NEW x \in Daemons, NEW m \in link'[x] PROVE m.from = Kernel \/ {x, m.from} \in Conns
    <3>1. CASE m \in link[x]
      BY <1>1, <3>1 DEF WireInv
    <3>2. CASE m \notin link[x]
      BY <1>5, <3>2
    <3>3. QED
      BY <3>1, <3>2
  <2>2. \A x, y \in Daemons : chan'[x][y] # <<>> => {x, y} \in Conns /\ {x, y} \notin broken
    BY <1>1 DEF WireInv, Kept
  <2>3. QED
    BY <1>1, <1>2, <2>1, <2>2 DEF WireInv
<1>7. RelayInv'
  <2>1. \A x \in Daemons : link[x] \subseteq link'[x]
    BY <1>5
  <2>2. \A x \in Daemons : \A r \in relay[x] : \E k \in link'[x] : Of(r, k)
    BY <1>1, <2>1 DEF RelayInv
  <2>3. QED
    BY <1>1, <1>2, <2>2 DEF RelayInv
<1>8. DistInv'
  BY <1>1, <1>5 DEF DistInv, Kept
<1>9. \A x, y \in Daemons : RelayIds(x, y)' = RelayIds(x, y)
  BY <1>2 DEF RelayIds
<1>10. TreeInv'
  BY <1>1, <1>2, <1>9 DEF TreeInv
<1>11. ASSUME NEW x \in Daemons, NEW y \in Daemons
       PROVE  LinksFrom(y, x)' =
                IF y = d /\ l.from = x THEN LinksFrom(y, x) \cup {l} ELSE LinksFrom(y, x)
  BY <1>5 DEF LinksFrom
<1>12. PairsInv'
  BY <1>2, <1>9, <1>11 DEF PairsInv
<1>13. QED
  BY <1>4, <1>6, <1>7, <1>8, <1>10, <1>12 DEF IInv

LEMMA MountInv ==
  ASSUME IInv, Mount
  PROVE  IInv'
<1>1. /\ Types /\ WireInv /\ DistInv /\ PairsInv
  BY DEF IInv
<1>2. Home \in Daemons /\ Kernel \notin Daemons /\ MaxDist \in Nat /\ 1 \in Ids
  BY TopologyAssumption, BoundAssumption DEF Ids
<1>3. PICK l : l = KernelLink
  OBVIOUS
<1>4. l \in Link /\ l.from = Kernel /\ l.dist <= MaxDist + 1
  BY <1>2, <1>3 DEF KernelLink, Link
<1>5. AddLink(Home, l) /\ mounted' \in BOOLEAN /\ chan' = chan
  BY <1>3 DEF Mount
<1>6. Kept(chan)
  BY <1>1 DEF Types, DistInv, Kept
<1>7. ASSUME NEW x \in Daemons, NEW y \in Daemons, {x, y} \notin broken
      PROVE  PairInv(RelayIds(x, y),
                     IF y = Home /\ l.from = x THEN LinksFrom(y, x) \cup {l} ELSE LinksFrom(y, x),
                     chan[x][y])
  <2>1. l.from # x
    BY <1>2, <1>4
  <2>2. QED
    BY <1>1, <1>7, <2>1 DEF PairsInv
<1>8. QED
  BY <1>2, <1>4, <1>5, <1>6, <1>7, AddLinkInv

LEMMA ReceiveCreateInv ==
  ASSUME IInv, NEW d \in Daemons, NEW e \in Daemons, ReceiveCreate(d, e)
  PROVE  IInv'
<1>1. Types /\ PairsInv
  BY DEF IInv
<1>2. PICK m : m = Head(chan[e][d])
  OBVIOUS
<1>3. PICK l : l = [from |-> e, id |-> m.id, dist |-> m.dist]
  OBVIOUS
<1>4. PICK in : in = [chan EXCEPT ![e][d] = Tail(@)]
  OBVIOUS
<1>5. /\ chan[e][d] # <<>> /\ m.kind = "CREATE" /\ AddLink(d, l) /\ chan' = in
      /\ mounted' = mounted
  BY <1>2, <1>3, <1>4 DEF ReceiveCreate
<1>6. Kept(in) /\ Reads(d, e, m, in)
  BY <1>2, <1>4, <1>5, ReadChan
<1>7. /\ m = chan[e][d][1] /\ m \in Message /\ m.dist <= MaxDist + 1 /\ {d, e} \in Conns
      /\ in[e][d] = Tail(chan[e][d]) /\ chan[e][d] \in Seq(Message)
      /\ PairInv(RelayIds(e, d), LinksFrom(d, e), chan[e][d])
  BY <1>6 DEF Reads
<1>8. m.id \in Ids /\ m.dist \in Nat
  BY <1>7 DEF Message
<1>9. l \in Link /\ l.from = e /\ l.id = m.id /\ l.dist = m.dist
  BY <1>3, <1>8 DEF Link
<1>10. PairInv(RelayIds(e, d), LinksFrom(d, e) \cup {l}, in[e][d])
  <2>1. PICK q, R, L : q = chan[e][d] /\ R = RelayIds(e, d) /\ L = LinksFrom(d, e)
    OBVIOUS
  <2>2. /\ q \in Seq(Message) /\ q # <<>> /\ PairInv(R, L, q) /\ q[1].kind = "CREATE"
        /\ l.id = q[1].id /\ in[e][d] = Tail(q)
    BY <1>5, <1>7, <1>9, <2>1
  <2>3. PairInv(R, L \cup {l}, Tail(q))
    BY <2>2, PairReadCreate
  <2>4. QED
    BY <2>1, <2>2, <2>3
<1>11. ASSUME NEW x \in Daemons, NEW y \in Daemons, {x, y} \notin broken
       PROVE  PairInv(RelayIds(x, y),
                      IF y = d /\ l.from = x THEN LinksFrom(y, x) \cup {l} ELSE LinksFrom(y, x),
                      in[x][y])
  <2>1. CASE x = e /\ y = d
    BY <1>9, <1>10, <2>1
  <2>2. CASE ~(x = e /\ y = d)
    <3>1. in[x][y] = chan[x][y]
      BY <1>6, <2>2 DEF Reads
    <3>2. QED
      BY <1>1, <1>9, <1>11, <2>2, <3>1 DEF PairsInv
  <2>3. QED
    BY <2>1, <2>2
<1>12. mounted' \in BOOLEAN
  BY <1>1, <1>5 DEF Types
<1>13. l.from = Kernel \/ {d, l.from} \in Conns
  BY <1>7, <1>9
<1>14. l.dist <= MaxDist + 1
  BY <1>7, <1>9
<1>15. AddLink(d, l) /\ chan' = in /\ Kept(in) /\ l \in Link
  BY <1>5, <1>6, <1>9
<1>16. QED
  BY <1>11, <1>12, <1>13, <1>14, <1>15, AddLinkInv

-----------------------------------------------------------------------------
(* A link goes *)

\* The relays rs of d are deleted.
LEMMA Without ==
  ASSUME Types, RelayInv, NEW d \in Daemons, NEW e \in Daemons, NEW rs \in SUBSET relay[d],
         NEW D, D = IdsTo(rs, e)
  PROVE  IdsTo(relay[d] \ rs, e) = RelayIds(d, e) \ D /\ D \subseteq RelayIds(d, e)
<1>1. D \subseteq RelayIds(d, e)
  BY DEF RelayIds, IdsTo
<1>2. ASSUME NEW i \in RelayIds(d, e) \ D PROVE \E r \in {s \in relay[d] \ rs : s.to = e} : r.id = i
  <2>1. PICK r \in relay[d] : r.to = e /\ r.id = i
    BY DEF RelayIds
  <2>2. r \notin rs
    BY <2>1 DEF IdsTo
  <2>3. QED
    BY <2>1, <2>2
<1>3. ASSUME NEW r \in relay[d] \ rs, r.to = e PROVE r.id \in RelayIds(d, e) /\ r.id \notin D
  <2>1. r.id \in RelayIds(d, e)
    BY <1>3 DEF RelayIds
  <2>2. ASSUME NEW s \in rs, s.to = e, s.id = r.id PROVE FALSE
    BY <1>3, <2>2 DEF RelayInv
  <2>3. QED
    BY <2>1, <2>2 DEF IdsTo
<1>4. QED
  BY <1>1, <1>2, <1>3 DEF IdsTo

\* dmsg_lnk_span on a DELETE; in is what the connections hold when the message
\* has been read.
LEMMA DropLinkInv ==
  ASSUME IInv, NEW d \in Daemons, NEW l \in link[d], NEW in, DropLink(d, l, in), mounted' = mounted,
         Kept(in),
         \A x, y \in Daemons : {x, y} \notin broken =>
           PairInv(RelayIds(x, y),
                   IF y = d THEN LinksFrom(y, x) \ {l} ELSE LinksFrom(y, x), in[x][y])
  PROVE  IInv'
<1>1. Types /\ WireInv /\ RelayInv /\ TreeInv /\ DistInv /\ PairsInv
  BY DEF IInv
<1>2. PICK rs : rs = {r \in relay[d] : Of(r, l)}
  OBVIOUS
<1>3. CASE Dangling(d, rs)
  <2>1. Crash(d)
    BY <1>2, <1>3 DEF DropLink
  <2>2. QED
    BY <2>1, CrashInv
<1>4. CASE ~Dangling(d, rs)
  <2>1. /\ link' = [link EXCEPT ![d] = @ \ {l}] /\ relay' = [relay EXCEPT ![d] = @ \ rs]
        /\ tree' = [tree EXCEPT ![d] = [e \in Daemons |->
                      IF \E r \in rs : r.to = e THEN TreeWithout(d, e, rs) ELSE @[e]]]
        /\ chan' = [in EXCEPT ![d] = [e \in Daemons |->
                      IF {d, e} \in broken THEN @[e] ELSE @[e] \o Deletes(d, e, rs)]]
        /\ sig' = IF link[d] = {l} THEN sig ELSE Signal(d, l.from)
        /\ connq' = connq /\ broken' = broken /\ failed' = failed /\ crashed' = crashed
    BY <1>2, <1>4 DEF DropLink
  <2>2. rs \in SUBSET relay[d] /\ rs \in SUBSET Relay
    BY <1>1, <1>2 DEF Types
  <2>3. in \in [Daemons -> [Daemons -> Seq(Message)]]
    BY DEF Kept
  <2>4. ASSUME NEW x \in Daemons, NEW y \in Daemons
        PROVE  chan'[x][y] = IF x # d \/ {d, y} \in broken THEN in[x][y]
                             ELSE in[x][y] \o Deletes(d, y, rs)
    BY <2>1, <2>3
  <2>5. ASSUME NEW e \in Daemons
        PROVE  /\ Deletes(d, e, rs) \in Seq(Message) /\ OneEach(Deletes(d, e, rs), IdsTo(rs, e))
               /\ IdsTo(rs, e) = {} => Deletes(d, e, rs) = <<>>
    BY <2>2, DeletesShape
  <2>6. \A x \in Daemons : /\ link'[x] = IF x = d THEN link[x] \ {l} ELSE link[x]
                           /\ relay'[x] = IF x = d THEN relay[x] \ rs ELSE relay[x]
    BY <1>1, <2>1 DEF Types
  <2>7. chan' \in [Daemons -> [Daemons -> Seq(Message)]]
    <3>1. ASSUME NEW x \in Daemons, NEW y \in Daemons PROVE chan'[x][y] \in Seq(Message)
      <4>1. in[x][y] \in Seq(Message) /\ Deletes(d, y, rs) \in Seq(Message)
        BY <2>3, <2>5
      <4>2. in[x][y] \o Deletes(d, y, rs) \in Seq(Message)
        BY <4>1, ConcatShape
      <4>3. QED
        BY <2>4, <4>1, <4>2
    <3>2. PICK f : f = [e \in Daemons |->
                          IF {d, e} \in broken THEN in[d][e] ELSE in[d][e] \o Deletes(d, e, rs)]
      OBVIOUS
    <3>3. chan' = [in EXCEPT ![d] = f]
      BY <2>1, <2>3, <3>2
    <3>4. f \in [Daemons -> Seq(Message)]
      BY <2>3, <3>1, <3>2, <3>3
    <3>5. QED
      BY <2>3, <3>3, <3>4
  <2>8. ASSUME NEW x \in Daemons, NEW y \in Daemons
        PROVE  /\ x # d => tree'[x][y] = tree[x][y]
               /\ x = d => tree'[x][y] = IF \E r \in rs : r.to = y THEN TreeWithout(d, y, rs)
                                         ELSE tree[x][y]
    BY <1>1, <2>1 DEF Types
  <2>9. ASSUME NEW x \in Daemons, NEW y \in Daemons PROVE tree'[x][y] \subseteq tree[x][y]
    <3>1. TreeWithout(d, y, rs) \subseteq tree[d][y]
      BY DEF TreeWithout
    <3>2. QED
      BY <2>8, <3>1
  <2>10. Types'
    <3>1. sig' \in [Daemons -> SUBSET (Daemons \cup {Kernel})]
      <4>1. l.from \in Daemons \cup {Kernel} /\ sig \in [Daemons -> SUBSET (Daemons \cup {Kernel})]
        BY <1>1 DEF Types, Link
      <4>2. QED
        BY <1>1, <2>1, <4>1, SignalType
    <3>2. tree' \in [Daemons -> [Daemons -> SUBSET Ids]]
      <4>1. ASSUME NEW e \in Daemons
            PROVE  (IF \E r \in rs : r.to = e THEN TreeWithout(d, e, rs) ELSE tree[d][e]) \in SUBSET Ids
        BY <1>1 DEF Types, TreeWithout
      <4>2. QED
        BY <1>1, <2>1, <4>1 DEF Types
    <3>3. link' \in [Daemons -> SUBSET Link] /\ relay' \in [Daemons -> SUBSET Relay]
      BY <1>1, <2>1 DEF Types
    <3>4. QED
      BY <1>1, <2>1, <2>7, <3>1, <3>2, <3>3 DEF Types
  <2>11. WireInv'
    <3>1. ASSUME NEW x \in Daemons, NEW y \in Daemons, chan'[x][y] # <<>>
          PROVE  {x, y} \in Conns /\ {x, y} \notin broken
      <4>1. CASE in[x][y] # <<>>
        BY <1>1, <4>1 DEF Kept, WireInv
      <4>2. CASE in[x][y] = <<>>
        <5>1. x = d /\ {d, y} \notin broken /\ chan'[x][y] = in[x][y] \o Deletes(d, y, rs)
          BY <2>4, <3>1, <4>2
        <5>2. PICK s : s = Deletes(d, y, rs)
          OBVIOUS
        <5>3. s \in Seq(Message) /\ s # <<>>
          <6>1. s \in Seq(Message)
            BY <2>5, <5>2
          <6>2. <<>> \o s = s
            BY <6>1
          <6>3. QED
            BY <3>1, <4>2, <5>1, <5>2, <6>1, <6>2
        <5>4. PICK r \in rs : r.to = y
          BY <2>5, <5>2, <5>3 DEF IdsTo
        <5>5. y \in connq[d]
          BY <1>4, <5>4 DEF Dangling
        <5>6. QED
          BY <1>1, <5>1, <5>5 DEF WireInv
      <4>3. QED
        BY <4>1, <4>2
    <3>2. \A x \in Daemons : \A m \in link'[x] : m.from = Kernel \/ {x, m.from} \in Conns
      BY <1>1, <2>6 DEF WireInv
    <3>3. QED
      BY <1>1, <2>1, <3>1, <3>2 DEF WireInv
  <2>12. RelayInv'
    <3>1. ASSUME NEW x \in Daemons, NEW r \in relay'[x] PROVE \E k \in link'[x] : Of(r, k)
      <4>1. r \in relay[x]
        BY <2>6
      <4>2. PICK k \in link[x] : Of(r, k)
        BY <1>1, <4>1 DEF RelayInv
      <4>3. CASE x = d /\ k = l
        BY <1>2, <2>6, <4>1, <4>2, <4>3
      <4>4. CASE ~(x = d /\ k = l)
        BY <2>6, <4>2, <4>4
      <4>5. QED
        BY <4>3, <4>4
    <3>2. \A x \in Daemons : relay'[x] \subseteq relay[x]
      BY <2>6
    <3>3. QED
      BY <1>1, <3>1, <3>2 DEF RelayInv
  <2>13. ASSUME NEW x \in Daemons, NEW y \in Daemons
         PROVE  /\ x # d => RelayIds(x, y)' = RelayIds(x, y)
                /\ x = d => /\ RelayIds(x, y)' = RelayIds(x, y) \ IdsTo(rs, y)
                            /\ IdsTo(rs, y) \subseteq RelayIds(x, y)
    <3>1. CASE x # d
      BY <2>6, <3>1 DEF RelayIds
    <3>2. CASE x = d
      <4>1. RelayIds(x, y)' = IdsTo(relay[d] \ rs, y)
        BY <2>6, <3>2 DEF RelayIds, IdsTo
      <4>2. QED
        BY <1>1, <2>2, <3>2, <4>1, Without
    <3>3. QED
      BY <3>1, <3>2
  <2>14. TreeInv'
    <3>1. ASSUME NEW x \in Daemons, NEW y \in Daemons, NEW i \in tree'[x][y] PROVE i \in RelayIds(x, y)'
      <4>1. i \in tree[x][y] /\ i \in RelayIds(x, y)
        BY <1>1, <2>9 DEF TreeInv
      <4>2. CASE x # d
        BY <2>13, <4>1, <4>2
      <4>3. CASE x = d
        <5>1. CASE \E r \in rs : r.to = y
          <6>1. i \in TreeWithout(d, y, rs)
            BY <2>8, <4>3, <5>1
          <6>2. i \notin IdsTo(rs, y)
            BY <6>1 DEF TreeWithout, IdsTo
          <6>3. QED
            BY <2>13, <4>1, <4>3, <6>2
        <5>2. CASE ~ \E r \in rs : r.to = y
          <6>1. IdsTo(rs, y) = {}
            BY <5>2 DEF IdsTo
          <6>2. QED
            BY <2>13, <4>1, <4>3, <6>1
        <5>3. QED
          BY <5>1, <5>2
      <4>4. QED
        BY <4>2, <4>3
    <3>2. QED
      BY <1>1, <2>9, <3>1 DEF TreeInv
  <2>15. DistInv'
    <3>1. ASSUME NEW x \in Daemons, NEW y \in Daemons, NEW k \in DOMAIN chan'[x][y]
          PROVE  chan'[x][y][k].dist <= MaxDist + 1
      <4>1. CASE chan'[x][y] = in[x][y]
        BY <4>1 DEF Kept
      <4>2. CASE chan'[x][y] = in[x][y] \o Deletes(d, y, rs)
        <5>1. PICK q, s : q = in[x][y] /\ s = Deletes(d, y, rs)
          OBVIOUS
        <5>2. q \in Seq(Message) /\ s \in Seq(Message) /\ \A j \in DOMAIN s : s[j].dist = 0
          BY <2>3, <2>5, <5>1 DEF OneEach
        <5>3. \A j \in DOMAIN q : q[j].dist <= MaxDist + 1
          BY <5>1 DEF Kept
        <5>4. PICK n, p : n = Len(q) /\ p = Len(s)
          OBVIOUS
        <5>5. /\ n \in Nat /\ p \in Nat /\ DOMAIN q = 1..n /\ DOMAIN s = 1..p
              /\ DOMAIN (q \o s) = 1..(n + p)
              /\ \A j \in 1..(n + p) : (q \o s)[j] = IF j <= n THEN q[j] ELSE s[j - n]
          BY <5>2, <5>4, ConcatShape
        <5>6. \/ (k \in DOMAIN q /\ (q \o s)[k] = q[k])
              \/ (k - n \in DOMAIN s /\ (q \o s)[k] = s[k - n])
          <6>1. k \in 1..(n + p)
            BY <4>2, <5>1, <5>5
          <6>2. CASE k <= n
            BY <5>5, <6>1, <6>2
          <6>3. CASE ~(k <= n)
            BY <5>5, <6>1, <6>3
          <6>4. QED
            BY <6>2, <6>3
        <5>7. 0 <= MaxDist + 1
          BY BoundAssumption
        <5>8. QED
          BY <4>2, <5>1, <5>2, <5>3, <5>6, <5>7
      <4>3. QED
        BY <2>4, <4>1, <4>2
    <3>2. QED
      BY <1>1, <2>6, <3>1 DEF DistInv
  <2>16. ASSUME NEW x \in Daemons, NEW y \in Daemons, {x, y} \notin broken'
         PROVE  PairInv(RelayIds(x, y)', LinksFrom(y, x)', chan'[x][y])
    <3>1. PICK R, L, q : /\ R = RelayIds(x, y) /\ q = in[x][y]
                         /\ L = IF y = d THEN LinksFrom(y, x) \ {l} ELSE LinksFrom(y, x)
      OBVIOUS
    <3>2. PairInv(R, L, q)
      BY <2>1, <2>16, <3>1
    <3>3. LinksFrom(y, x)' = L
      BY <2>6, <3>1 DEF LinksFrom
    <3>4. CASE x # d
      BY <2>4, <2>13, <3>1, <3>2, <3>3, <3>4
    <3>5. CASE x = d
      <4>1. PICK D, s : D = IdsTo(rs, y) /\ s = Deletes(d, y, rs)
        OBVIOUS
      <4>2. RelayIds(x, y)' = R \ D /\ D \subseteq R
        BY <2>13, <3>1, <3>5, <4>1
      <4>3. s \in Seq(Message) /\ OneEach(s, D)
        BY <2>5, <4>1
      <4>4. chan'[x][y] = q \o s
        BY <2>1, <2>4, <2>16, <3>1, <3>5, <4>1
      <4>5. q \in Seq(Message)
        BY <2>3, <3>1
      <4>6. PairInv(R \ D, L, q \o s)
        BY <3>2, <4>2, <4>3, <4>5, PairDelete
      <4>7. QED
        BY <3>3, <4>2, <4>4, <4>6
    <3>6. QED
      BY <3>4, <3>5
  <2>17. PairsInv'
    BY <2>16 DEF PairsInv
  <2>18. QED
    BY <2>10, <2>11, <2>12, <2>14, <2>15, <2>17 DEF IInv
<1>5. QED
  BY <1>3, <1>4

LEMMA ReceiveDeleteInv ==
  ASSUME IInv, NEW d \in Daemons, NEW e \in Daemons, ReceiveDelete(d, e)
  PROVE  IInv'
<1>1. Types /\ PairsInv
  BY DEF IInv
<1>2. PICK m, in : m = Head(chan[e][d]) /\ in = [chan EXCEPT ![e][d] = Tail(@)]
  OBVIOUS
<1>3. PICK l \in link[d] : l.from = e /\ l.id = m.id /\ DropLink(d, l, in)
  BY <1>2 DEF ReceiveDelete
<1>4. chan[e][d] # <<>> /\ m.kind = "DELETE" /\ mounted' = mounted
  BY <1>2 DEF ReceiveDelete
<1>5. Kept(in) /\ Reads(d, e, m, in)
  BY <1>2, <1>4, ReadChan
<1>6. PICK q, R, L : q = chan[e][d] /\ R = RelayIds(e, d) /\ L = LinksFrom(d, e)
  OBVIOUS
<1>7. /\ q \in Seq(Message) /\ q # <<>> /\ PairInv(R, L, q) /\ q[1].kind = "DELETE"
      /\ l.id = q[1].id /\ in[e][d] = Tail(q) /\ l \in L
  BY <1>3, <1>4, <1>5, <1>6 DEF Reads, LinksFrom
<1>8. PairInv(R, L \ {l}, Tail(q))
  BY <1>7, PairReadDelete
<1>9. ASSUME NEW x \in Daemons, NEW y \in Daemons, {x, y} \notin broken
      PROVE  PairInv(RelayIds(x, y),
                     IF y = d THEN LinksFrom(y, x) \ {l} ELSE LinksFrom(y, x), in[x][y])
  <2>1. CASE x = e /\ y = d
    BY <1>6, <1>7, <1>8, <2>1
  <2>2. CASE ~(x = e /\ y = d)
    <3>1. in[x][y] = chan[x][y]
      BY <1>5, <2>2 DEF Reads
    <3>2. y = d => LinksFrom(y, x) \ {l} = LinksFrom(y, x)
      BY <1>3, <2>2 DEF LinksFrom
    <3>3. PairInv(RelayIds(x, y), LinksFrom(y, x), chan[x][y])
      BY <1>1, <1>9 DEF PairsInv
    <3>4. QED
      BY <3>1, <3>2, <3>3
  <2>3. QED
    BY <2>1, <2>2
<1>10. QED
  BY <1>3, <1>4, <1>5, <1>9, DropLinkInv

\* A link goes whose connection is broken, or that of the kernel.
LEMMA LostLinkInv ==
  ASSUME IInv, NEW d \in Daemons, NEW l \in link[d], DropLink(d, l, chan), mounted' = mounted,
         l.from = Kernel \/ {d, l.from} \in broken
  PROVE  IInv'
<1>1. Types /\ PairsInv /\ DistInv
  BY DEF IInv
<1>2. Kept(chan)
  BY <1>1 DEF Types, DistInv, Kept
<1>3. ASSUME NEW x \in Daemons, NEW y \in Daemons, {x, y} \notin broken
      PROVE  PairInv(RelayIds(x, y),
                     IF y = d THEN LinksFrom(y, x) \ {l} ELSE LinksFrom(y, x), chan[x][y])
  <2>1. x # Kernel
    BY TopologyAssumption
  <2>2. y = d => l.from # x
    BY <1>3, <2>1, PairSym
  <2>3. y = d => LinksFrom(y, x) \ {l} = LinksFrom(y, x)
    BY <2>2 DEF LinksFrom
  <2>4. PairInv(RelayIds(x, y), LinksFrom(y, x), chan[x][y])
    BY <1>1, <1>3 DEF PairsInv
  <2>5. QED
    BY <2>3, <2>4
<1>4. QED
  BY <1>2, <1>3, DropLinkInv

LEMMA UnmountInv ==
  ASSUME IInv, Unmount
  PROVE  IInv'
<1>1. /\ Home \in Daemons /\ KernelLink \in link[Home] /\ DropLink(Home, KernelLink, chan)
      /\ mounted' = mounted /\ KernelLink.from = Kernel
  BY TopologyAssumption DEF Unmount, KernelLink
<1>2. PICK l : l = KernelLink
  OBVIOUS
<1>3. QED
  BY <1>1, <1>2, LostLinkInv

LEMMA FailLinkInv ==
  ASSUME IInv, NEW d \in Daemons, NEW e \in Daemons \cup {Kernel}, FailLink(d, e)
  PROVE  IInv'
<1>1. PICK l \in link[d] : l.from = e /\ DropLink(d, l, chan)
  BY DEF FailLink
<1>2. e \in failed[d] /\ mounted' = mounted
  BY DEF FailLink
<1>3. l.from = Kernel \/ {d, l.from} \in broken
  BY <1>1, <1>2 DEF IInv, WireInv
<1>4. QED
  BY <1>1, <1>2, <1>3, LostLinkInv

-----------------------------------------------------------------------------
(* Broken connections *)

LEMMA ReadErrorInv ==
  ASSUME IInv, NEW d \in Daemons, NEW e \in Daemons \cup {Kernel}, ReadError(d, e)
  PROVE  IInv'
<1>1. Types /\ WireInv /\ RelayInv /\ TreeInv /\ DistInv /\ PairsInv
  BY DEF IInv
<1>2. /\ failed' = [failed EXCEPT ![d] = @ \cup {e}] /\ sig' = [sig EXCEPT ![d] = @ \ {e}]
      /\ mounted' = mounted /\ link' = link /\ relay' = relay /\ tree' = tree /\ connq' = connq
      /\ chan' = chan /\ broken' = broken /\ crashed' = crashed
      /\ {d, e} \in broken \/ e = Kernel
  BY DEF ReadError
<1>3. Types'
  BY <1>1, <1>2 DEF Types
<1>4. ASSUME NEW x \in Daemons, NEW y \in Daemons, y \in failed'[x] PROVE {x, y} \in broken
  <2>1. y # Kernel
    BY TopologyAssumption
  <2>2. y \in failed[x] \/ (x = d /\ y = e)
    BY <1>1, <1>2, <1>4 DEF Types
  <2>3. QED
    BY <1>1, <1>2, <2>1, <2>2 DEF WireInv
<1>5. WireInv'
  BY <1>1, <1>2, <1>4 DEF WireInv
<1>6. RelayInv' /\ DistInv'
  BY <1>1, <1>2 DEF RelayInv, DistInv
<1>7. TreeInv' /\ PairsInv'
  BY <1>1, <1>2 DEF TreeInv, PairsInv, RelayIds, LinksFrom
<1>8. QED
  BY <1>3, <1>5, <1>6, <1>7 DEF IInv

LEMMA BreakInv ==
  ASSUME IInv, NEW c \in Conns, Break(c)
  PROVE  IInv'
<1>1. Types /\ WireInv /\ RelayInv /\ TreeInv /\ DistInv /\ PairsInv
  BY DEF IInv
<1>2. /\ broken' = broken \cup {c}
      /\ chan' = [x \in Daemons |-> [y \in Daemons |-> IF {x, y} = c THEN <<>> ELSE chan[x][y]]]
      /\ mounted' = mounted /\ link' = link /\ relay' = relay /\ tree' = tree /\ connq' = connq
      /\ sig' = sig /\ failed' = failed /\ crashed' = crashed
  BY DEF Break
<1>3. ASSUME NEW x \in Daemons, NEW y \in Daemons
      PROVE  chan'[x][y] = IF {x, y} = c THEN <<>> ELSE chan[x][y]
  BY <1>2
<1>4. Types'
  <2>1. chan' \in [Daemons -> [Daemons -> Seq(Message)]]
    BY <1>1, <1>2 DEF Types
  <2>2. QED
    BY <1>1, <1>2, <2>1 DEF Types
<1>5. WireInv'
  <2>1. \A x, y \in Daemons : chan'[x][y] # <<>> => {x, y} \in Conns /\ {x, y} \notin broken'
    BY <1>1, <1>2, <1>3 DEF WireInv
  <2>2. QED
    BY <1>1, <1>2, <2>1 DEF WireInv
<1>6. DistInv'
  <2>1. \A x, y \in Daemons : \A k \in DOMAIN chan'[x][y] : chan'[x][y][k].dist <= MaxDist + 1
    BY <1>1, <1>3 DEF DistInv
  <2>2. QED
    BY <1>1, <1>2, <2>1 DEF DistInv
<1>7. RelayInv' /\ TreeInv'
  BY <1>1, <1>2 DEF RelayInv, TreeInv, RelayIds
<1>8. ASSUME NEW x \in Daemons, NEW y \in Daemons, {x, y} \notin broken'
      PROVE  PairInv(RelayIds(x, y)', LinksFrom(y, x)', chan'[x][y])
  <2>1. chan'[x][y] = chan[x][y] /\ {x, y} \notin broken
    BY <1>2, <1>3, <1>8
  <2>2. RelayIds(x, y)' = RelayIds(x, y) /\ LinksFrom(y, x)' = LinksFrom(y, x)
    BY <1>2 DEF RelayIds, LinksFrom
  <2>3. QED
    BY <1>1, <2>1, <2>2 DEF PairsInv
<1>9. PairsInv'
  BY <1>8 DEF PairsInv
<1>10. QED
  BY <1>4, <1>5, <1>6, <1>7, <1>9 DEF IInv

LEMMA FailConnInv ==
  ASSUME IInv, NEW d \in Daemons, NEW e \in Daemons, FailConn(d, e)
  PROVE  IInv'
<1>1. Types /\ WireInv /\ RelayInv /\ TreeInv /\ DistInv /\ PairsInv
  BY DEF IInv
<1>2. /\ e \in failed[d] /\ connq' = [connq EXCEPT ![d] = @ \ {e}]
      /\ relay' = [relay EXCEPT ![d] = {r \in @ : ~(r.to = e /\ r.id \in tree[d][e])}]
      /\ tree' = [tree EXCEPT ![d][e] = {}]
      /\ mounted' = mounted /\ link' = link /\ sig' = sig /\ chan' = chan /\ broken' = broken
      /\ failed' = failed /\ crashed' = crashed
  BY DEF FailConn
<1>3. {d, e} \in broken
  BY <1>1, <1>2 DEF WireInv
<1>4. ASSUME NEW x \in Daemons
      PROVE  /\ relay'[x] \subseteq relay[x] /\ connq'[x] \subseteq connq[x]
             /\ \A r \in relay[x] : x # d \/ r.to # e => r \in relay'[x]
  BY <1>1, <1>2 DEF Types
<1>5. ASSUME NEW x \in Daemons, NEW y \in Daemons
      PROVE  tree'[x][y] = IF x = d /\ y = e THEN {} ELSE tree[x][y]
  BY <1>1, <1>2 DEF Types
<1>6. Types'
  <2>1. relay' \in [Daemons -> SUBSET Relay] /\ connq' \in [Daemons -> SUBSET Daemons]
    BY <1>1, <1>2 DEF Types
  <2>2. tree' \in [Daemons -> [Daemons -> SUBSET Ids]]
    BY <1>1, <1>2 DEF Types
  <2>3. QED
    BY <1>1, <1>2, <2>1, <2>2 DEF Types
<1>7. WireInv'
  BY <1>1, <1>2, <1>4 DEF WireInv
<1>8. RelayInv'
  BY <1>1, <1>2, <1>4 DEF RelayInv
<1>9. DistInv'
  BY <1>1, <1>2 DEF DistInv
<1>10. ASSUME NEW x \in Daemons, NEW y \in Daemons, ~(x = d /\ y = e)
       PROVE  RelayIds(x, y)' = RelayIds(x, y)
  BY <1>4, <1>10 DEF RelayIds
<1>11. TreeInv'
  BY <1>1, <1>5, <1>10 DEF TreeInv
<1>12. ASSUME NEW x \in Daemons, NEW y \in Daemons, {x, y} \notin broken'
       PROVE  PairInv(RelayIds(x, y)', LinksFrom(y, x)', chan'[x][y])
  <2>1. ~(x = d /\ y = e) /\ {x, y} \notin broken
    BY <1>2, <1>3, <1>12
  <2>2. RelayIds(x, y)' = RelayIds(x, y) /\ LinksFrom(y, x)' = LinksFrom(y, x)
    BY <1>2, <1>10, <2>1 DEF LinksFrom
  <2>3. QED
    BY <1>1, <1>2, <2>1, <2>2 DEF PairsInv
<1>13. PairsInv'
  BY <1>12 DEF PairsInv
<1>14. QED
  BY <1>6, <1>7, <1>8, <1>9, <1>11, <1>13 DEF IInv

-----------------------------------------------------------------------------
(* dmsg_relay_scan *)

\* The scan finds nothing to relay.
LEMMA IdleScanInv ==
  ASSUME IInv, NEW d \in Daemons, NEW e \in Daemons \cup {Kernel}, Scan(d, e), link[d] = {}
  PROVE  IInv'
<1>1. Types /\ WireInv /\ RelayInv /\ TreeInv /\ DistInv /\ PairsInv
  BY DEF IInv
<1>2. /\ sig' = [sig EXCEPT ![d] = @ \ {e}]
      /\ mounted' = mounted /\ link' = link /\ relay' = relay /\ tree' = tree /\ connq' = connq
      /\ chan' = chan /\ broken' = broken /\ failed' = failed /\ crashed' = crashed
  BY DEF Scan
<1>3. Types'
  BY <1>1, <1>2 DEF Types
<1>4. WireInv' /\ RelayInv' /\ DistInv'
  BY <1>1, <1>2 DEF WireInv, RelayInv, DistInv
<1>5. TreeInv' /\ PairsInv'
  BY <1>1, <1>2 DEF TreeInv, PairsInv, RelayIds, LinksFrom
<1>6. QED
  BY <1>3, <1>4, <1>5 DEF IInv

LEMMA Fresh ==
  ASSUME NEW d, NEW c, NEW i \in FreshIds(d, c)
  PROVE  /\ i \in Ids /\ i \notin RelayIds(d, c)
         /\ \A l \in LinksFrom(c, d) : l.id # i
         /\ \A k \in DOMAIN chan[d][c] : ~About(chan[d][c][k], i)
<1>1. i \in Ids /\ i \notin RelayIds(d, c)
  BY DEF FreshIds, RelayIds
<1>2. \A l \in LinksFrom(c, d) : l.id # i
  BY DEF FreshIds, LinksFrom
<1>3. \A k \in DOMAIN chan[d][c] : ~About(chan[d][c][k], i)
  BY DEF FreshIds, About
<1>4. QED
  BY <1>1, <1>2, <1>3

\* The best link l of d is relayed over the connections new with the ids id; the
\* relays gone, in excess, are deleted.
BusyScan(d, e, l, new, id, gone) ==
  /\ l \in link[d] /\ new \subseteq Daemons
  /\ \A c \in new : Relayed(d, l, c) /\ id[c] \in FreshIds(d, c)
  /\ gone = UNION {Extras(d, l, c) : c \in new}
  /\ sig' = [sig EXCEPT ![d] = @ \ {e}]
  /\ relay' = [relay EXCEPT ![d] = (@ \ gone) \cup
       {[to |-> c, id |-> id[c], from |-> l.from, sid |-> l.id] : c \in new}]
  /\ tree' = [tree EXCEPT ![d] = [c \in Daemons |->
       IF c \in new /\ Inserted(d, l, c)
       THEN (@[c] \ {r.id : r \in Extras(d, l, c)}) \cup {id[c]} ELSE @[c]]]
  /\ chan' = [chan EXCEPT ![d] = [c \in Daemons |->
       IF c \in new /\ {d, c} \notin broken
       THEN Append(@[c], CreateMsg(id[c], RelayDist(l))) \o Deletes(d, c, gone)
       ELSE @[c]]]
  /\ UNCHANGED <<mounted, link, connq, broken, failed, crashed>>

LEMMA ScanIs ==
  ASSUME NEW d \in Daemons, NEW e \in Daemons \cup {Kernel}, Scan(d, e), link[d] # {}
  PROVE  \E l, new, id, gone : BusyScan(d, e, l, new, id, gone)
<1> DEFINE New(l) == {c \in Daemons : Relayed(d, l, c) /\ FreshIds(d, c) # {}}
           Id(c) == CHOOSE i \in FreshIds(d, c) : TRUE
           Gone(l) == UNION {Extras(d, l, c) : c \in New(l)}
<1>1. PICK l \in Best(d) :
        /\ relay' = [relay EXCEPT ![d] = (@ \ Gone(l)) \cup
             {[to |-> c, id |-> Id(c), from |-> l.from, sid |-> l.id] : c \in New(l)}]
        /\ tree' = [tree EXCEPT ![d] = [c \in Daemons |->
             IF c \in New(l) /\ Inserted(d, l, c)
             THEN (@[c] \ {r.id : r \in Extras(d, l, c)}) \cup {Id(c)} ELSE @[c]]]
        /\ chan' = [chan EXCEPT ![d] = [c \in Daemons |->
             IF c \in New(l) /\ {d, c} \notin broken
             THEN Append(@[c], CreateMsg(Id(c), RelayDist(l))) \o Deletes(d, c, Gone(l))
             ELSE @[c]]]
  BY DEF Scan
<1>2. PICK new, id, gone : new = New(l) /\ id = [c \in Daemons |-> Id(c)] /\ gone = Gone(l)
  OBVIOUS
<1>3. \A c \in Daemons : id[c] = Id(c)
  BY <1>2
<1>4. new \subseteq Daemons /\ \A c \in new : Relayed(d, l, c) /\ id[c] \in FreshIds(d, c)
  BY <1>2, <1>3
<1>5. relay' = [relay EXCEPT ![d] = (@ \ gone) \cup
        {[to |-> c, id |-> id[c], from |-> l.from, sid |-> l.id] : c \in new}]
  <2>1. {[to |-> c, id |-> id[c], from |-> l.from, sid |-> l.id] : c \in new} =
        {[to |-> c, id |-> Id(c), from |-> l.from, sid |-> l.id] : c \in New(l)}
    BY <1>2, <1>3, <1>4
  <2>2. QED
    BY <1>1, <1>2, <2>1
<1>6. tree' = [tree EXCEPT ![d] = [c \in Daemons |->
        IF c \in new /\ Inserted(d, l, c)
        THEN (@[c] \ {r.id : r \in Extras(d, l, c)}) \cup {id[c]} ELSE @[c]]]
  BY <1>1, <1>2, <1>3
<1>7. chan' = [chan EXCEPT ![d] = [c \in Daemons |->
        IF c \in new /\ {d, c} \notin broken
        THEN Append(@[c], CreateMsg(id[c], RelayDist(l))) \o Deletes(d, c, gone)
        ELSE @[c]]]
  BY <1>1, <1>2, <1>3
<1>8. l \in link[d] /\ gone = UNION {Extras(d, l, c) : c \in new}
  BY <1>2 DEF Best
<1>9. sig' = [sig EXCEPT ![d] = @ \ {e}] /\ UNCHANGED <<mounted, link, connq, broken, failed, crashed>>
  BY DEF Scan
<1>10. BusyScan(d, e, l, new, id, gone)
  BY <1>4, <1>5, <1>6, <1>7, <1>8, <1>9 DEF BusyScan
<1>11. QED
  BY <1>10

LEMMA BusyScanInv ==
  ASSUME IInv, NEW d \in Daemons, NEW e \in Daemons \cup {Kernel},
         NEW l, NEW new, NEW id, NEW gone, BusyScan(d, e, l, new, id, gone)
  PROVE  IInv'
<1>1. Types /\ WireInv /\ RelayInv /\ TreeInv /\ DistInv /\ PairsInv
  BY DEF IInv
<1>2. /\ l \in link[d] /\ new \subseteq Daemons
      /\ \A c \in new : Relayed(d, l, c) /\ id[c] \in FreshIds(d, c)
      /\ gone = UNION {Extras(d, l, c) : c \in new}
      /\ sig' = [sig EXCEPT ![d] = @ \ {e}]
      /\ mounted' = mounted /\ link' = link /\ connq' = connq /\ broken' = broken
      /\ failed' = failed /\ crashed' = crashed
  BY DEF BusyScan
<1>3. PICK made : made = {[to |-> c, id |-> id[c], from |-> l.from, sid |-> l.id] : c \in new}
  OBVIOUS
<1>4. /\ relay' = [relay EXCEPT ![d] = (@ \ gone) \cup made]
      /\ tree' = [tree EXCEPT ![d] = [c \in Daemons |->
           IF c \in new /\ Inserted(d, l, c)
           THEN (@[c] \ {r.id : r \in Extras(d, l, c)}) \cup {id[c]} ELSE @[c]]]
      /\ chan' = [chan EXCEPT ![d] = [c \in Daemons |->
           IF c \in new /\ {d, c} \notin broken
           THEN Append(@[c], CreateMsg(id[c], RelayDist(l))) \o Deletes(d, c, gone)
           ELSE @[c]]]
  BY <1>3 DEF BusyScan
<1>5. l.from \in Daemons \cup {Kernel} /\ l.id \in Ids /\ l.dist \in Nat
  BY <1>1, <1>2 DEF Types, Link
<1>6. /\ gone \in SUBSET relay[d] /\ gone \in SUBSET Relay
      /\ \A r \in gone : r.to \in new /\ Inserted(d, l, r.to)
  BY <1>1, <1>2 DEF Types, Extras
<1>7. ASSUME NEW c \in new
      PROVE  /\ c \in Daemons /\ c \in connq[d] /\ l.dist <= MaxDist
             /\ id[c] \in Ids /\ id[c] \notin RelayIds(d, c)
             /\ \A k \in LinksFrom(c, d) : k.id # id[c]
             /\ \A k \in DOMAIN chan[d][c] : ~About(chan[d][c][k], id[c])
  <2>1. c \in Daemons /\ c \in connq[d] /\ l.dist <= MaxDist /\ id[c] \in FreshIds(d, c)
    BY <1>2 DEF Relayed
  <2>2. QED
    BY <2>1, Fresh
<1>8. ASSUME NEW r \in made
      PROVE  /\ r \in Relay /\ r.to \in new /\ r.id = id[r.to] /\ Of(r, l)
             /\ r = [to |-> r.to, id |-> id[r.to], from |-> l.from, sid |-> l.id]
  <2>1. PICK c \in new : r = [to |-> c, id |-> id[c], from |-> l.from, sid |-> l.id]
    BY <1>3
  <2>2. r.to = c /\ r.id = id[c] /\ r.from = l.from /\ r.sid = l.id
    BY <2>1
  <2>3. r \in Relay
    BY <1>5, <1>7, <2>1 DEF Relay
  <2>4. QED
    BY <2>1, <2>2, <2>3 DEF Of
<1>9. ASSUME NEW x \in Daemons
      PROVE  relay'[x] = IF x = d THEN (relay[x] \ gone) \cup made ELSE relay[x]
  BY <1>1, <1>4 DEF Types
<1>10. ASSUME NEW x \in Daemons, NEW y \in Daemons
       PROVE  tree'[x][y] = IF x = d /\ y \in new /\ Inserted(d, l, y)
                            THEN (tree[x][y] \ {r.id : r \in Extras(d, l, y)}) \cup {id[y]}
                            ELSE tree[x][y]
  BY <1>1, <1>4 DEF Types
<1>11. ASSUME NEW x \in Daemons, NEW y \in Daemons
       PROVE  chan'[x][y] = IF x = d /\ y \in new /\ {d, y} \notin broken
                            THEN Append(chan[x][y], CreateMsg(id[y], RelayDist(l))) \o Deletes(d, y, gone)
                            ELSE chan[x][y]
  BY <1>1, <1>4 DEF Types
\* What is written to y.
<1>12. ASSUME NEW y \in new, NEW q, q = chan[d][y], NEW m, m = CreateMsg(id[y], RelayDist(l)),
              NEW s, s = Deletes(d, y, gone)
       PROVE  /\ q \in Seq(Message) /\ m \in Message /\ s \in Seq(Message)
              /\ Append(q, m) \in Seq(Message) /\ Append(q, m) \o s \in Seq(Message)
              /\ m.kind = "CREATE" /\ m.id = id[y] /\ m.dist <= MaxDist + 1
              /\ OneEach(s, IdsTo(gone, y))
  <2>1. q \in Seq(Message) /\ y \in Daemons
    BY <1>1, <1>7, <1>12 DEF Types
  <2>2. m \in Message /\ m.kind = "CREATE" /\ m.id = id[y] /\ m.dist <= MaxDist + 1
    <3>1. PICK i \in Ids, n \in Nat : i = id[y] /\ n = l.dist + 1
      BY <1>5, <1>7
    <3>2. m = [kind |-> "CREATE", id |-> i, dist |-> n]
      BY <1>12, <3>1 DEF CreateMsg, RelayDist
    <3>3. n <= MaxDist + 1
      BY <1>5, <1>7, <3>1, BoundAssumption
    <3>4. QED
      BY <3>1, <3>2, <3>3 DEF Message
  <2>3. s \in Seq(Message) /\ OneEach(s, IdsTo(gone, y))
    BY <1>6, <1>12, DeletesShape
  <2>4. Append(q, m) \in Seq(Message)
    BY <2>1, <2>2, AppendShape
  <2>5. Append(q, m) \o s \in Seq(Message)
    BY <2>3, <2>4, ConcatShape
  <2>6. QED
    BY <2>1, <2>2, <2>3, <2>4, <2>5
<1>13. Types'
  <2>1. sig' \in [Daemons -> SUBSET (Daemons \cup {Kernel})]
    BY <1>1, <1>2 DEF Types
  <2>2. relay' \in [Daemons -> SUBSET Relay]
    <3>1. (relay[d] \ gone) \cup made \in SUBSET Relay
      BY <1>1, <1>8 DEF Types
    <3>2. QED
      BY <1>1, <1>4, <3>1 DEF Types
  <2>3. tree' \in [Daemons -> [Daemons -> SUBSET Ids]]
    <3>1. PICK f : f = [c \in Daemons |->
            IF c \in new /\ Inserted(d, l, c)
            THEN (tree[d][c] \ {r.id : r \in Extras(d, l, c)}) \cup {id[c]} ELSE tree[d][c]]
      OBVIOUS
    <3>2. f \in [Daemons -> SUBSET Ids]
      BY <1>1, <1>7, <3>1 DEF Types
    <3>3. tree' = [tree EXCEPT ![d] = f]
      BY <1>1, <1>4, <3>1
    <3>4. QED
      BY <1>1, <3>2, <3>3 DEF Types
  <2>4. chan' \in [Daemons -> [Daemons -> Seq(Message)]]
    <3>1. PICK f : f = [c \in Daemons |->
            IF c \in new /\ {d, c} \notin broken
            THEN Append(chan[d][c], CreateMsg(id[c], RelayDist(l))) \o Deletes(d, c, gone)
            ELSE chan[d][c]]
      OBVIOUS
    <3>2. f \in [Daemons -> Seq(Message)]
      <4>1. ASSUME NEW c \in Daemons PROVE f[c] \in Seq(Message)
        <5>1. chan[d][c] \in Seq(Message)
          BY <1>1 DEF Types
        <5>2. c \in new =>
                Append(chan[d][c], CreateMsg(id[c], RelayDist(l))) \o Deletes(d, c, gone) \in Seq(Message)
          BY <1>12
        <5>3. QED
          BY <3>1, <5>1, <5>2
      <4>2. QED
        BY <3>1, <4>1
    <3>3. chan' = [chan EXCEPT ![d] = f]
      BY <1>1, <1>4, <3>1
    <3>4. QED
      BY <1>1, <3>2, <3>3 DEF Types
  <2>5. QED
    BY <1>1, <1>2, <2>1, <2>2, <2>3, <2>4 DEF Types
<1>14. WireInv'
  <2>1. ASSUME NEW x \in Daemons, NEW y \in Daemons, chan'[x][y] # <<>>
        PROVE  {x, y} \in Conns /\ {x, y} \notin broken
    <3>1. CASE chan'[x][y] = chan[x][y]
      BY <1>1, <2>1, <3>1 DEF WireInv
    <3>2. CASE x = d /\ y \in new /\ {d, y} \notin broken
      BY <1>1, <1>7, <3>2 DEF WireInv
    <3>3. QED
      BY <1>11, <3>1, <3>2
  <2>2. QED
    BY <1>1, <1>2, <2>1 DEF WireInv
<1>15. RelayInv'
  <2>1. ASSUME NEW x \in Daemons, NEW r \in relay'[x] PROVE \E k \in link[x] : Of(r, k)
    BY <1>1, <1>2, <1>8, <1>9 DEF RelayInv
  <2>2. ASSUME NEW x \in Daemons, NEW r \in relay'[x], NEW s \in relay'[x], r.to = s.to, r.id = s.id
        PROVE  r = s
    <3>1. CASE r \in relay[x] /\ s \in relay[x]
      BY <1>1, <2>2, <3>1 DEF RelayInv
    <3>2. CASE x = d /\ r \in made /\ s \in made
      BY <1>8, <2>2, <3>2
    <3>3. ASSUME x = d, NEW a \in made, NEW b \in relay[d], a.to = b.to, a.id = b.id PROVE FALSE
      BY <1>7, <1>8, <3>3 DEF RelayIds
    <3>4. QED
      BY <1>9, <2>2, <3>1, <3>2, <3>3
  <2>3. QED
    BY <1>2, <2>1, <2>2 DEF RelayInv
<1>16. ASSUME NEW x \in Daemons, NEW y \in Daemons
       PROVE  /\ x # d \/ y \notin new => RelayIds(x, y)' = RelayIds(x, y)
              /\ x = d /\ y \in new =>
                   RelayIds(x, y)' = (RelayIds(x, y) \cup {id[y]}) \ IdsTo(gone, y)
              /\ IdsTo(gone, y) \subseteq RelayIds(d, y)
              /\ (y \notin new \/ ~Inserted(d, l, y)) => IdsTo(gone, y) = {}
  <2>1. CASE x # d
    <3>1. RelayIds(x, y)' = RelayIds(x, y)
      BY <1>9, <2>1 DEF RelayIds
    <3>2. IdsTo(gone, y) \subseteq RelayIds(d, y)
      BY <1>6 DEF RelayIds, IdsTo
    <3>3. (y \notin new \/ ~Inserted(d, l, y)) => IdsTo(gone, y) = {}
      BY <1>6 DEF IdsTo
    <3>4. QED
      BY <2>1, <3>1, <3>2, <3>3
  <2>2. CASE x = d
    <3>1. /\ IdsTo(relay[d] \ gone, y) = RelayIds(d, y) \ IdsTo(gone, y)
          /\ IdsTo(gone, y) \subseteq RelayIds(d, y)
      BY <1>1, <1>6, Without
    <3>2. (y \notin new \/ ~Inserted(d, l, y)) => IdsTo(gone, y) = {}
      BY <1>6 DEF IdsTo
    <3>3. RelayIds(x, y)' = IdsTo(relay[d] \ gone, y) \cup IdsTo(made, y)
      BY <1>9, <2>2 DEF RelayIds, IdsTo
    <3>4. IdsTo(made, y) = IF y \in new THEN {id[y]} ELSE {}
      <4>1. CASE y \notin new
        BY <1>8, <4>1 DEF IdsTo
      <4>2. CASE y \in new
        <5>1. \A i \in IdsTo(made, y) : i = id[y]
          BY <1>8 DEF IdsTo
        <5>2. PICK r \in made : r = [to |-> y, id |-> id[y], from |-> l.from, sid |-> l.id]
          BY <1>3, <4>2
        <5>3. r.to = y /\ r.id = id[y]
          BY <5>2
        <5>4. id[y] \in IdsTo(made, y)
          BY <5>3 DEF IdsTo
        <5>5. QED
          BY <4>2, <5>1, <5>4
      <4>3. QED
        BY <4>1, <4>2
    <3>5. y \in new => id[y] \notin IdsTo(gone, y)
      BY <1>7, <3>1
    <3>6. QED
      BY <2>2, <3>1, <3>2, <3>3, <3>4, <3>5
  <2>3. QED
    BY <2>1, <2>2
<1>17. TreeInv'
  <2>1. ASSUME NEW x \in Daemons, NEW y \in Daemons, NEW i \in tree'[x][y]
        PROVE  i \in RelayIds(x, y)' /\ \A j \in tree'[x][y] : i = j
    <3>1. CASE x = d /\ y \in new /\ Inserted(d, l, y)
      <4>1. ASSUME NEW j \in tree[x][y] PROVE j \in {r.id : r \in Extras(d, l, y)}
        <5>1. PICK r \in relay[d] : r.to = y /\ r.id = j
          BY <1>1, <3>1 DEF TreeInv, RelayIds
        <5>2. r \in Extras(d, l, y)
          BY <3>1, <5>1 DEF Extras
        <5>3. QED
          BY <5>1, <5>2
      <4>2. tree'[x][y] = {id[y]}
        BY <1>10, <3>1, <4>1
      <4>3. id[y] \notin IdsTo(gone, y)
        BY <1>7, <1>16, <3>1
      <4>4. QED
        BY <1>16, <3>1, <4>2, <4>3
    <3>2. CASE ~(x = d /\ y \in new /\ Inserted(d, l, y))
      <4>1. tree'[x][y] = tree[x][y] /\ i \in RelayIds(x, y)
        BY <1>1, <1>10, <3>2 DEF TreeInv
      <4>2. i \in RelayIds(x, y)'
        BY <1>16, <3>2, <4>1
      <4>3. QED
        BY <1>1, <4>1, <4>2 DEF TreeInv
    <3>3. QED
      BY <3>1, <3>2
  <2>2. QED
    BY <2>1 DEF TreeInv
<1>18. DistInv'
  <2>1. ASSUME NEW x \in Daemons, NEW y \in Daemons, NEW k \in DOMAIN chan'[x][y]
        PROVE  chan'[x][y][k].dist <= MaxDist + 1
    <3>1. CASE chan'[x][y] = chan[x][y]
      BY <1>1, <3>1 DEF DistInv
    <3>2. CASE x = d /\ y \in new /\ {d, y} \notin broken
      <4>1. PICK q, m, s : q = chan[d][y] /\ m = CreateMsg(id[y], RelayDist(l)) /\ s = Deletes(d, y, gone)
        OBVIOUS
      <4>2. /\ q \in Seq(Message) /\ m \in Message /\ s \in Seq(Message)
            /\ m.dist <= MaxDist + 1 /\ OneEach(s, IdsTo(gone, y))
        BY <1>12, <3>2, <4>1
      <4>3. PICK t : t = Append(q, m)
        OBVIOUS
      <4>4. chan'[x][y] = t \o s
        BY <1>11, <3>2, <4>1, <4>3
      <4>5. /\ t \in Seq(Message) /\ DOMAIN t = 1..(Len(q) + 1) /\ Len(t) = Len(q) + 1
            /\ \A j \in 1..(Len(q) + 1) : t[j] = IF j <= Len(q) THEN q[j] ELSE m
        BY <4>2, <4>3, AppendShape
      <4>6. \A j \in DOMAIN q : q[j].dist <= MaxDist + 1
        BY <1>1, <1>7, <3>2, <4>1 DEF DistInv
      <4>7. ASSUME NEW j \in DOMAIN t PROVE t[j].dist <= MaxDist + 1
        <5>1. t[j] = m \/ (j \in DOMAIN q /\ t[j] = q[j])
          <6>1. PICK n \in Nat : n = Len(q) /\ DOMAIN q = 1..n
            BY <4>2
          <6>2. QED
            BY <4>5, <6>1
        <5>2. QED
          BY <4>2, <4>6, <5>1
      <4>8. \A j \in DOMAIN s : s[j].dist <= MaxDist + 1
        BY <4>2, BoundAssumption DEF OneEach
      <4>9. (k \in DOMAIN t /\ (t \o s)[k] = t[k]) \/ (k - Len(t) \in DOMAIN s /\ (t \o s)[k] = s[k - Len(t)])
        <5>1. PICK n, p : n = Len(t) /\ p = Len(s)
          OBVIOUS
        <5>2. /\ n \in Nat /\ p \in Nat /\ DOMAIN t = 1..n /\ DOMAIN s = 1..p
              /\ DOMAIN (t \o s) = 1..(n + p)
              /\ \A j \in 1..(n + p) : (t \o s)[j] = IF j <= n THEN t[j] ELSE s[j - n]
          <6>1. t \in Seq(Message) /\ s \in Seq(Message)
            BY <4>2, <4>5
          <6>2. QED
            BY <5>1, <6>1, ConcatShape
        <5>3. k \in 1..(n + p)
          BY <4>4, <5>2
        <5>4. CASE k <= n
          BY <5>2, <5>3, <5>4
        <5>5. CASE ~(k <= n)
          <6>1. k - n \in 1..p
            BY <5>2, <5>3, <5>5
          <6>2. QED
            BY <5>1, <5>2, <5>3, <5>5, <6>1
        <5>6. QED
          BY <5>4, <5>5
      <4>10. QED
        BY <4>4, <4>7, <4>8, <4>9
    <3>3. QED
      BY <1>11, <3>1, <3>2
  <2>2. QED
    BY <1>1, <1>2, <2>1 DEF DistInv
<1>19. ASSUME NEW x \in Daemons, NEW y \in Daemons, {x, y} \notin broken'
       PROVE  PairInv(RelayIds(x, y)', LinksFrom(y, x)', chan'[x][y])
  <2>1. LinksFrom(y, x)' = LinksFrom(y, x) /\ {x, y} \notin broken
    BY <1>2, <1>19 DEF LinksFrom
  <2>2. PairInv(RelayIds(x, y), LinksFrom(y, x), chan[x][y])
    BY <1>1, <2>1 DEF PairsInv
  <2>3. CASE ~(x = d /\ y \in new)
    BY <1>11, <1>16, <2>1, <2>2, <2>3
  <2>4. CASE x = d /\ y \in new
    <3>1. PICK q, m, s : q = chan[d][y] /\ m = CreateMsg(id[y], RelayDist(l)) /\ s = Deletes(d, y, gone)
      OBVIOUS
    <3>2. PICK R, L, D, i : /\ R = RelayIds(d, y) /\ L = LinksFrom(y, d) /\ D = IdsTo(gone, y)
                            /\ i = id[y]
      OBVIOUS
    <3>3. /\ q \in Seq(Message) /\ m \in Message /\ s \in Seq(Message) /\ Append(q, m) \in Seq(Message)
          /\ m.kind = "CREATE" /\ m.id = i /\ OneEach(s, D)
      BY <1>12, <2>4, <3>1, <3>2
    <3>4. i \notin R /\ (\A k \in L : k.id # i) /\ (\A k \in DOMAIN q : ~About(q[k], i))
      BY <1>7, <2>4, <3>1, <3>2
    <3>5. PairInv(R, L, q)
      BY <2>2, <2>4, <3>1, <3>2
    <3>6. PairInv(R \cup {i}, L, Append(q, m))
      BY <3>3, <3>4, <3>5, PairCreate
    <3>7. D \subseteq R \cup {i}
      BY <1>16, <3>2
    <3>8. PairInv((R \cup {i}) \ D, L, Append(q, m) \o s)
      BY <3>3, <3>6, <3>7, PairDelete
    <3>9. chan'[x][y] = Append(q, m) \o s
      BY <1>11, <2>1, <2>4, <3>1
    <3>10. RelayIds(x, y)' = (R \cup {i}) \ D
      BY <1>16, <2>4, <3>2
    <3>11. QED
      BY <2>1, <2>4, <3>2, <3>8, <3>9, <3>10
  <2>5. QED
    BY <2>3, <2>4
<1>20. PairsInv'
  BY <1>19 DEF PairsInv
<1>21. QED
  BY <1>13, <1>14, <1>15, <1>17, <1>18, <1>20 DEF IInv

-----------------------------------------------------------------------------
(* The invariant holds *)

LEMMA FailRelayInv ==
  ASSUME IInv, NEW d \in Daemons, NEW e \in Daemons, FailRelay(d, e)
  PROVE  IInv'
<1>1. Crash(d) /\ mounted' = mounted
  BY DEF FailRelay
<1>2. QED
  BY <1>1, CrashInv

\* Nothing has been relayed, and the streams hold a LNK_CONN at most.
LEMMA InitInv ==
  ASSUME Init
  PROVE  IInv
<1>1. PICK s \in Starts :
        /\ mounted = FALSE
        /\ link = [d \in Daemons |-> {}] /\ relay = [d \in Daemons |-> {}]
        /\ tree = [d \in Daemons |-> [e \in Daemons |-> {}]]
        /\ connq = [d \in Daemons |-> {e \in Peers(d) : {d, e} \notin s.down /\ <<e, d>> \notin s.late}]
        /\ sig = [d \in Daemons |-> {}]
        /\ chan = [d \in Daemons |-> [e \in Daemons |->
                     IF <<d, e>> \in s.late THEN <<ConnMsg>> ELSE <<>>]]
        /\ broken = s.down
        /\ failed = [d \in Daemons |-> {e \in Peers(d) : {d, e} \in s.down}]
        /\ crashed = {}
  BY DEF Init
<1>2. /\ s.down \subseteq Conns
      /\ \A p \in s.late : p \in Daemons \X Daemons /\ {p[1], p[2]} \in Conns \ s.down
  BY TopologyAssumption
<1>3. PICK m : m = ConnMsg
  OBVIOUS
<1>4. m \in Message /\ m.kind = "CONN" /\ m.dist = 0
  <2>1. 1 \in Ids
    BY BoundAssumption DEF Ids
  <2>2. QED
    BY <1>3, <2>1 DEF ConnMsg, Message
<1>5. <<m>> \in Seq(Message) /\ DOMAIN <<m>> = {1} /\ <<m>>[1] = m
  BY <1>4
<1>6. ASSUME NEW x \in Daemons, NEW y \in Daemons
      PROVE  \/ chan[x][y] = <<>>
             \/ (chan[x][y] = <<m>> /\ {x, y} \in Conns \ s.down)
  <2>1. CASE <<x, y>> \in s.late
    <3>1. {x, y} \in Conns \ s.down
      <4>1. PICK p : p = <<x, y>>
        OBVIOUS
      <4>2. {p[1], p[2]} \in Conns \ s.down /\ p[1] = x /\ p[2] = y
        BY <1>2, <2>1, <4>1
      <4>3. QED
        BY <4>2
    <3>2. QED
      BY <1>1, <1>3, <2>1, <3>1
  <2>2. QED
    BY <1>1, <2>1
<1>7. Types
  <2>1. chan \in [Daemons -> [Daemons -> Seq(Message)]]
    BY <1>1, <1>3, <1>5
  <2>2. connq \in [Daemons -> SUBSET Daemons] /\ failed \in [Daemons -> SUBSET (Daemons \cup {Kernel})]
    BY <1>1 DEF Peers
  <2>3. QED
    BY <1>1, <1>2, <2>1, <2>2 DEF Types
<1>8. WireInv
  <2>1. \A x, y \in Daemons : /\ y \in connq[x] => {x, y} \in Conns
                              /\ y \in failed[x] => {x, y} \in broken
    BY <1>1 DEF Peers
  <2>2. QED
    BY <1>1, <1>6, <2>1 DEF WireInv
<1>9. RelayInv /\ TreeInv
  BY <1>1 DEF RelayInv, TreeInv
<1>10. DistInv
  <2>1. ASSUME NEW x \in Daemons, NEW y \in Daemons, NEW k \in DOMAIN chan[x][y]
        PROVE  chan[x][y][k].dist <= MaxDist + 1
    <3>1. chan[x][y][k] = m
      <4>1. CASE chan[x][y] = <<>>
        BY <4>1
      <4>2. CASE chan[x][y] = <<m>>
        BY <1>5, <4>2
      <4>3. QED
        BY <1>6, <4>1, <4>2
    <3>2. QED
      BY <1>4, <3>1, BoundAssumption
  <2>2. QED
    BY <1>1, <2>1 DEF DistInv
<1>11. ASSUME NEW x \in Daemons, NEW y \in Daemons
       PROVE  PairInv(RelayIds(x, y), LinksFrom(y, x), chan[x][y])
  <2>1. RelayIds(x, y) = {} /\ LinksFrom(y, x) = {}
    BY <1>1 DEF RelayIds, LinksFrom
  <2>2. PairInv({}, {}, <<m>>)
    BY <1>4, <1>5 DEF PairInv, OneUse, CreateIsNew, DeleteIsLast, HeldUp, OneLink
  <2>3. QED
    BY <1>6, <2>1, <2>2, PairEmpty
<1>12. QED
  BY <1>7, <1>8, <1>9, <1>10, <1>11 DEF IInv, PairsInv

LEMMA NextInv ==
  ASSUME IInv, [Next]_vars
  PROVE  IInv'
<1>1. CASE UNCHANGED vars
  BY <1>1 DEF vars, IInv, Types, WireInv, RelayInv, TreeInv, DistInv, PairsInv, RelayIds, LinksFrom
<1>2. ASSUME NEW d \in Daemons, NEW e \in Daemons \cup {Kernel}, Scan(d, e) PROVE IInv'
  <2>1. CASE link[d] = {}
    BY <1>2, <2>1, IdleScanInv
  <2>2. CASE link[d] # {}
    <3>1. PICK l, new, id, gone : BusyScan(d, e, l, new, id, gone)
      BY <1>2, <2>2, ScanIs
    <3>2. QED
      BY <3>1, BusyScanInv
  <2>3. QED
    BY <2>1, <2>2
<1>3. ASSUME NEW d \in Daemons, NEW e \in Daemons \cup {Kernel}, ReadError(d, e) \/ FailLink(d, e)
      PROVE  IInv'
  BY <1>3, ReadErrorInv, FailLinkInv
<1>4. ASSUME NEW d \in Daemons, NEW e \in Daemons,
             ReceiveConn(d, e) \/ ReceiveCreate(d, e) \/ ReceiveDelete(d, e)
      PROVE  IInv'
  BY <1>4, ReceiveConnInv, ReceiveCreateInv, ReceiveDeleteInv
<1>5. ASSUME NEW d \in Daemons, NEW e \in Daemons, FailConn(d, e) \/ FailRelay(d, e)
      PROVE  IInv'
  BY <1>5, FailConnInv, FailRelayInv
<1>6. QED
  BY <1>1, <1>2, <1>3, <1>4, <1>5, MountInv, UnmountInv, BreakInv DEF Next

-----------------------------------------------------------------------------
(* Theorems *)

\* The handlers of msg_lnk.c keep the invariant whatever order the messages,
\* scans and errors come in.
THEOREM Invariant == Spec => []IInv
<1>1. Init => IInv
  BY InitInv
<1>2. IInv /\ [Next]_vars => IInv'
  BY NextInv
<1>3. QED
  BY <1>1, <1>2, PTL DEF Spec

\* Every daemon's links, relays and trees have their types; conn->tree, from
\* which dmsg_relay_scan_specific drops the relays in excess, never holds more
\* than one relay, and that one exists.
THEOREM TypeCorrect == Spec => []TypeOK
<1>1. IInv => TypeOK
  <2>1. SUFFICES ASSUME IInv PROVE TypeOK
    OBVIOUS
  <2>2. Types /\ TreeInv
    BY <2>1 DEF IInv
  <2>3. ASSUME NEW d \in Daemons, NEW e \in Daemons, NEW i \in tree[d][e]
        PROVE  \E r \in relay[d] : r.to = e /\ r.id = i
    BY <2>2 DEF TreeInv, RelayIds
  <2>4. ASSUME NEW d \in Daemons, NEW e \in Daemons
        PROVE  Cardinality(tree[d][e]) <= 1
    <3>1. CASE tree[d][e] = {}
      <4>1. Cardinality(tree[d][e]) = 0
        BY <3>1, FS_EmptySet
      <4>2. QED
        BY <4>1
    <3>2. CASE tree[d][e] # {}
      <4>1. PICK i : i \in tree[d][e]
        BY <3>2
      <4>2. tree[d][e] = {i}
        BY <2>2, <4>1 DEF TreeInv
      <4>3. Cardinality(tree[d][e]) = 1
        BY <4>2, FS_Singleton
      <4>4. QED
        BY <4>3
    <3>3. QED
      BY <3>1, <3>2
  <2>5. QED
    BY <2>2, <2>3, <2>4 DEF Types, TypeOK
<1>2. QED
  BY <1>1, Invariant, PTL

\* No daemon keeps a SPAN of a neighbour that dropped it without the DELETE
\* being on its way (dmsg_relay_delete), and none relays a SPAN whose link it
\* has dropped (dmsg_lnk_span).
THEOREM HeldUpByNeighbour == Spec => []Grounded
<1>1. IInv => Grounded
  <2>1. SUFFICES ASSUME IInv PROVE Grounded
    OBVIOUS
  <2>2. Types /\ RelayInv /\ PairsInv
    BY <2>1 DEF IInv
  <2>3. ASSUME NEW d \in Daemons, NEW l \in link[d], l.from # Kernel, {d, l.from} \notin broken
        PROVE  \/ \E r \in relay[l.from] : r.to = d /\ r.id = l.id
               \/ DeleteMsg(l.id) \in ToSet(chan[l.from][d])
    <3>1. PICK f, q : f = l.from /\ q = chan[f][d]
      OBVIOUS
    <3>2. f \in Daemons
      BY <2>2, <2>3, <3>1 DEF Types, Link
    <3>3. q \in Seq(Message)
      BY <2>2, <3>1, <3>2 DEF Types
    <3>4. {f, d} \notin broken
      BY <2>3, <3>1, PairSym
    <3>5. HeldUp(RelayIds(f, d), LinksFrom(d, f), q)
      BY <2>2, <3>1, <3>2, <3>4 DEF PairsInv, PairInv
    <3>6. l \in LinksFrom(d, f)
      BY <3>1 DEF LinksFrom
    <3>7. CASE l.id \in RelayIds(f, d)
      BY <3>1, <3>7 DEF RelayIds
    <3>8. CASE Deleted(q, l.id)
      <4>1. PICK k \in DOMAIN q : q[k].kind = "DELETE" /\ q[k].id = l.id
        BY <3>8 DEF Deleted
      <4>2. q[k] \in Message
        BY <3>3
      <4>3. q[k] = DeleteMsg(l.id)
        BY <4>1, <4>2 DEF Message, DeleteMsg
      <4>4. QED
        BY <3>1, <4>3 DEF ToSet
    <3>9. QED
      BY <3>5, <3>6, <3>7, <3>8 DEF HeldUp
  <2>4. QED
    BY <2>2, <2>3 DEF RelayInv, Grounded
<1>2. QED
  BY <1>1, Invariant, PTL

\* The limit on slink->dist in dmsg_relay_scan_specific bounds every distance,
\* on whatever circles of connections the SPANs travel.
THEOREM DistanceBounded == Spec => []DistBound
<1>1. IInv => DistBound
  BY DEF IInv, DistInv, DistBound
<1>2. QED
  BY <1>1, Invariant, PTL

-----------------------------------------------------------------------------
(***************************************************************************)
(* No ring of links.  A link is one hop further from the kernel than the   *)
(* link of the neighbour that holds it up, so a set of links that hold up  *)
(* each other would have distances that fall for ever.                     *)
(***************************************************************************)
Creates(q) == {q[k] : k \in {j \in DOMAIN q : q[j].kind = "CREATE"}}

\* A link is known by where it came from and its id, that of the kernel by the
\* former alone.
LinkInv ==
  \A d \in Daemons : \A l \in link[d] :
    /\ l.from = Kernel => l = KernelLink
    /\ \A m \in link[d] : l.from = m.from /\ l.id = m.id => l = m

\* The SPAN with this id, on its way or arrived, is one hop further than k.
Hop(d, e, i, k) ==
  /\ \A l \in link[e] : l.from = d /\ l.id = i => l.dist = k.dist + 1
  /\ \A m \in Creates(chan[d][e]) : m.id = i => m.dist = k.dist + 1

HopInv ==
  \A d, e \in Daemons : {d, e} \notin broken =>
    \A r \in relay[d], k \in link[d] : r.to = e /\ Of(r, k) => Hop(d, e, r.id, k)

RInv == LinkInv /\ HopInv

LEMMA CreatesTail ==
  ASSUME NEW q \in Seq(Message), q # <<>>
  PROVE  /\ Creates(Tail(q)) \subseteq Creates(q)
         /\ Head(q).kind = "CREATE" => Head(q) \in Creates(q)
<1>1. PICK n \in Nat : n = Len(q)
  OBVIOUS
<1>2. /\ Head(q) = q[1] /\ 1 \in DOMAIN q
      /\ DOMAIN Tail(q) = 1..(n - 1) /\ DOMAIN q = 1..n
      /\ \A k \in 1..(n - 1) : Tail(q)[k] = q[k + 1]
  BY <1>1, TailShape
<1>3. \A k \in DOMAIN Tail(q) : k + 1 \in DOMAIN q /\ Tail(q)[k] = q[k + 1]
  BY <1>2
<1>4. QED
  BY <1>2, <1>3 DEF Creates

\* DELETEs behind a stream add no CREATE.
LEMMA CreatesConcat ==
  ASSUME NEW q \in Seq(Message), NEW s \in Seq(Message), NEW D, OneEach(s, D)
  PROVE  Creates(q \o s) \subseteq Creates(q)
<1>1. PICK n \in Nat, o \in Nat : n = Len(q) /\ o = Len(s)
  OBVIOUS
<1>2. /\ DOMAIN (q \o s) = 1..(n + o) /\ DOMAIN q = 1..n /\ DOMAIN s = 1..o
      /\ \A k \in 1..(n + o) : (q \o s)[k] = IF k <= n THEN q[k] ELSE s[k - n]
  BY <1>1, ConcatShape
<1>3. ASSUME NEW k \in DOMAIN (q \o s), (q \o s)[k].kind = "CREATE"
      PROVE  k \in DOMAIN q /\ (q \o s)[k] = q[k]
  <2>1. CASE k <= n
    BY <1>2, <2>1
  <2>2. CASE ~(k <= n)
    <3>1. k - n \in DOMAIN s /\ (q \o s)[k] = s[k - n]
      BY <1>2, <2>2
    <3>2. QED
      BY <1>3, <3>1 DEF OneEach
  <2>3. QED
    BY <2>1, <2>2
<1>4. QED
  BY <1>3 DEF Creates

LEMMA CreatesAppend ==
  ASSUME NEW q \in Seq(Message), NEW m \in Message
  PROVE  Creates(Append(q, m)) \subseteq Creates(q) \cup {m}
<1>1. PICK n \in Nat : n = Len(q)
  OBVIOUS
<1>2. /\ DOMAIN Append(q, m) = 1..(n + 1) /\ DOMAIN q = 1..n
      /\ \A k \in 1..(n + 1) : Append(q, m)[k] = IF k <= n THEN q[k] ELSE m
  BY <1>1, AppendShape
<1>3. ASSUME NEW k \in DOMAIN Append(q, m)
      PROVE  Append(q, m)[k] = m \/ (k \in DOMAIN q /\ Append(q, m)[k] = q[k])
  BY <1>2
<1>4. QED
  BY <1>3 DEF Creates

\* A step that takes away links, relays, CREATEs and connections, and adds none.
Shrinks ==
  /\ \A x \in Daemons : link'[x] \subseteq link[x] /\ relay'[x] \subseteq relay[x]
  /\ broken \subseteq broken'
  /\ \A x, y \in Daemons : Creates(chan'[x][y]) \subseteq Creates(chan[x][y])

LEMMA ShrinkRing ==
  ASSUME RInv, Shrinks
  PROVE  RInv'
<1>1. LinkInv'
  BY DEF RInv, Shrinks, LinkInv, KernelLink
<1>2. ASSUME NEW d \in Daemons, NEW e \in Daemons, {d, e} \notin broken',
             NEW r \in relay'[d], NEW k \in link'[d], r.to = e, Of(r, k)
      PROVE  Hop(d, e, r.id, k)'
  <2>1. {d, e} \notin broken /\ r \in relay[d] /\ k \in link[d]
    BY <1>2 DEF Shrinks
  <2>2. Hop(d, e, r.id, k)
    BY <1>2, <2>1 DEF RInv, HopInv
  <2>3. link'[e] \subseteq link[e] /\ Creates(chan'[d][e]) \subseteq Creates(chan[d][e])
    BY DEF Shrinks
  <2>4. QED
    BY <2>2, <2>3 DEF Hop, Creates
<1>3. HopInv'
  BY <1>2 DEF HopInv, Of
<1>4. QED
  BY <1>1, <1>3 DEF RInv

LEMMA CrashShrinks ==
  ASSUME IInv, NEW d \in Daemons, Crash(d)
  PROVE  Shrinks
<1>1. Types
  BY DEF IInv
<1>2. /\ link' = [link EXCEPT ![d] = {}] /\ relay' = [relay EXCEPT ![d] = {}]
      /\ broken' = broken \cup {c \in Conns : d \in c}
      /\ chan' = [x \in Daemons |-> [y \in Daemons |->
                    IF d \in {x, y} THEN <<>> ELSE chan[x][y]]]
  BY DEF Crash
<1>3. \A x \in Daemons : link'[x] \subseteq link[x] /\ relay'[x] \subseteq relay[x]
  BY <1>1, <1>2 DEF Types
<1>4. Creates(<<>>) = {}
  BY DEF Creates
<1>5. ASSUME NEW x \in Daemons, NEW y \in Daemons
      PROVE  Creates(chan'[x][y]) \subseteq Creates(chan[x][y])
  <2>1. chan'[x][y] = <<>> \/ chan'[x][y] = chan[x][y]
    BY <1>2
  <2>2. QED
    BY <1>4, <2>1
<1>6. QED
  BY <1>2, <1>3, <1>5 DEF Shrinks

LEMMA DropLinkShrinks ==
  ASSUME IInv, NEW d \in Daemons, NEW l \in link[d], NEW in, DropLink(d, l, in), Kept(in),
         \A x, y \in Daemons : Creates(in[x][y]) \subseteq Creates(chan[x][y])
  PROVE  Shrinks
<1>1. Types
  BY DEF IInv
<1>2. PICK rs : rs = {r \in relay[d] : Of(r, l)}
  OBVIOUS
<1>3. CASE Dangling(d, rs)
  <2>1. Crash(d)
    BY <1>2, <1>3 DEF DropLink
  <2>2. QED
    BY <2>1, CrashShrinks
<1>4. CASE ~Dangling(d, rs)
  <2>1. /\ link' = [link EXCEPT ![d] = @ \ {l}] /\ relay' = [relay EXCEPT ![d] = @ \ rs]
        /\ chan' = [in EXCEPT ![d] = [e \in Daemons |->
                      IF {d, e} \in broken THEN @[e] ELSE @[e] \o Deletes(d, e, rs)]]
        /\ broken' = broken
    BY <1>2, <1>4 DEF DropLink
  <2>2. \A x \in Daemons : link'[x] \subseteq link[x] /\ relay'[x] \subseteq relay[x]
    BY <1>1, <2>1 DEF Types
  <2>3. rs \in SUBSET Relay /\ in \in [Daemons -> [Daemons -> Seq(Message)]]
    BY <1>1, <1>2 DEF Types, Kept
  <2>4. ASSUME NEW x \in Daemons, NEW y \in Daemons
        PROVE  Creates(chan'[x][y]) \subseteq Creates(chan[x][y])
    <3>1. PICK q, s : q = in[x][y] /\ s = Deletes(d, y, rs)
      OBVIOUS
    <3>2. chan'[x][y] = q \/ chan'[x][y] = q \o s
      BY <2>1, <2>3, <3>1
    <3>3. q \in Seq(Message)
      BY <2>3, <3>1
    <3>4. s \in Seq(Message) /\ OneEach(s, IdsTo(rs, y))
      BY <2>3, <3>1, DeletesShape
    <3>5. Creates(q \o s) \subseteq Creates(q)
      BY <3>3, <3>4, CreatesConcat
    <3>6. QED
      BY <3>1, <3>2, <3>5
  <2>5. QED
    BY <2>1, <2>2, <2>4 DEF Shrinks
<1>5. QED
  BY <1>3, <1>4

LEMMA LostLinkShrinks ==
  ASSUME IInv, NEW d \in Daemons, NEW l \in link[d], DropLink(d, l, chan)
  PROVE  Shrinks
<1>1. Kept(chan)
  BY DEF IInv, Types, DistInv, Kept
<1>2. PICK in : in = chan
  OBVIOUS
<1>3. QED
  BY <1>1, <1>2, DropLinkShrinks

\* What remains to be read when a message has been.
LEMMA ReadCreates ==
  ASSUME IInv, NEW d \in Daemons, NEW e \in Daemons, chan[e][d] # <<>>,
         NEW in, in = [chan EXCEPT ![e][d] = Tail(@)]
  PROVE  /\ Kept(in)
         /\ \A x, y \in Daemons : Creates(in[x][y]) \subseteq Creates(chan[x][y])
<1>1. PICK m : m = Head(chan[e][d])
  OBVIOUS
<1>2. Kept(in) /\ Reads(d, e, m, in)
  BY <1>1, ReadChan
<1>3. ASSUME NEW x \in Daemons, NEW y \in Daemons
      PROVE  Creates(in[x][y]) \subseteq Creates(chan[x][y])
  <2>1. CASE x = e /\ y = d
    <3>1. PICK q \in Seq(Message) : q = chan[e][d]
      BY <1>2 DEF Reads
    <3>2. in[x][y] = Tail(q)
      BY <1>2, <2>1, <3>1 DEF Reads
    <3>3. Creates(Tail(q)) \subseteq Creates(q)
      BY <3>1, CreatesTail
    <3>4. QED
      BY <2>1, <3>1, <3>2, <3>3
  <2>2. CASE ~(x = e /\ y = d)
    BY <1>2, <2>2 DEF Reads
  <2>3. QED
    BY <2>1, <2>2
<1>4. QED
  BY <1>2, <1>3
\* A new link: it has a name that no link of d had, so no relay stands for it,
\* and it is as far as its CREATE said.
LEMMA AddLinkRing ==
  ASSUME IInv, RInv, NEW d \in Daemons, NEW l \in Link, AddLink(d, l),
         \A k \in link[d] : l.from = k.from /\ l.id = k.id => k = l,
         l.from = Kernel => l = KernelLink,
         l.from \in Daemons => \E m \in Creates(chan[l.from][d]) : m.id = l.id /\ m.dist = l.dist,
         \A x, y \in Daemons : Creates(chan'[x][y]) \subseteq Creates(chan[x][y])
  PROVE  RInv'
<1>1. Types /\ RelayInv /\ LinkInv /\ HopInv
  BY DEF IInv, RInv
<1>2. /\ \A x \in Daemons : link'[x] = IF x = d THEN link[x] \cup {l} ELSE link[x]
      /\ relay' = relay /\ broken' = broken
  BY <1>1 DEF AddLink, Types
<1>3. LinkInv'
  <2>1. ASSUME NEW x \in Daemons, NEW j \in link'[x], j.from = Kernel PROVE j = KernelLink
    <3>1. j \in link[x] \/ j = l
      BY <1>2
    <3>2. QED
      BY <1>1, <2>1, <3>1 DEF LinkInv
  <2>2. ASSUME NEW x \in Daemons, NEW j \in link'[x], NEW m \in link'[x],
               j.from = m.from, j.id = m.id
        PROVE  j = m
    <3>1. CASE j \in link[x] /\ m \in link[x]
      BY <1>1, <2>2, <3>1 DEF LinkInv
    <3>2. CASE j \notin link[x] \/ m \notin link[x]
      <4>1. x = d /\ link'[d] = link[d] \cup {l}
        BY <1>2, <3>2
      <4>2. QED
        BY <2>2, <4>1, <3>2
    <3>3. QED
      BY <3>1, <3>2
  <2>3. QED
    BY <2>1, <2>2 DEF LinkInv, KernelLink
<1>4. ASSUME NEW x \in Daemons, NEW y \in Daemons, {x, y} \notin broken,
             NEW r \in relay[x], NEW k \in link'[x], r.to = y, Of(r, k)
      PROVE  Hop(x, y, r.id, k)'
  <2>1. k \in link[x]
    <3>1. CASE k = l /\ x = d
      <4>1. PICK j \in link[d] : Of(r, j)
        BY <1>1, <1>4, <3>1 DEF RelayInv
      <4>2. j = l
        BY <1>4, <3>1, <4>1 DEF Of
      <4>3. QED
        BY <3>1, <4>1, <4>2
    <3>2. QED
      BY <1>2, <1>4, <3>1
  <2>2. Hop(x, y, r.id, k)
    BY <1>1, <1>4, <2>1 DEF HopInv
  <2>3. ASSUME NEW j \in link'[y], j.from = x, j.id = r.id PROVE j.dist = k.dist + 1
    <3>1. CASE j \in link[y]
      BY <2>2, <2>3, <3>1 DEF Hop
    <3>2. CASE j \notin link[y]
      <4>1. j = l /\ y = d
        BY <1>2, <3>2
      <4>2. PICK m \in Creates(chan[x][y]) : m.id = l.id /\ m.dist = l.dist
        BY <2>3, <4>1
      <4>3. QED
        BY <2>2, <2>3, <4>1, <4>2 DEF Hop
    <3>3. QED
      BY <3>1, <3>2
  <2>4. ASSUME NEW m \in Creates(chan'[x][y]), m.id = r.id PROVE m.dist = k.dist + 1
    <3>1. m \in Creates(chan[x][y])
      OBVIOUS
    <3>2. QED
      BY <2>2, <2>4, <3>1 DEF Hop
  <2>5. QED
    BY <2>3, <2>4 DEF Hop, Creates
<1>5. HopInv'
  BY <1>2, <1>4 DEF HopInv, Of
<1>6. QED
  BY <1>3, <1>5 DEF RInv

LEMMA MountRing ==
  ASSUME IInv, RInv, Mount
  PROVE  RInv'
<1>1. PICK l : l = KernelLink
  OBVIOUS
<1>2. Home \in Daemons /\ Kernel \notin Daemons /\ 1 \in Ids
  BY TopologyAssumption, BoundAssumption DEF Ids
<1>3. l \in Link /\ l.from = Kernel
  BY <1>1, <1>2 DEF KernelLink, Link
<1>4. AddLink(Home, l) /\ chan' = chan
  BY <1>1 DEF Mount
<1>5. \A k \in link[Home] : l.from = k.from => k = l
  BY <1>1, <1>2, <1>3 DEF RInv, LinkInv
<1>6. QED
  BY <1>1, <1>2, <1>3, <1>4, <1>5, AddLinkRing

LEMMA ReceiveCreateRing ==
  ASSUME IInv, RInv, NEW d \in Daemons, NEW e \in Daemons, ReceiveCreate(d, e)
  PROVE  RInv'
<1>1. PICK m, l, in : /\ m = Head(chan[e][d]) /\ in = [chan EXCEPT ![e][d] = Tail(@)]
                      /\ l = [from |-> e, id |-> m.id, dist |-> m.dist]
  OBVIOUS
<1>2. /\ chan[e][d] # <<>> /\ m.kind = "CREATE" /\ AddLink(d, l) /\ chan' = in
  BY <1>1 DEF ReceiveCreate
<1>3. Reads(d, e, m, in)
  BY <1>1, <1>2, ReadChan
<1>4. /\ \A x, y \in Daemons : Creates(in[x][y]) \subseteq Creates(chan[x][y])
  BY <1>1, <1>2, ReadCreates
<1>5. /\ m \in Message /\ chan[e][d] \in Seq(Message) /\ m = chan[e][d][1]
      /\ PairInv(RelayIds(e, d), LinksFrom(d, e), chan[e][d])
  BY <1>3 DEF Reads
<1>6. l \in Link /\ l.from = e /\ l.id = m.id /\ l.dist = m.dist
  BY <1>1, <1>5 DEF Message, Link
<1>7. m \in Creates(chan[e][d])
  BY <1>1, <1>2, <1>5, CreatesTail
<1>8. ASSUME NEW k \in link[d], k.from = e, k.id = m.id PROVE FALSE
  <2>1. 1 \in DOMAIN chan[e][d]
    BY <1>2, <1>5
  <2>2. CreateIsNew(LinksFrom(d, e), chan[e][d])
    BY <1>5 DEF PairInv
  <2>3. QED
    BY <1>2, <1>5, <1>8, <2>1, <2>2 DEF CreateIsNew, LinksFrom
<1>9. l.from # Kernel
  BY <1>6, TopologyAssumption
<1>10. QED
  BY <1>2, <1>4, <1>6, <1>7, <1>8, <1>9, AddLinkRing

\* A scan makes relays with fresh ids, one hop further than the best link.
LEMMA BusyScanRing ==
  ASSUME IInv, RInv, NEW d \in Daemons, NEW e \in Daemons \cup {Kernel},
         NEW l, NEW new, NEW id, NEW gone, BusyScan(d, e, l, new, id, gone)
  PROVE  RInv'
<1>1. Types /\ LinkInv /\ HopInv
  BY DEF IInv, RInv
<1>2. /\ l \in link[d] /\ new \subseteq Daemons /\ link' = link /\ broken' = broken
      /\ \A c \in new : id[c] \in FreshIds(d, c)
      /\ gone = UNION {Extras(d, l, c) : c \in new}
      /\ relay' = [relay EXCEPT ![d] = (@ \ gone) \cup
           {[to |-> c, id |-> id[c], from |-> l.from, sid |-> l.id] : c \in new}]
      /\ chan' = [chan EXCEPT ![d] = [c \in Daemons |->
           IF c \in new /\ {d, c} \notin broken
           THEN Append(@[c], CreateMsg(id[c], RelayDist(l))) \o Deletes(d, c, gone)
           ELSE @[c]]]
  BY DEF BusyScan
<1>3. l.dist \in Nat /\ gone \in SUBSET Relay
  BY <1>1, <1>2 DEF Types, Link, Extras
<1>4. ASSUME NEW x \in Daemons, NEW r \in relay'[x]
      PROVE  \/ r \in relay[x]
             \/ x = d /\ r.to \in new /\ r.id = id[r.to] /\ r.from = l.from /\ r.sid = l.id
  BY <1>1, <1>2 DEF Types
<1>5. ASSUME NEW x \in Daemons, NEW y \in Daemons, NEW m \in Creates(chan'[x][y])
      PROVE  \/ m \in Creates(chan[x][y])
             \/ x = d /\ y \in new /\ m.id = id[y] /\ m.dist = l.dist + 1
  <2>1. CASE ~(x = d /\ y \in new /\ {d, y} \notin broken)
    <3>1. chan'[x][y] = chan[x][y]
      BY <1>1, <1>2, <2>1 DEF Types
    <3>2. QED
      BY <1>5, <3>1
  <2>2. CASE x = d /\ y \in new /\ {d, y} \notin broken
    <3>1. PICK q, s, c : /\ q = chan[d][y] /\ s = Deletes(d, y, gone)
                         /\ c = CreateMsg(id[y], RelayDist(l))
      OBVIOUS
    <3>2. q \in Seq(Message)
      BY <1>1, <3>1 DEF Types
    <3>3. id[y] \in Ids
      BY <1>2, <2>2 DEF FreshIds
    <3>4. c \in Message /\ c.id = id[y] /\ c.dist = l.dist + 1
      BY <1>3, <3>1, <3>3 DEF CreateMsg, RelayDist, Message
    <3>5. s \in Seq(Message) /\ OneEach(s, IdsTo(gone, y))
      BY <1>3, <3>1, DeletesShape
    <3>6. chan'[x][y] = Append(q, c) \o s
      BY <1>1, <1>2, <2>2, <3>1 DEF Types
    <3>7. Append(q, c) \in Seq(Message) /\ Creates(Append(q, c)) \subseteq Creates(q) \cup {c}
      BY <3>2, <3>4, AppendShape, CreatesAppend
    <3>8. Creates(Append(q, c) \o s) \subseteq Creates(Append(q, c))
      BY <3>5, <3>7, CreatesConcat
    <3>9. m \in Creates(q) \cup {c}
      BY <1>5, <3>6, <3>7, <3>8
    <3>10. QED
      BY <2>2, <3>1, <3>4, <3>9
  <2>3. QED
    BY <2>1, <2>2
<1>6. ASSUME NEW y \in new
      PROVE  /\ \A r \in relay[d] : r.to = y => r.id # id[y]
             /\ \A k \in link[y] : k.from = d => k.id # id[y]
             /\ \A m \in Creates(chan[d][y]) : m.id # id[y]
  <2>1. /\ id[y] \notin RelayIds(d, y) /\ \A k \in LinksFrom(y, d) : k.id # id[y]
        /\ \A k \in DOMAIN chan[d][y] : ~About(chan[d][y][k], id[y])
    BY <1>2, Fresh
  <2>2. QED
    BY <2>1 DEF RelayIds, LinksFrom, About, Creates
<1>7. ASSUME NEW x \in Daemons, NEW y \in Daemons, {x, y} \notin broken,
             NEW r \in relay'[x], NEW k \in link[x], r.to = y, Of(r, k)
      PROVE  Hop(x, y, r.id, k)'
  <2>1. CASE r \in relay[x]
    <3>1. Hop(x, y, r.id, k)
      BY <1>1, <1>7, <2>1 DEF HopInv
    <3>2. ASSUME NEW m \in Creates(chan'[x][y]), m.id = r.id PROVE m.dist = k.dist + 1
      <4>1. CASE m \in Creates(chan[x][y])
        BY <3>1, <3>2, <4>1 DEF Hop
      <4>2. CASE m \notin Creates(chan[x][y])
        BY <1>5, <1>6, <1>7, <2>1, <3>2, <4>2
      <4>3. QED
        BY <4>1, <4>2
    <3>3. QED
      BY <1>2, <3>1, <3>2 DEF Hop, Creates
  <2>2. CASE r \notin relay[x]
    <3>1. x = d /\ y \in new /\ r.id = id[y] /\ r.from = l.from /\ r.sid = l.id
      BY <1>4, <1>7, <2>2
    <3>2. k = l
      BY <1>1, <1>2, <1>7, <3>1 DEF Of, LinkInv
    <3>3. ASSUME NEW m \in Creates(chan'[x][y]), m.id = r.id PROVE m.dist = k.dist + 1
      BY <1>5, <1>6, <3>1, <3>2, <3>3
    <3>4. ASSUME NEW j \in link[y], j.from = x, j.id = r.id PROVE j.dist = k.dist + 1
      BY <1>6, <3>1, <3>4
    <3>5. QED
      BY <1>2, <3>3, <3>4 DEF Hop, Creates
  <2>3. QED
    BY <2>1, <2>2
<1>8. HopInv'
  BY <1>2, <1>7 DEF HopInv, Of
<1>9. LinkInv'
  BY <1>1, <1>2 DEF LinkInv
<1>10. QED
  BY <1>8, <1>9 DEF RInv
LEMMA NextRing ==
  ASSUME IInv, RInv, [Next]_vars
  PROVE  RInv'
<1>1. CASE UNCHANGED vars
  BY <1>1, ShrinkRing DEF vars, Shrinks
<1>2. ASSUME NEW d \in Daemons, NEW e \in Daemons \cup {Kernel}, Scan(d, e) PROVE RInv'
  <2>1. CASE link[d] = {}
    <3>1. link' = link /\ relay' = relay /\ chan' = chan /\ broken' = broken
      BY <1>2, <2>1 DEF Scan
    <3>2. QED
      BY <3>1, ShrinkRing DEF Shrinks
  <2>2. CASE link[d] # {}
    <3>1. PICK l, new, id, gone : BusyScan(d, e, l, new, id, gone)
      BY <1>2, <2>2, ScanIs
    <3>2. QED
      BY <3>1, BusyScanRing
  <2>3. QED
    BY <2>1, <2>2
<1>3. ASSUME NEW d \in Daemons, NEW e \in Daemons \cup {Kernel}, ReadError(d, e) PROVE RInv'
  BY <1>3, ShrinkRing DEF Shrinks, ReadError
<1>4. ASSUME NEW d \in Daemons, NEW e \in Daemons \cup {Kernel}, FailLink(d, e) PROVE RInv'
  BY <1>4, LostLinkShrinks, ShrinkRing DEF FailLink
<1>5. ASSUME NEW d \in Daemons, NEW e \in Daemons, ReceiveConn(d, e) PROVE RInv'
  <2>1. PICK in : in = [chan EXCEPT ![e][d] = Tail(@)]
    OBVIOUS
  <2>2. /\ chan[e][d] # <<>> /\ chan' = in
        /\ link' = link /\ relay' = relay /\ broken' = broken
    BY <1>5, <2>1 DEF ReceiveConn
  <2>3. \A x, y \in Daemons : Creates(in[x][y]) \subseteq Creates(chan[x][y])
    BY <2>1, <2>2, ReadCreates
  <2>4. QED
    BY <2>2, <2>3, ShrinkRing DEF Shrinks
<1>6. ASSUME NEW d \in Daemons, NEW e \in Daemons, ReceiveDelete(d, e) PROVE RInv'
  <2>1. PICK in : in = [chan EXCEPT ![e][d] = Tail(@)]
    OBVIOUS
  <2>2. chan[e][d] # <<>> /\ \E l \in link[d] : DropLink(d, l, in)
    BY <1>6, <2>1 DEF ReceiveDelete
  <2>3. Kept(in) /\ \A x, y \in Daemons : Creates(in[x][y]) \subseteq Creates(chan[x][y])
    BY <2>1, <2>2, ReadCreates
  <2>4. QED
    BY <2>2, <2>3, DropLinkShrinks, ShrinkRing
<1>7. ASSUME NEW d \in Daemons, NEW e \in Daemons, FailConn(d, e) PROVE RInv'
  <2>1. /\ relay' = [relay EXCEPT ![d] = {r \in @ : ~(r.to = e /\ r.id \in tree[d][e])}]
        /\ link' = link /\ chan' = chan /\ broken' = broken
    BY <1>7 DEF FailConn
  <2>2. \A x \in Daemons : relay'[x] \subseteq relay[x]
    BY <2>1 DEF IInv, Types
  <2>3. QED
    BY <2>1, <2>2, ShrinkRing DEF Shrinks
<1>8. ASSUME NEW d \in Daemons, NEW e \in Daemons, FailRelay(d, e) PROVE RInv'
  BY <1>8, CrashShrinks, ShrinkRing DEF FailRelay
<1>9. ASSUME NEW c \in Conns, Break(c) PROVE RInv'
  <2>1. /\ link' = link /\ relay' = relay /\ broken' = broken \cup {c}
        /\ \A x, y \in Daemons : chan'[x][y] = <<>> \/ chan'[x][y] = chan[x][y]
    BY <1>9 DEF Break
  <2>2. Creates(<<>>) = {}
    BY DEF Creates
  <2>3. \A x, y \in Daemons : Creates(chan'[x][y]) \subseteq Creates(chan[x][y])
    BY <2>1, <2>2
  <2>4. QED
    BY <2>1, <2>3, ShrinkRing DEF Shrinks
<1>10. ASSUME Unmount PROVE RInv'
  <2>1. PICK l : l = KernelLink
    OBVIOUS
  <2>2. Home \in Daemons /\ l \in link[Home] /\ DropLink(Home, l, chan)
    BY <1>10, <2>1, TopologyAssumption DEF Unmount
  <2>3. QED
    BY <2>2, LostLinkShrinks, ShrinkRing
<1>11. QED
  BY <1>1, <1>2, <1>3, <1>4, <1>5, <1>6, <1>7, <1>8, <1>9, <1>10,
     MountRing, ReceiveCreateRing DEF Next

\* A set of numbers has a least one.
LEMMA LeastNumber ==
  ASSUME NEW T \in SUBSET Nat, T # {}
  PROVE  \E x \in T : \A y \in T : ~(y < x)
<1>1. PICK R : R = {ss \in Nat \X Nat : ss[1] < ss[2]}
  OBVIOUS
<1>2. IsWellFoundedOn(R, Nat)
  BY <1>1, NatLessThanWellFounded DEF OpToRel
<1>3. PICK x \in T : \A y \in T : ~(<<y, x>> \in R)
  BY <1>2, WFMin
<1>4. QED
  BY <1>1, <1>3

\* No set of links holds itself up, whatever circles the connections make:
\* every SPAN a daemon knows comes, over a chain of relays, from the kernel
\* that announced it, or is about to be withdrawn.
THEOREM NoClosedLoop == Spec => []NoRing
<1>1. Init => IInv /\ RInv
  <2>1. Init => RInv
    BY DEF Init, RInv, LinkInv, HopInv
  <2>2. QED
    BY <2>1, InitInv
<1>2. IInv /\ RInv /\ [Next]_vars => IInv' /\ RInv'
  BY NextInv, NextRing
<1>3. ASSUME IInv, RInv PROVE NoRing
  <2>1. ASSUME NEW x \in AllLinks
        PROVE  x[1] \in Daemons /\ x[2] \in link[x[1]] /\ x[2].dist \in Nat
    <3>1. x[1] \in Daemons /\ x[2] \in link[x[1]]
      BY DEF AllLinks
    <3>2. QED
      BY <1>3, <3>1 DEF IInv, Types, Link
  <2>2. ASSUME NEW x \in AllLinks, NEW y \in AllLinks, HoldsUp(x, y) PROVE x[2].dist < y[2].dist
    <3>1. PICK d, e, k, l : d = x[1] /\ e = y[1] /\ k = x[2] /\ l = y[2]
      OBVIOUS
    <3>2. /\ d \in Daemons /\ e \in Daemons /\ k \in link[d] /\ l \in link[e]
          /\ k.dist \in Nat /\ l.dist \in Nat
      BY <2>1, <3>1
    <3>3. /\ l.from = d /\ {e, d} \notin broken
          /\ \E r \in relay[d] : r.to = e /\ r.id = l.id /\ Of(r, k)
      BY <2>2, <3>1 DEF HoldsUp
    <3>4. l.dist = k.dist + 1
      <4>1. {d, e} \notin broken
        BY <3>3, PairSym
      <4>2. QED
        BY <1>3, <3>2, <3>3, <4>1 DEF RInv, HopInv, Hop
    <3>5. QED
      BY <3>1, <3>2, <3>4
  <2>3. ASSUME NEW S \in SUBSET AllLinks, S # {}, \A y \in S : \E x \in S : HoldsUp(x, y)
        PROVE  FALSE
    <3>1. PICK T : T = {x[2].dist : x \in S}
      OBVIOUS
    <3>2. T \in SUBSET Nat /\ T # {}
      BY <2>1, <2>3, <3>1
    <3>3. PICK n \in T : \A m \in T : ~(m < n)
      BY <3>2, LeastNumber
    <3>4. PICK y \in S : n = y[2].dist
      BY <3>1, <3>3
    <3>5. PICK x \in S : HoldsUp(x, y)
      BY <2>3, <3>4
    <3>6. QED
      BY <2>2, <3>1, <3>3, <3>4, <3>5
  <2>4. QED
    BY <2>3 DEF NoRing
<1>4. QED
  BY <1>1, <1>2, <1>3, PTL DEF Spec
=============================================================================
