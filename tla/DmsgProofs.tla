----------------------------- MODULE DmsgProofs -----------------------------
(* Proofs about Dmsg, for every bound on the use of a msgid. *)
EXTENDS Dmsg, Integers, FiniteSetTheorems, SequenceTheorems, TLAPS

-----------------------------------------------------------------------------
(***************************************************************************)
(* The two streams of a transaction.  The messages a sender writes into    *)
(* one are, over all uses of the msgid, CREATE, DELETE, CREATE, DELETE ... *)
(* and get numbers in this order: 2n for the CREATE and 2n + 1 for the     *)
(* DELETE of use n.                                                        *)
(***************************************************************************)
Number(m) == IF m.delete THEN 2 * m.inc + 1 ELSE 2 * m.inc

\* A message of p that belongs to transaction t.
For(p, t, m) == m.msgid = t[2] /\ m.reply = (t[1] # p)

\* The message in the core thread of p closes the receive direction of t.
Closing(p, t) == cur[p] # NoMsg /\ cur[p].t = t /\ cur[p].delete

\* The number of the last message written for a transaction, by its state.
SentOf(s) ==
  IF ~s.live \/ s.txD THEN 2 * s.inc + 1 ELSE IF s.txC THEN 2 * s.inc ELSE 2 * s.inc - 1

\* The number of the last message taken from the other end.
SeenOf(s, closing) ==
  IF ~s.live \/ closing THEN 2 * s.inc + 1 ELSE IF s.rxC THEN 2 * s.inc ELSE 2 * s.inc - 1

Sent(p, t) == SentOf(st[p][t])
Seen(p, t) == SeenOf(st[p][t], Closing(p, t))

-----------------------------------------------------------------------------
(* The inductive invariant *)

\* A state at one end.  It is freed by the DELETE that closes the receive
\* direction: the callback has closed the other direction by then.
StateInv(p, t) ==
  LET s == st[p][t]
  IN  /\ ~s.live => s = Free(s.inc)
      /\ s.live => /\ ~s.rxD /\ s.inc > 0
                   /\ IF t[1] = p THEN s.txC ELSE s.rxC
                   /\ ~s.txC => /\ ~s.txD
                                /\ cur[p] # NoMsg /\ cur[p].t = t
                                /\ cur[p].phase = "callback"
                                /\ cur[p].create /\ ~cur[p].delete

\* The message in the core thread.
CurInv(p) ==
  cur[p] # NoMsg =>
    LET c == cur[p]
        s == st[p][c.t]
    IN  /\ s.live /\ s.inc = c.inc
        /\ c.create /\ c.t[1] # p => ~c.delete /\ (c.phase = "callback" => ~s.txC)
        /\ c.delete /\ c.phase = "cleanup" => s.txD
        /\ c.delete /\ ~err[p] => s.rxC

\* A connection is in connq as long as the LNK_CONN of the other end is open.
ConnInv(p) ==
  LET t == <<Other(p), "CONN">>
  IN  conn[p] => st[p][t].live /\ ~(Closing(p, t) /\ cur[p].phase = "cleanup")

EndInv(p) ==
  /\ eof[p] => err[p] /\ cur[p] = NoMsg /\ ~conn[p] /\ \A t \in Trans : ~st[p][t].live
  /\ ~auth[p] => st[p][<<p, "CONN">>] = Free(0)

(***************************************************************************)
(* The stream of p for t: w is what was written and not read, a the number *)
(* of the last message the other end has taken, z that of the last one     *)
(* that was written, top the use of the msgid at the end that opened t.    *)
(* In w are the messages after a, in order and without a gap; all of them  *)
(* up to z unless the stream is broken.  Of what is in a stream that is no *)
(* longer read, nothing is said.                                           *)
(***************************************************************************)
Unread(p, t, w, a) ==
  \A k \in DOMAIN w : For(p, t, w[k]) =>
    /\ a < Number(w[k])
    /\ \A j \in DOMAIN w : j < k /\ For(p, t, w[j]) => Number(w[j]) < Number(w[k])
    /\ \A x \in (a + 1)..(Number(w[k]) - 1) :
         \E j \in DOMAIN w : j < k /\ For(p, t, w[j]) /\ Number(w[j]) = x

Whole(p, t, w, a, z) ==
  \A x \in (a + 1)..z : \E k \in DOMAIN w : For(p, t, w[k]) /\ Number(w[k]) = x

Written(p, t, w, z, top) ==
  \A k \in DOMAIN w : For(p, t, w[k]) =>
    w[k].create # w[k].delete /\ Number(w[k]) <= z /\ w[k].inc <= top

Stream(p, t, w, a, z, top, broken, dead) ==
  /\ Written(p, t, w, z, top)
  /\ ~dead => a <= z /\ Unread(p, t, w, a) /\ (~broken => Whole(p, t, w, a, z))

WireInv(p, t) ==
  Stream(p, t, wire[p], Seen(Other(p), t), Sent(p, t), st[t[1]][t].inc, cut[p], err[Other(p)])

\* The end that did not open the transaction follows the one that did.
UseInv(p, t) == st[p][t].inc <= st[t[1]][t].inc

IInv ==
  /\ TypeOK /\ NoTransError
  /\ \A p \in Peers : CurInv(p) /\ ConnInv(p) /\ EndInv(p)
  /\ \A p \in Peers, t \in Trans : StateInv(p, t) /\ WireInv(p, t) /\ UseInv(p, t)

-----------------------------------------------------------------------------
(* The two ends, and the types of what they have *)

LEMMA PeersPair ==
  ASSUME NEW p \in Peers
  PROVE  /\ Other(p) \in Peers /\ Other(p) # p /\ Other(Other(p)) = p
         /\ \A r \in Peers : r = p \/ r = Other(p)
<1>1. IsFiniteSet(Peers \ {p}) /\ Cardinality(Peers \ {p}) = Cardinality(Peers) - 1
  BY PeersAssumption, FS_RemoveElement, Zenon
<1>2. Cardinality(Peers \ {p}) = 1
  BY <1>1, PeersAssumption
<1>3. PICK q : Peers \ {p} = {q}
  BY <1>1, <1>2, FS_Singleton, Zenon
<1>4. Peers = {p, q} /\ p # q
  BY <1>3
<1>5. Other(p) = q /\ Other(q) = p
  BY <1>4 DEF Other
<1>6. QED
  BY <1>4, <1>5

LEMMA StateType ==
  ASSUME TypeOK, NEW p \in Peers, NEW t \in Trans
  PROVE  /\ st[p] \in [Trans -> State] /\ st[p][t] \in State
         /\ st[p][t].live \in BOOLEAN /\ st[p][t].txC \in BOOLEAN /\ st[p][t].txD \in BOOLEAN
         /\ st[p][t].rxC \in BOOLEAN /\ st[p][t].rxD \in BOOLEAN
         /\ st[p][t].inc \in 0..MaxInc /\ st[p][t].inc \in Nat
<1>1. st[p] \in [Trans -> State] /\ st[p][t] \in State
  BY DEF TypeOK
<1>2. QED
  BY <1>1, IncAssumption DEF State

LEMMA NumberOfType ==
  ASSUME NEW s \in State, NEW closing
  PROVE  SentOf(s) \in Int /\ SeenOf(s, closing) \in Int
BY IncAssumption DEF State, SentOf, SeenOf

LEMMA NumberType ==
  ASSUME TypeOK, NEW p \in Peers, NEW t \in Trans
  PROVE  /\ Sent(p, t) \in Int /\ Seen(p, t) \in Int
         /\ \A k \in DOMAIN wire[p] : /\ wire[p][k] \in Message
                                      /\ Number(wire[p][k]) \in Nat
<1>1. Sent(p, t) \in Int /\ Seen(p, t) \in Int
  BY StateType, NumberOfType DEF Sent, Seen
<1>2. wire[p] \in Seq(Message)
  BY DEF TypeOK
<1>3. \A k \in DOMAIN wire[p] : wire[p][k] \in Message
  BY <1>2, ElementOfSeq
<1>4. \A m \in Message : Number(m) \in Nat
  BY IncAssumption DEF Message, Number
<1>5. QED
  BY <1>1, <1>3, <1>4

LEMMA CurType ==
  ASSUME TypeOK, NEW p \in Peers, cur[p] # NoMsg
  PROVE  /\ cur[p] \in CoreMsg /\ cur[p].t \in Trans /\ cur[p].inc \in 1..MaxInc
         /\ cur[p].create \in BOOLEAN /\ cur[p].delete \in BOOLEAN
         /\ cur[p].phase \in {"callback", "cleanup"}
<1>1. cur[p] \in CoreMsg
  BY DEF TypeOK
<1>2. QED
  BY <1>1 DEF CoreMsg

\* Only one transaction is opened by an end under a name, so a message
\* belongs to one transaction.
LEMMA ForUnique ==
  ASSUME NEW p \in Peers, NEW m, NEW t \in Trans, NEW v \in Trans, For(p, t, m), For(p, v, m)
  PROVE  t = v
<1>1. /\ t = <<t[1], t[2]>> /\ t[1] \in Peers /\ t[2] \in Addrs
      /\ v = <<v[1], v[2]>> /\ v[1] \in Peers /\ v[2] \in Addrs
  BY DEF Trans
<1>2. t[2] = v[2] /\ (t[1] = p <=> v[1] = p)
  BY DEF For
<1>3. CASE t[1] = p
  BY <1>1, <1>2, <1>3
<1>4. CASE t[1] # p
  <2>1. t[1] = Other(p) /\ v[1] = Other(p)
    BY <1>1, <1>2, <1>4, PeersPair
  <2>2. QED
    BY <1>1, <1>2, <2>1
<1>5. QED
  BY <1>3, <1>4

-----------------------------------------------------------------------------
(* What happens to a stream *)

LEMMA MessageNumber ==
  ASSUME NEW w \in Seq(Message), NEW k \in DOMAIN w
  PROVE  w[k] \in Message /\ Number(w[k]) \in Nat /\ w[k].inc \in Nat
<1>1. w[k] \in Message
  BY ElementOfSeq
<1>2. QED
  BY <1>1, IncAssumption DEF Message, Number

LEMMA WrittenKeep ==
  ASSUME NEW p, NEW t, NEW w \in Seq(Message), NEW z \in Int, NEW y \in Int,
         NEW top \in Nat, NEW tip \in Nat, Written(p, t, w, z, top), top <= tip, z <= y
  PROVE  Written(p, t, w, y, tip)
BY MessageNumber DEF Written

\* p writes messages, at most one of them for t, which is the next one.
LEMMA StreamWrite ==
  ASSUME NEW p, NEW t, NEW w \in Seq(Message), NEW ms \in Seq(Message),
         NEW a \in Int, NEW z \in Int, NEW y \in Int,
         NEW top \in Nat, NEW tip \in Nat, NEW dead,
         Stream(p, t, w, a, z, top, FALSE, dead), top <= tip,
         \/ y = z /\ \A j \in DOMAIN ms : ~For(p, t, ms[j])
         \/ /\ y = z + 1
            /\ \E i \in DOMAIN ms :
                 /\ For(p, t, ms[i]) /\ Number(ms[i]) = z + 1
                 /\ ms[i].create # ms[i].delete /\ ms[i].inc <= tip
                 /\ \A j \in DOMAIN ms : For(p, t, ms[j]) => j = i
  PROVE  Stream(p, t, w \o ms, a, y, tip, FALSE, dead)
<1> DEFINE n == Len(w)
           v == w \o ms
<1>1. n \in Nat /\ DOMAIN w = 1..n /\ z <= y
  OBVIOUS
<1>2. /\ Len(ms) \in Nat /\ DOMAIN ms = 1..Len(ms) /\ DOMAIN v = 1..(n + Len(ms))
      /\ \A k \in 1..(n + Len(ms)) : v[k] = IF k <= n THEN w[k] ELSE ms[k - n]
  BY <1>1, ConcatProperties
<1> HIDE DEF v, n
<1>3. ASSUME NEW k \in DOMAIN v, ~(k > n) PROVE k \in DOMAIN w /\ v[k] = w[k]
  BY <1>1, <1>2, <1>3
<1>4. ASSUME NEW k \in DOMAIN w PROVE k \in DOMAIN v /\ v[k] = w[k] /\ k <= n /\ k \in Nat
  BY <1>1, <1>2
\* what is new in the stream
<1>5. ASSUME NEW k \in DOMAIN v, k > n, For(p, t, v[k])
      PROVE  /\ y = z + 1 /\ Number(v[k]) = z + 1
             /\ v[k].create # v[k].delete /\ v[k].inc <= tip
             /\ \A j \in DOMAIN v : j > n /\ For(p, t, v[j]) => j = k
  <2>1. k - n \in DOMAIN ms /\ v[k] = ms[k - n]
    BY <1>1, <1>2, <1>5
  <2>2. PICK i \in DOMAIN ms :
                 /\ For(p, t, ms[i]) /\ Number(ms[i]) = z + 1
                 /\ ms[i].create # ms[i].delete /\ ms[i].inc <= tip
                 /\ \A j \in DOMAIN ms : For(p, t, ms[j]) => j = i
    BY <1>5, <2>1
  <2>3. y = z + 1
    BY <1>5, <2>1
  <2>4. k - n = i
    BY <1>5, <2>1, <2>2
  <2>5. ASSUME NEW j \in DOMAIN v, j > n, For(p, t, v[j]) PROVE j = k
    <3>1. j - n \in DOMAIN ms /\ v[j] = ms[j - n]
      BY <1>1, <1>2, <2>5
    <3>2. j - n = i
      BY <2>2, <2>5, <3>1
    <3>3. QED
      BY <1>1, <1>2, <2>4, <3>2
  <2>6. QED
    BY <2>1, <2>2, <2>3, <2>4, <2>5
<1>6. ASSUME NEW k \in DOMAIN w, For(p, t, w[k])
      PROVE  /\ w[k].create # w[k].delete /\ Number(w[k]) \in Nat
             /\ Number(w[k]) <= z /\ w[k].inc <= tip
  <2>1. Number(w[k]) \in Nat /\ w[k].inc \in Nat
    BY MessageNumber
  <2>2. w[k].create # w[k].delete /\ Number(w[k]) <= z /\ w[k].inc <= top
    BY <1>6 DEF Stream, Written
  <2>3. QED
    BY <2>1, <2>2
<1>7. Written(p, t, v, y, tip)
  <2>1. SUFFICES ASSUME NEW k \in DOMAIN v, For(p, t, v[k])
                 PROVE  v[k].create # v[k].delete /\ Number(v[k]) <= y /\ v[k].inc <= tip
    BY DEF Written
  <2>2. CASE k > n
    BY <1>5, <2>1, <2>2
  <2>3. CASE ~(k > n)
    <3>1. k \in DOMAIN w /\ v[k] = w[k]
      BY <1>3, <2>3
    <3>2. QED
      BY <1>1, <1>6, <2>1, <3>1
  <2>4. QED
    BY <2>2, <2>3
<1>8. ASSUME ~dead PROVE a <= z /\ Unread(p, t, w, a) /\ Whole(p, t, w, a, z)
  BY <1>8 DEF Stream
<1>9. ASSUME ~dead, NEW k \in DOMAIN v, For(p, t, v[k])
      PROVE  /\ a < Number(v[k])
             /\ \A j \in DOMAIN v : j < k /\ For(p, t, v[j]) => Number(v[j]) < Number(v[k])
             /\ \A x \in (a + 1)..(Number(v[k]) - 1) :
                  \E j \in DOMAIN v : j < k /\ For(p, t, v[j]) /\ Number(v[j]) = x
  <2>1. CASE k > n
    <3>1. Number(v[k]) = z + 1 /\ a <= z
      BY <1>5, <1>8, <1>9, <2>1
    <3>2. ASSUME NEW j \in DOMAIN v, j < k, For(p, t, v[j]) PROVE Number(v[j]) < Number(v[k])
      <4>1. k \in Nat /\ j \in Nat
        BY <1>1, <1>2
      <4>2. j # k
        BY <3>2, <4>1
      <4>3. ~(j > n)
        BY <1>5, <1>9, <2>1, <3>2, <4>2
      <4>4. j \in DOMAIN w /\ v[j] = w[j]
        BY <1>3, <4>3
      <4>5. Number(v[j]) <= z /\ Number(v[j]) \in Nat
        BY <1>6, <3>2, <4>4
      <4>6. QED
        BY <3>1, <4>5
    <3>3. ASSUME NEW x \in (a + 1)..(Number(v[k]) - 1)
          PROVE  \E j \in DOMAIN v : j < k /\ For(p, t, v[j]) /\ Number(v[j]) = x
      <4>1. x \in (a + 1)..z
        BY <3>1
      <4>2. PICK j \in DOMAIN w : For(p, t, w[j]) /\ Number(w[j]) = x
        BY <1>8, <1>9, <4>1 DEF Whole
      <4>3. j \in DOMAIN v /\ v[j] = w[j] /\ j <= n /\ j \in Nat
        BY <1>4
      <4>4. j < k
        BY <1>1, <1>2, <2>1, <4>3
      <4>5. QED
        BY <4>2, <4>3, <4>4
    <3>4. a < Number(v[k])
      BY <3>1
    <3>5. QED
      BY <3>2, <3>3, <3>4
  <2>2. CASE ~(k > n)
    <3>1. k \in DOMAIN w /\ v[k] = w[k] /\ k <= n /\ k \in Nat
      BY <1>3, <1>4, <2>2
    <3>2. \A j \in DOMAIN v : j < k => j \in DOMAIN w /\ v[j] = w[j]
      BY <1>1, <1>2, <3>1
    <3>3. /\ a < Number(w[k])
          /\ \A j \in DOMAIN w : j < k /\ For(p, t, w[j]) => Number(w[j]) < Number(w[k])
          /\ \A x \in (a + 1)..(Number(w[k]) - 1) :
               \E j \in DOMAIN w : j < k /\ For(p, t, w[j]) /\ Number(w[j]) = x
      BY <1>8, <1>9, <3>1 DEF Unread
    <3>4. QED
      BY <1>4, <3>1, <3>2, <3>3
  <2>3. QED
    BY <2>1, <2>2
<1>10. ASSUME ~dead, NEW x \in (a + 1)..y
       PROVE  \E k \in DOMAIN v : For(p, t, v[k]) /\ Number(v[k]) = x
  <2>1. CASE x <= z
    <3>1. x \in (a + 1)..z
      BY <2>1
    <3>2. QED
      BY <1>4, <1>8, <1>10, <3>1 DEF Whole
  <2>2. CASE ~(x <= z)
    <3>1. y = z + 1 /\ x = z + 1 /\ y # z
      BY <1>1, <2>2
    <3>2. PICK i \in DOMAIN ms : For(p, t, ms[i]) /\ Number(ms[i]) = z + 1
      BY <3>1
    <3>3. n + i \in DOMAIN v /\ v[n + i] = ms[i]
      BY <1>1, <1>2
    <3>4. QED
      BY <3>1, <3>2, <3>3
  <2>3. QED
    BY <2>1, <2>2
<1>11. ~dead => a <= y /\ Unread(p, t, v, a) /\ Whole(p, t, v, a, y)
  BY <1>1, <1>8, <1>9, <1>10 DEF Unread, Whole
<1>12. QED
  BY <1>7, <1>11 DEF Stream, v

\* The message that is about to be read is the next one of its stream.
LEMMA StreamHead ==
  ASSUME NEW p, NEW t, NEW w \in Seq(Message), w # <<>>, NEW a \in Int, Unread(p, t, w, a),
         For(p, t, Head(w))
  PROVE  Number(Head(w)) = a + 1
<1>1. 1 \in DOMAIN w /\ w[1] = Head(w) /\ DOMAIN w \subseteq Nat \ {0}
  OBVIOUS
<1> DEFINE x == Number(w[1])
<1>2. x \in Nat
  BY <1>1, MessageNumber
<1>3. a < x /\ \A y \in (a + 1)..(x - 1) : \E j \in DOMAIN w : j < 1
  BY <1>1 DEF Unread
<1> HIDE DEF x
<1>4. ASSUME x # a + 1 PROVE FALSE
  <2>1. a + 1 \in (a + 1)..(x - 1)
    BY <1>2, <1>3, <1>4
  <2>2. PICK j \in DOMAIN w : j < 1
    BY <1>3, <2>1
  <2>3. QED
    BY <1>1, <2>2
<1>5. QED
  BY <1>1, <1>4 DEF x

\* The first message is read.
LEMMA StreamRead ==
  ASSUME NEW p, NEW t, NEW w \in Seq(Message), w # <<>>, NEW a \in Int, NEW b \in Int,
         NEW z \in Int, NEW top \in Nat, NEW broken,
         Stream(p, t, w, a, z, top, broken, FALSE),
         IF For(p, t, Head(w)) THEN b = Number(Head(w)) ELSE b = a
  PROVE  Stream(p, t, Tail(w), b, z, top, broken, FALSE)
<1> DEFINE v == Tail(w)
           n == Len(w)
<1>1. n \in Nat \ {0} /\ DOMAIN w = 1..n /\ w[1] = Head(w) /\ 1 \in DOMAIN w
  OBVIOUS
<1>2. DOMAIN v = 1..(n - 1) /\ \A k \in 1..(n - 1) : v[k] = w[k + 1]
  BY <1>1, HeadTailProperties
<1> HIDE DEF v, n
<1>3. ASSUME NEW k \in DOMAIN v PROVE k + 1 \in DOMAIN w /\ v[k] = w[k + 1] /\ k \in Nat \ {0}
  BY <1>1, <1>2
<1>4. ASSUME NEW k \in DOMAIN w, k # 1 PROVE k - 1 \in DOMAIN v /\ v[k - 1] = w[k] /\ k \in Nat
  <2>1. k - 1 \in 1..(n - 1) /\ (k - 1) + 1 = k
    BY <1>1, <1>4
  <2>2. QED
    BY <1>1, <1>2, <2>1
<1>5. /\ Written(p, t, w, z, top) /\ a <= z /\ Unread(p, t, w, a)
      /\ ~broken => Whole(p, t, w, a, z)
  BY DEF Stream
<1>6. Written(p, t, v, z, top)
  BY <1>3, <1>5 DEF Written
<1>7. CASE ~For(p, t, w[1])
  <2>1. b = a
    BY <1>1, <1>7
  <2>2. ASSUME NEW k \in DOMAIN v, For(p, t, v[k])
        PROVE  /\ a < Number(v[k])
               /\ \A j \in DOMAIN v : j < k /\ For(p, t, v[j]) => Number(v[j]) < Number(v[k])
               /\ \A x \in (a + 1)..(Number(v[k]) - 1) :
                    \E j \in DOMAIN v : j < k /\ For(p, t, v[j]) /\ Number(v[j]) = x
    <3>1. /\ a < Number(v[k])
          /\ \A j \in DOMAIN w : j < k + 1 /\ For(p, t, w[j]) => Number(w[j]) < Number(v[k])
          /\ \A x \in (a + 1)..(Number(v[k]) - 1) :
               \E j \in DOMAIN w : j < k + 1 /\ For(p, t, w[j]) /\ Number(w[j]) = x
      BY <1>3, <1>5, <2>2 DEF Unread
    <3>2. ASSUME NEW j \in DOMAIN v, j < k, For(p, t, v[j]) PROVE Number(v[j]) < Number(v[k])
      <4>1. j + 1 \in DOMAIN w /\ v[j] = w[j + 1] /\ j + 1 < k + 1
        BY <1>3, <3>2
      <4>2. QED
        BY <3>1, <3>2, <4>1
    <3>3. ASSUME NEW x \in (a + 1)..(Number(v[k]) - 1)
          PROVE  \E j \in DOMAIN v : j < k /\ For(p, t, v[j]) /\ Number(v[j]) = x
      <4>1. PICK j \in DOMAIN w : j < k + 1 /\ For(p, t, w[j]) /\ Number(w[j]) = x
        BY <3>1
      <4>2. j # 1
        BY <1>7, <4>1
      <4>3. j - 1 \in DOMAIN v /\ v[j - 1] = w[j] /\ j - 1 < k
        BY <1>3, <1>4, <4>1, <4>2
      <4>4. QED
        BY <4>1, <4>3
    <3>4. QED
      BY <3>1, <3>2, <3>3
  <2>3. ASSUME ~broken PROVE Whole(p, t, v, a, z)
    <3>1. SUFFICES ASSUME NEW x \in (a + 1)..z
                   PROVE  \E k \in DOMAIN v : For(p, t, v[k]) /\ Number(v[k]) = x
      BY DEF Whole
    <3>2. PICK k \in DOMAIN w : For(p, t, w[k]) /\ Number(w[k]) = x
      BY <1>5, <2>3 DEF Whole
    <3>3. QED
      BY <1>4, <1>7, <3>2
  <2>4. Unread(p, t, v, a)
    BY <2>2 DEF Unread
  <2>5. QED
    BY <1>5, <1>6, <2>1, <2>3, <2>4 DEF Stream, v
<1>8. CASE For(p, t, w[1])
  <2>1. b = a + 1 /\ b = Number(w[1])
    BY <1>1, <1>5, <1>8, StreamHead
  <2>2. b <= z
    BY <1>1, <1>5, <1>8, <2>1 DEF Written
  <2>3. ASSUME NEW k \in DOMAIN v, For(p, t, v[k])
        PROVE  /\ b < Number(v[k])
               /\ \A j \in DOMAIN v : j < k /\ For(p, t, v[j]) => Number(v[j]) < Number(v[k])
               /\ \A x \in (b + 1)..(Number(v[k]) - 1) :
                    \E j \in DOMAIN v : j < k /\ For(p, t, v[j]) /\ Number(v[j]) = x
    <3>1. /\ a < Number(v[k])
          /\ \A j \in DOMAIN w : j < k + 1 /\ For(p, t, w[j]) => Number(w[j]) < Number(v[k])
          /\ \A x \in (a + 1)..(Number(v[k]) - 1) :
               \E j \in DOMAIN w : j < k + 1 /\ For(p, t, w[j]) /\ Number(w[j]) = x
      BY <1>3, <1>5, <2>3 DEF Unread
    <3>2. ASSUME NEW j \in DOMAIN v, j < k, For(p, t, v[j]) PROVE Number(v[j]) < Number(v[k])
      <4>1. j + 1 \in DOMAIN w /\ v[j] = w[j + 1] /\ j + 1 < k + 1
        BY <1>3, <3>2
      <4>2. QED
        BY <3>1, <3>2, <4>1
    <3>3. ASSUME NEW x \in (b + 1)..(Number(v[k]) - 1)
          PROVE  \E j \in DOMAIN v : j < k /\ For(p, t, v[j]) /\ Number(v[j]) = x
      <4>0. Number(v[k]) \in Nat
        BY <1>3, MessageNumber
      <4>1. x \in (a + 1)..(Number(v[k]) - 1) /\ x # b
        BY <2>1, <4>0
      <4>2. PICK j \in DOMAIN w : j < k + 1 /\ For(p, t, w[j]) /\ Number(w[j]) = x
        BY <3>1, <4>1
      <4>3. j # 1
        BY <2>1, <4>1, <4>2
      <4>4. j - 1 \in DOMAIN v /\ v[j - 1] = w[j] /\ j - 1 < k
        BY <1>3, <1>4, <4>2, <4>3
      <4>5. QED
        BY <4>2, <4>4
    <3>4. b < Number(v[k])
      <4>1. 1 < k + 1
        BY <1>3
      <4>2. QED
        BY <1>1, <1>8, <2>1, <3>1, <4>1
    <3>5. QED
      BY <3>2, <3>3, <3>4
  <2>4. ASSUME ~broken PROVE Whole(p, t, v, b, z)
    <3>1. SUFFICES ASSUME NEW x \in (b + 1)..z
                   PROVE  \E k \in DOMAIN v : For(p, t, v[k]) /\ Number(v[k]) = x
      BY DEF Whole
    <3>2. x \in (a + 1)..z /\ x # b
      BY <2>1
    <3>3. PICK k \in DOMAIN w : For(p, t, w[k]) /\ Number(w[k]) = x
      BY <1>5, <2>4, <3>2 DEF Whole
    <3>4. k # 1
      BY <2>1, <3>2, <3>3
    <3>5. QED
      BY <1>4, <3>3, <3>4
  <2>5. Unread(p, t, v, b)
    BY <2>3 DEF Unread
  <2>6. QED
    BY <1>6, <2>2, <2>4, <2>5 DEF Stream, v
<1>9. QED
  BY <1>7, <1>8

\* The stream breaks behind some point.
LEMMA StreamCut ==
  ASSUME NEW p, NEW t, NEW w \in Seq(Message), NEW n \in 0..Len(w), NEW a \in Int, NEW z \in Int,
         NEW top \in Nat, NEW broken, NEW dead,
         Stream(p, t, w, a, z, top, broken, dead)
  PROVE  SubSeq(w, 1, n) \in Seq(Message)
         /\ Stream(p, t, SubSeq(w, 1, n), a, z, top, TRUE, dead)
<1> DEFINE v == SubSeq(w, 1, n)
<1>1. v \in Seq(Message) /\ DOMAIN v = 1..n /\ \A k \in 1..n : v[k] = w[k]
  BY SubSeqProperties
<1>2. 1..n \subseteq DOMAIN w /\ n \in Nat
  OBVIOUS
<1> HIDE DEF v
<1>3. Written(p, t, v, z, top)
  BY <1>1, <1>2 DEF Stream, Written
<1>4. ASSUME ~dead PROVE Unread(p, t, v, a)
  <2>1. SUFFICES ASSUME NEW k \in DOMAIN v, For(p, t, v[k])
                 PROVE  /\ a < Number(v[k])
                        /\ \A j \in DOMAIN v : j < k /\ For(p, t, v[j]) => Number(v[j]) < Number(v[k])
                        /\ \A x \in (a + 1)..(Number(v[k]) - 1) :
                             \E j \in DOMAIN v : j < k /\ For(p, t, v[j]) /\ Number(v[j]) = x
    BY DEF Unread
  <2>2. k \in 1..n /\ k \in DOMAIN w /\ v[k] = w[k]
    BY <1>1, <1>2
  <2>3. /\ a < Number(w[k])
        /\ \A j \in DOMAIN w : j < k /\ For(p, t, w[j]) => Number(w[j]) < Number(w[k])
        /\ \A x \in (a + 1)..(Number(w[k]) - 1) :
             \E j \in DOMAIN w : j < k /\ For(p, t, w[j]) /\ Number(w[j]) = x
    BY <1>4, <2>1, <2>2 DEF Stream, Unread
  <2>4. \A j \in DOMAIN w : j < k => j \in DOMAIN v /\ v[j] = w[j]
    BY <1>1, <2>2
  <2>5. \A j \in DOMAIN v : j \in DOMAIN w /\ v[j] = w[j]
    BY <1>1, <1>2
  <2>6. QED
    BY <2>2, <2>3, <2>4, <2>5
<1>5. QED
  BY <1>1, <1>3, <1>4 DEF Stream, v

-----------------------------------------------------------------------------
(* A step of one end *)

\* The streams after a step of p, which writes ms.  At p it changes the
\* numbers of a transaction only as ms says, and takes nothing from the
\* other end unless the receive side of p is broken.
LEMMA WireStep ==
  ASSUME TypeOK, TypeOK', \A r \in Peers, t \in Trans : WireInv(r, t),
         NEW p \in Peers, NEW ms \in Seq(Message), Queue(p, ms), cut' = cut,
         st'[Other(p)] = st[Other(p)], cur'[Other(p)] = cur[Other(p)],
         err'[Other(p)] = err[Other(p)], err[p] => err'[p],
         \A t \in Trans : st[p][t].inc <= st'[p][t].inc,
         \A t \in Trans : Seen(p, t)' = Seen(p, t) \/ err'[p],
         \A t \in Trans :
           \/ Sent(p, t)' = Sent(p, t) /\ \A j \in DOMAIN ms : ~For(p, t, ms[j])
           \/ /\ Sent(p, t)' = Sent(p, t) + 1
              /\ \E i \in DOMAIN ms :
                   /\ For(p, t, ms[i]) /\ Number(ms[i]) = Sent(p, t) + 1
                   /\ ms[i].create # ms[i].delete /\ ms[i].inc <= st'[t[1]][t].inc
                   /\ \A j \in DOMAIN ms : For(p, t, ms[j]) => j = i
  PROVE  \A r \in Peers, t \in Trans : WireInv(r, t)'
<1> DEFINE q == Other(p)
<1>1. /\ q \in Peers /\ q # p /\ Other(q) = p
      /\ \A r \in Peers : r = p \/ r = q
  BY PeersPair
<1> HIDE DEF q
<1>2. /\ st'[q] = st[q] /\ cur'[q] = cur[q] /\ err'[q] = err[q]
      /\ Other(p) = q
  BY DEF q
<1>3. ASSUME NEW t \in Trans PROVE WireInv(p, t)' /\ WireInv(q, t)'
  <2>1. /\ wire[p] \in Seq(Message) /\ wire[q] \in Seq(Message)
        /\ cut[p] \in BOOLEAN /\ err[q] \in BOOLEAN
    BY <1>1 DEF TypeOK
  <2>2. /\ Sent(p, t) \in Int /\ Sent(q, t) \in Int
        /\ Seen(p, t) \in Int /\ Seen(q, t) \in Int
    BY <1>1, NumberType
  <2>3. t[1] \in Peers /\ (t[1] = p \/ t[1] = q)
    BY <1>1 DEF Trans
  <2>4. st[t[1]][t].inc \in Nat /\ st'[t[1]][t].inc \in Nat
    <3>1. st[t[1]][t].inc \in Nat
      BY <2>3, StateType
    <3>2. st' \in [Peers -> [Trans -> State]]
      BY DEF TypeOK
    <3>3. st'[t[1]][t] \in State
      BY <2>3, <3>2
    <3>4. QED
      BY <3>1, <3>3, IncAssumption DEF State
  <2>5. st[t[1]][t].inc <= st'[t[1]][t].inc
    BY <1>2, <2>3, <2>4
  <2>6. Sent(q, t)' = Sent(q, t) /\ Seen(q, t)' = Seen(q, t)
    BY <1>2 DEF Sent, Seen, Closing
  <2>7. Stream(p, t, wire[p], Seen(q, t), Sent(p, t), st[t[1]][t].inc, cut[p], err[q])
    BY <1>2 DEF WireInv
  <2>8. Stream(p, t, wire'[p], Seen(q, t), Sent(p, t)', st'[t[1]][t].inc, cut[p], err[q])
    <3>1. PICK y \in Int : y = Sent(p, t)'
      BY <2>2
    <3>2. PICK z \in Int : z = Sent(p, t)
      BY <2>2
    <3>3. PICK a \in Int : a = Seen(q, t)
      BY <2>2
    <3>4. PICK top \in Nat, tip \in Nat : top = st[t[1]][t].inc /\ tip = st'[t[1]][t].inc
      BY <2>4
    <3>5. PICK b \in BOOLEAN, d \in BOOLEAN : b = cut[p] /\ d = err[q]
      BY <2>1
    <3>6. PICK w \in Seq(Message) : w = wire[p]
      BY <2>1
    <3>7. Stream(p, t, w, a, z, top, b, d) /\ top <= tip /\ z <= y
      BY <2>2, <2>5, <2>7, <3>1, <3>2, <3>3, <3>4, <3>5, <3>6
    <3>8. CASE cut[p]
      <4>1. wire'[p] = w /\ b
        BY <3>5, <3>6, <3>8 DEF Queue
      <4>2. Stream(p, t, w, a, y, tip, b, d)
        <5>1. Written(p, t, w, y, tip)
          BY <3>7, WrittenKeep DEF Stream
        <5>2. ~d => a <= y /\ Unread(p, t, w, a)
          BY <3>7 DEF Stream
        <5>3. QED
          BY <4>1, <5>1, <5>2 DEF Stream
      <4>3. QED
        BY <3>1, <3>3, <3>4, <3>5, <4>1, <4>2
    <3>9. CASE ~cut[p]
      <4>1. wire'[p] = w \o ms /\ b = FALSE
        BY <2>1, <3>5, <3>6, <3>9 DEF Queue, TypeOK
      <4>2. \/ y = z /\ \A j \in DOMAIN ms : ~For(p, t, ms[j])
            \/ /\ y = z + 1
               /\ \E i \in DOMAIN ms :
                    /\ For(p, t, ms[i]) /\ Number(ms[i]) = z + 1
                    /\ ms[i].create # ms[i].delete /\ ms[i].inc <= tip
                    /\ \A j \in DOMAIN ms : For(p, t, ms[j]) => j = i
        BY <3>1, <3>2, <3>4
      <4>3. Stream(p, t, w, a, z, top, FALSE, d)
        BY <3>7, <4>1
      <4>4. Stream(p, t, w \o ms, a, y, tip, FALSE, d)
        BY <3>7, <4>2, <4>3, StreamWrite
      <4>5. QED
        BY <3>1, <3>3, <3>4, <3>5, <4>1, <4>4
    <3>10. QED
      BY <3>8, <3>9
  <2>9. WireInv(p, t)'
    BY <1>2, <2>6, <2>8 DEF WireInv
  <2>10. Stream(q, t, wire[q], Seen(p, t), Sent(q, t), st[t[1]][t].inc, cut[q], err[p])
    BY <1>1 DEF WireInv
  <2>11. Stream(q, t, wire[q], Seen(p, t), Sent(q, t), st'[t[1]][t].inc, cut[q], err'[p])
    <3>1. PICK tip \in Nat : tip = st'[t[1]][t].inc
      BY <2>4
    <3>2. Written(q, t, wire[q], Sent(q, t), tip)
      <4>1. Written(q, t, wire[q], Sent(q, t), st[t[1]][t].inc)
        BY <2>10 DEF Stream
      <4>2. st[t[1]][t].inc <= tip /\ Sent(q, t) <= Sent(q, t)
        BY <2>2, <2>5, <3>1
      <4>3. QED
        BY <2>1, <2>2, <2>4, <4>1, <4>2, WrittenKeep
    <3>3. ~err'[p] => ~err[p]
      OBVIOUS
    <3>4. QED
      BY <2>10, <3>1, <3>2, <3>3 DEF Stream
  <2>12. wire'[q] = wire[q]
    BY <1>1 DEF Queue, TypeOK
  <2>13. WireInv(q, t)'
    <3>1. CASE Seen(p, t)' = Seen(p, t)
      BY <1>1, <2>6, <2>11, <2>12, <3>1 DEF WireInv
    <3>2. CASE err'[p]
      <4>1. Written(q, t, wire'[q], Sent(q, t)', st'[t[1]][t].inc)
        BY <2>6, <2>11, <2>12 DEF Stream
      <4>2. QED
        BY <1>1, <3>2, <4>1 DEF WireInv, Stream
    <3>3. QED
      BY <3>1, <3>2
  <2>14. QED
    BY <2>9, <2>13
<1>4. QED
  BY <1>1, <1>3

\* The rest of the invariant after a step of p.
LEMMA EndStep ==
  ASSUME IInv, TypeOK', NoTransError', NEW p \in Peers,
         st'[Other(p)] = st[Other(p)], cur'[Other(p)] = cur[Other(p)],
         err'[Other(p)] = err[Other(p)], conn'[Other(p)] = conn[Other(p)],
         auth'[Other(p)] = auth[Other(p)], eof'[Other(p)] = eof[Other(p)],
         \A t \in Trans : st[p][t].inc <= st'[p][t].inc,
         CurInv(p)', ConnInv(p)', EndInv(p)',
         \A t \in Trans : StateInv(p, t)' /\ UseInv(p, t)',
         \A r \in Peers, t \in Trans : WireInv(r, t)'
  PROVE  IInv'
<1> DEFINE q == Other(p)
<1>1. /\ q \in Peers /\ q # p /\ Other(q) = p
      /\ \A r \in Peers : r = p \/ r = q
  BY PeersPair
<1> HIDE DEF q
<1>2. /\ st'[q] = st[q] /\ cur'[q] = cur[q] /\ err'[q] = err[q]
      /\ conn'[q] = conn[q] /\ auth'[q] = auth[q] /\ eof'[q] = eof[q]
  BY DEF q
<1>3. CurInv(q)' /\ ConnInv(q)' /\ EndInv(q)'
  <2>1. CurInv(q) /\ ConnInv(q) /\ EndInv(q)
    BY <1>1 DEF IInv
  <2>2. CurInv(q)'
    BY <1>2, <2>1 DEF CurInv
  <2>3. ConnInv(q)'
    BY <1>2, <2>1 DEF ConnInv, Closing
  <2>4. EndInv(q)'
    BY <1>2, <2>1 DEF EndInv
  <2>5. QED
    BY <2>2, <2>3, <2>4
<1>4. ASSUME NEW t \in Trans PROVE StateInv(q, t)' /\ UseInv(q, t)'
  <2>1. StateInv(q, t) /\ UseInv(q, t)
    BY <1>1 DEF IInv
  <2>2. StateInv(q, t)'
    BY <1>2, <2>1 DEF StateInv
  <2>3. t[1] \in Peers /\ (t[1] = p \/ t[1] = q)
    BY <1>1 DEF Trans
  <2>4. UseInv(q, t)'
    <3>1. CASE t[1] = q
      <4>1. st[q][t].inc \in Nat
        BY <1>1, StateType DEF IInv
      <4>2. QED
        BY <1>2, <3>1, <4>1 DEF UseInv
    <3>2. CASE t[1] = p
      <4>1. st[q][t].inc \in Nat /\ st[p][t].inc \in Nat
        BY <1>1, StateType DEF IInv
      <4>2. st[q][t].inc <= st[p][t].inc /\ st[p][t].inc <= st'[p][t].inc
        BY <2>1, <3>2 DEF UseInv
      <4>3. st'[p][t].inc \in Nat
        <5>1. st'[p][t] \in State
          BY DEF TypeOK
        <5>2. QED
          BY <5>1, IncAssumption DEF State
      <4>4. QED
        BY <1>2, <3>2, <4>1, <4>2, <4>3 DEF UseInv
    <3>3. QED
      BY <2>3, <3>1, <3>2
  <2>5. QED
    BY <2>2, <2>4
<1>5. \A r \in Peers : CurInv(r)' /\ ConnInv(r)' /\ EndInv(r)'
  BY <1>1, <1>3
<1>6. \A r \in Peers, t \in Trans : StateInv(r, t)' /\ WireInv(r, t)' /\ UseInv(r, t)'
  BY <1>1, <1>4
<1>7. QED
  BY <1>5, <1>6 DEF IInv

-----------------------------------------------------------------------------
(* Messages and states *)

LEMMA MsgFor ==
  ASSUME NEW p \in Peers, NEW t \in Trans, NEW m, m.msgid = t[2], m.reply = (t[1] # p)
  PROVE  For(p, t, m) /\ \A v \in Trans : For(p, v, m) => v = t
<1>1. For(p, t, m)
  BY DEF For
<1>2. QED
  BY <1>1, ForUnique

\* A state and a message of a new transaction.
LEMMA NewState ==
  ASSUME NEW n, NEW s, s = [Free(n) EXCEPT !.live = TRUE, !.txC = TRUE]
  PROVE  s = [live |-> TRUE, txC |-> TRUE, txD |-> FALSE, rxC |-> FALSE, rxD |-> FALSE, inc |-> n]
BY DEF Free

LEMMA NewMsg ==
  ASSUME NEW n, NEW b, NEW x, NEW y, NEW m,
         m = [[msgid |-> x, reply |-> y, create |-> TRUE, delete |-> FALSE, inc |-> b]
              EXCEPT !.inc = n]
  PROVE  m = [msgid |-> x, reply |-> y, create |-> TRUE, delete |-> FALSE, inc |-> n]
OBVIOUS

LEMMA OpenShape ==
  ASSUME NEW p \in Peers, NEW t \in Trans, NEW n \in 1..MaxInc, NEW s, NEW m,
         s = [live |-> TRUE, txC |-> TRUE, txD |-> FALSE, rxC |-> FALSE, rxD |-> FALSE, inc |-> n],
         m = [msgid |-> t[2], reply |-> t[1] # p, create |-> TRUE, delete |-> FALSE, inc |-> n]
  PROVE  /\ s \in State /\ s.live /\ s.txC /\ ~s.txD /\ ~s.rxC /\ ~s.rxD /\ s.inc = n
         /\ m \in Message /\ m.create # m.delete /\ m.inc = n /\ Number(m) = 2 * n
         /\ For(p, t, m) /\ \A v \in Trans : For(p, v, m) => v = t
<1>1. s \in State /\ s.live /\ s.txC /\ ~s.txD /\ ~s.rxC /\ ~s.rxD /\ s.inc = n
  BY IncAssumption DEF State
<1>2. t[2] \in Addrs /\ (t[1] # p) \in BOOLEAN
  BY DEF Trans
<1>3. m \in Message /\ m.create = TRUE /\ m.delete = FALSE /\ m.inc = n /\ Number(m) = 2 * n
  BY <1>2 DEF Message, Number
<1>4. m.msgid = t[2] /\ m.reply = (t[1] # p)
  OBVIOUS
<1>5. QED
  BY <1>1, <1>3, <1>4, MsgFor

\* What a reply does to a state that is not closed by the other end.
LEMMA ClosedShape ==
  ASSUME NEW s \in State, s.live => ~s.rxD
  PROVE  /\ Closed(s) \in State
         /\ Closed(s).live = s.live /\ Closed(s).inc = s.inc
         /\ Closed(s).rxC = s.rxC /\ Closed(s).rxD = s.rxD
         /\ s.live => Closed(s).txC \/ s.txD
         /\ s.live => Closed(s).txD
         /\ s.txC => Closed(s).txC
         /\ ~s.live \/ s.txD => Closed(s) = s
         /\ SentOf(Closed(s)) = 2 * s.inc + 1
         /\ \A closing : SeenOf(Closed(s), closing) = SeenOf(s, closing)
<1>1. CASE ~s.live \/ s.txD
  <2>1. Closed(s) = s
    BY <1>1 DEF Closed
  <2>2. QED
    BY <1>1, <2>1 DEF SentOf
<1>2. CASE s.live /\ ~s.txD
  <2>1. Closed(s) = [s EXCEPT !.txC = TRUE, !.txD = TRUE]
    BY <1>2 DEF Closed, Retire, State
  <2>2. /\ Closed(s) \in State
        /\ Closed(s).live = s.live /\ Closed(s).inc = s.inc
        /\ Closed(s).rxC = s.rxC /\ Closed(s).rxD = s.rxD
        /\ Closed(s).txC /\ Closed(s).txD
    BY <2>1 DEF State
  <2>3. QED
    BY <1>2, <2>2 DEF SentOf, SeenOf
<1>3. QED
  BY <1>1, <1>2

\* A reply, when there is something to close.
LEMMA ReplyShape ==
  ASSUME IInv, NEW p \in Peers, NEW t \in Trans, st[p][t].live, st[p][t].txC
  PROVE  \E m \in Message :
            /\ ReplyMsg(p, t) = IF st[p][t].txD THEN <<>> ELSE <<m>>
            /\ m.create # m.delete /\ m.inc = st[p][t].inc
            /\ Number(m) = 2 * st[p][t].inc + 1
            /\ For(p, t, m) /\ \A v \in Trans : For(p, v, m) => v = t
<1>1. TypeOK /\ StateInv(p, t)
  BY DEF IInv
<1>2. PICK n \in 1..MaxInc : n = st[p][t].inc
  BY <1>1, StateType DEF StateInv
<1>3. PICK m : m = [msgid |-> t[2], reply |-> t[1] # p, create |-> FALSE, delete |-> TRUE, inc |-> n]
  OBVIOUS
<1>4. ReplyMsg(p, t) = IF st[p][t].txD THEN <<>> ELSE <<m>>
  BY <1>2, <1>3 DEF ReplyMsg, Msg
<1>5. /\ m \in Message /\ m.create = FALSE /\ m.delete = TRUE
      /\ m.inc = n /\ Number(m) = 2 * n + 1
      /\ For(p, t, m) /\ \A v \in Trans : For(p, v, m) => v = t
  <2>1. t[2] \in Addrs /\ (t[1] # p) \in BOOLEAN
    BY DEF Trans
  <2>2. /\ m \in Message /\ m.create = FALSE /\ m.delete = TRUE
        /\ m.inc = n /\ Number(m) = 2 * n + 1
    BY <1>3, <2>1 DEF Message, Number
  <2>3. m.msgid = t[2] /\ m.reply = (t[1] # p)
    BY <1>3
  <2>4. QED
    BY <2>2, <2>3, MsgFor
<1>6. QED
  BY <1>2, <1>4, <1>5

-----------------------------------------------------------------------------
(* The steps *)

LEMMA CreateStep ==
  ASSUME IInv, NEW p \in Peers, NEW addr \in Addrs, Create(p, addr), ~eof[p],
         st[p][<<p, addr>>].inc < MaxInc,
         UNCHANGED <<cut, cur, conn, err, eof, asserted>>,
         auth' \in [Peers -> BOOLEAN], auth'[Other(p)] = auth[Other(p)],
         auth'[p] \/ (addr # "CONN" /\ auth' = auth)
  PROVE  IInv'
<1> DEFINE v == <<p, addr>>
           q == Other(p)
<1>1. v \in Trans /\ v[1] = p /\ v[2] = addr
  BY DEF Trans
<1>2. TypeOK /\ NoTransError /\ CurInv(p) /\ ConnInv(p) /\ EndInv(p)
  BY DEF IInv
<1>3. PICK n \in 1..MaxInc :
        n = st[p][v].inc + 1 /\ st[p][v].inc = n - 1 /\ st[p][v].inc \in Nat /\ ~st[p][v].live
  <2>1. st[p][v].inc \in Nat /\ ~st[p][v].live
    BY <1>1, <1>2, StateType DEF Create
  <2>2. st[p][v].inc + 1 \in 1..MaxInc /\ st[p][v].inc = (st[p][v].inc + 1) - 1
    BY <2>1, IncAssumption
  <2>3. QED
    BY <2>1, <2>2
<1>4. PICK new, m : /\ new = [Free(n) EXCEPT !.live = TRUE, !.txC = TRUE]
                    /\ m = [Msg(p, v, TRUE, FALSE) EXCEPT !.inc = n]
  OBVIOUS
<1>5. st' = [st EXCEPT ![p][v] = new] /\ Queue(p, <<m>>)
  BY <1>3, <1>4 DEF Create
<1>6. /\ new \in State /\ new.live /\ new.txC /\ ~new.txD /\ ~new.rxC /\ ~new.rxD
      /\ new.inc = n
      /\ m \in Message /\ m.create # m.delete /\ m.inc = n /\ Number(m) = 2 * n
      /\ For(p, v, m) /\ \A t \in Trans : For(p, t, m) => t = v
  <2>1. new = [live |-> TRUE, txC |-> TRUE, txD |-> FALSE, rxC |-> FALSE, rxD |-> FALSE,
               inc |-> n]
    BY <1>4, NewState, Zenon
  <2>2. m = [msgid |-> v[2], reply |-> v[1] # p, create |-> TRUE, delete |-> FALSE, inc |-> n]
    BY <1>4, NewMsg, Zenon DEF Msg
  <2>3. QED
    BY <1>1, <2>1, <2>2, OpenShape
<1>7. /\ st'[p][v] = new /\ \A t \in Trans : t # v => st'[p][t] = st[p][t]
      /\ st' \in [Peers -> [Trans -> State]]
      /\ \A r \in Peers : r # p => st'[r] = st[r]
  BY <1>1, <1>2, <1>6, <1>5 DEF TypeOK
<1>8. q \in Peers /\ q # p
  BY PeersPair
<1>9. <<m>> \in Seq(Message) /\ DOMAIN <<m>> = {1} /\ <<m>>[1] = m
  BY <1>6
<1> HIDE DEF v, q
<1>10. cur[p] # NoMsg => cur[p].t # v
  BY <1>2, <1>3 DEF CurInv
<1>11. Sent(p, v) = 2 * n - 1 /\ Sent(p, v)' = 2 * n
  BY <1>3, <1>6, <1>7 DEF Sent, SentOf
<1>12. Seen(p, v) = 2 * n - 1 /\ Seen(p, v)' = 2 * n - 1
  BY <1>3, <1>6, <1>7, <1>10 DEF Seen, SeenOf, Closing
<1>13. ASSUME NEW t \in Trans, t # v
       PROVE  Sent(p, t)' = Sent(p, t) /\ Seen(p, t)' = Seen(p, t)
  BY <1>7, <1>13 DEF Sent, Seen, Closing
<1>14. wire' \in [Peers -> Seq(Message)]
  <2>1. wire[p] \in Seq(Message) /\ wire[p] \o <<m>> \in Seq(Message)
    BY <1>2, <1>9 DEF TypeOK
  <2>2. QED
    BY <1>2, <1>5, <2>1 DEF Queue, TypeOK
<1>15. TypeOK' /\ NoTransError'
  BY <1>2, <1>7, <1>14 DEF TypeOK, NoTransError
<1>16. \A t \in Trans : st[p][t].inc <= st'[p][t].inc
  <2>1. SUFFICES ASSUME NEW t \in Trans PROVE st[p][t].inc <= st'[p][t].inc
    OBVIOUS
  <2>2. st[p][t].inc \in Nat
    BY <1>2, StateType
  <2>3. CASE t = v
    BY <1>3, <1>6, <1>7, <2>2, <2>3
  <2>4. CASE t # v
    BY <1>7, <2>2, <2>4
  <2>5. QED
    BY <2>3, <2>4
<1>17. /\ st'[Other(p)] = st[Other(p)] /\ cur' = cur /\ err' = err /\ conn' = conn
       /\ eof' = eof /\ cut' = cut /\ auth'[Other(p)] = auth[Other(p)]
  BY <1>7, <1>8 DEF q
<1>18. \A r \in Peers, t \in Trans : WireInv(r, t)'
  <2>1. ASSUME NEW t \in Trans
        PROVE  \/ Sent(p, t)' = Sent(p, t) /\ \A j \in DOMAIN <<m>> : ~For(p, t, <<m>>[j])
               \/ /\ Sent(p, t)' = Sent(p, t) + 1
                  /\ \E i \in DOMAIN <<m>> :
                       /\ For(p, t, <<m>>[i]) /\ Number(<<m>>[i]) = Sent(p, t) + 1
                       /\ <<m>>[i].create # <<m>>[i].delete /\ <<m>>[i].inc <= st'[t[1]][t].inc
                       /\ \A j \in DOMAIN <<m>> : For(p, t, <<m>>[j]) => j = i
    <3>1. CASE t = v
      <4>1. st'[t[1]][t].inc = n /\ n \in Nat
        BY <1>1, <1>3, <1>6, <1>7, <3>1
      <4>2. m.inc <= st'[t[1]][t].inc /\ Number(m) = Sent(p, t) + 1 /\ Sent(p, t)' = Sent(p, t) + 1
        BY <1>6, <1>11, <3>1, <4>1
      <4>3. QED
        BY <1>6, <1>9, <3>1, <4>2
    <3>2. CASE t # v
      BY <1>6, <1>9, <1>13, <3>2
    <3>3. QED
      BY <3>1, <3>2
  <2>2. \A t \in Trans : Seen(p, t)' = Seen(p, t)
    BY <1>12, <1>13
  <2>3. \A r \in Peers, t \in Trans : WireInv(r, t)
    BY DEF IInv
  <2>4. QED
    <3>1. PICK ms \in Seq(Message) : ms = <<m>>
      BY <1>9
    <3>2. QED
      BY <1>2, <1>5, <1>15, <1>16, <1>17, <2>1, <2>2, <2>3, <3>1, WireStep, Zenon
<1>19. CurInv(p)'
  BY <1>2, <1>7, <1>10, <1>17, CurType DEF CurInv
<1>20. ConnInv(p)'
  <2>1. <<Other(p), "CONN">> # v /\ <<Other(p), "CONN">> \in Trans
    BY <1>1, <1>8 DEF q, Trans, Addrs
  <2>2. QED
    BY <1>2, <1>7, <1>17, <2>1 DEF ConnInv, Closing
<1>21. EndInv(p)'
  <2>1. ~auth'[p] => st'[p][<<p, "CONN">>] = Free(0)
    <3>1. <<p, "CONN">> \in Trans
      BY DEF Trans, Addrs
    <3>2. addr # "CONN" => <<p, "CONN">> # v
      BY DEF v
    <3>3. QED
      BY <1>2, <1>7, <3>1, <3>2 DEF EndInv
  <2>2. QED
    BY <1>17, <2>1 DEF EndInv
<1>22. ASSUME NEW t \in Trans PROVE StateInv(p, t)' /\ UseInv(p, t)'
  <2>1. CASE t = v
    <3>1. StateInv(p, t)'
      BY <1>1, <1>3, <1>6, <1>7, <2>1 DEF StateInv
    <3>2. UseInv(p, t)'
      BY <1>1, <1>3, <1>6, <1>7, <2>1 DEF UseInv
    <3>3. QED
      BY <3>1, <3>2
  <2>2. CASE t # v
    <3>1. StateInv(p, t) /\ UseInv(p, t)
      BY DEF IInv
    <3>2. StateInv(p, t)'
      BY <1>7, <1>17, <2>2, <3>1 DEF StateInv
    <3>3. UseInv(p, t)'
      <4>1. t[1] \in Peers
        BY DEF Trans
      <4>2. QED
        BY <1>7, <2>2, <3>1, <4>1 DEF UseInv
    <3>4. QED
      BY <3>2, <3>3
  <2>3. QED
    BY <2>1, <2>2
<1>23. QED
  BY <1>15, <1>16, <1>17, <1>18, <1>19, <1>20, <1>21, <1>22, EndStep

LEMMA AuthSignalStep ==
  ASSUME IInv, NEW p \in Peers, AuthSignal(p)
  PROVE  IInv'
<1>1. ~auth[p] /\ ~eof[p] /\ Create(p, "CONN") /\ auth' = [auth EXCEPT ![p] = TRUE]
      /\ UNCHANGED <<cut, cur, conn, err, eof, asserted>>
  BY DEF AuthSignal, Running
<1>2. auth \in [Peers -> BOOLEAN] /\ st[p][<<p, "CONN">>] = Free(0)
  BY <1>1 DEF IInv, TypeOK, EndInv
<1>3. st[p][<<p, "CONN">>].inc < MaxInc
  BY <1>2, IncAssumption DEF Free
<1>4. "CONN" \in Addrs /\ Other(p) \in Peers /\ Other(p) # p
  BY PeersPair DEF Addrs
<1>5. auth' \in [Peers -> BOOLEAN] /\ auth'[Other(p)] = auth[Other(p)] /\ auth'[p]
  BY <1>1, <1>2, <1>4
<1>6. QED
  BY <1>1, <1>3, <1>4, <1>5, CreateStep

LEMMA OpenSpanStep ==
  ASSUME IInv, NEW p \in Peers, OpenSpan(p)
  PROVE  IInv'
<1>1. /\ ~eof[p] /\ Create(p, "SPAN") /\ UNCHANGED <<cut, cur, conn, auth, err, eof, asserted>>
      /\ st[p][<<p, "SPAN">>].inc < SpanUses[p]
  BY DEF OpenSpan, Running
<1>2. auth \in [Peers -> BOOLEAN] /\ TypeOK
  BY DEF IInv, TypeOK
<1>3. "SPAN" \in Addrs /\ <<p, "SPAN">> \in Trans
  BY DEF Addrs, Trans
<1>4. st[p][<<p, "SPAN">>].inc \in Nat
  BY <1>2, <1>3, StateType
<1>5. st[p][<<p, "SPAN">>].inc < MaxInc
  BY <1>1, <1>4, IncAssumption
<1>6. QED
  BY <1>1, <1>2, <1>3, <1>5, CreateStep

LEMMA CloseSpanStep ==
  ASSUME IInv, NEW p \in Peers, CloseSpan(p)
  PROVE  IInv'
<1> DEFINE v == <<p, "SPAN">>
           q == Other(p)
<1>1. v \in Trans /\ v[1] = p /\ v # <<p, "CONN">>
  BY DEF Trans, Addrs
<1>2. TypeOK /\ NoTransError /\ CurInv(p) /\ ConnInv(p) /\ EndInv(p) /\ StateInv(p, v)
  BY <1>1 DEF IInv
<1>3. /\ ~eof[p] /\ st[p][v].live /\ ~st[p][v].txD /\ Queue(p, ReplyMsg(p, v))
      /\ st' = [st EXCEPT ![p][v] = Closed(st[p][v])]
      /\ UNCHANGED <<cut, cur, conn, auth, err, eof, asserted>>
  BY DEF CloseSpan, Running
<1> HIDE DEF v
<1>4. st[p][v] \in State /\ st[p][v].txC /\ ~st[p][v].rxD /\ st[p][v].inc \in Nat
  BY <1>1, <1>2, <1>3, StateType DEF StateInv
<1>5. PICK new \in State :
        /\ new = Closed(st[p][v])
        /\ new.live /\ new.txC /\ new.txD /\ ~new.rxD
        /\ new.inc = st[p][v].inc /\ new.rxC = st[p][v].rxC
        /\ SentOf(new) = 2 * st[p][v].inc + 1
        /\ \A closing : SeenOf(new, closing) = SeenOf(st[p][v], closing)
  <2>1. PICK s \in State : s = st[p][v]
    BY <1>4
  <2>2. /\ Closed(s) \in State
        /\ Closed(s).live /\ Closed(s).txC /\ Closed(s).txD /\ ~Closed(s).rxD
        /\ Closed(s).inc = s.inc /\ Closed(s).rxC = s.rxC
        /\ SentOf(Closed(s)) = 2 * s.inc + 1
        /\ \A closing : SeenOf(Closed(s), closing) = SeenOf(s, closing)
    BY <1>3, <1>4, <2>1, ClosedShape
  <2>3. QED
    BY <2>1, <2>2
<1>6. PICK m \in Message :
        /\ ReplyMsg(p, v) = <<m>>
        /\ m.create # m.delete /\ m.inc = st[p][v].inc
        /\ Number(m) = 2 * st[p][v].inc + 1
        /\ For(p, v, m) /\ \A t \in Trans : For(p, t, m) => t = v
  BY <1>1, <1>3, <1>4, ReplyShape
<1>7. /\ st'[p][v] = new /\ \A t \in Trans : t # v => st'[p][t] = st[p][t]
      /\ st' \in [Peers -> [Trans -> State]]
      /\ \A r \in Peers : r # p => st'[r] = st[r]
  BY <1>1, <1>2, <1>3, <1>5 DEF TypeOK
<1>8. q \in Peers /\ q # p
  BY PeersPair
<1> HIDE DEF q
<1>9. PICK ms \in Seq(Message) : ms = <<m>> /\ DOMAIN ms = {1} /\ ms[1] = m
  <2>1. <<m>> \in Seq(Message) /\ DOMAIN <<m>> = {1} /\ <<m>>[1] = m
    OBVIOUS
  <2>2. QED
    BY <2>1
<1>10. Queue(p, ms)
  BY <1>3, <1>6, <1>9
<1>11. Sent(p, v) = 2 * st[p][v].inc /\ Sent(p, v)' = Sent(p, v) + 1
  BY <1>3, <1>4, <1>5, <1>7 DEF Sent, SentOf
<1>12. Seen(p, v)' = Seen(p, v)
  BY <1>3, <1>5, <1>7 DEF Seen, Closing
<1>13. ASSUME NEW t \in Trans, t # v
       PROVE  Sent(p, t)' = Sent(p, t) /\ Seen(p, t)' = Seen(p, t)
  BY <1>3, <1>7, <1>13 DEF Sent, Seen, Closing
<1>14. wire' \in [Peers -> Seq(Message)]
  <2>1. wire[p] \in Seq(Message) /\ wire[p] \o ms \in Seq(Message)
    BY <1>2 DEF TypeOK
  <2>2. QED
    BY <1>2, <1>10, <2>1 DEF Queue, TypeOK
<1>15. TypeOK' /\ NoTransError'
  BY <1>2, <1>3, <1>7, <1>14 DEF TypeOK, NoTransError
<1>16. \A t \in Trans : st'[p][t].inc = st[p][t].inc /\ st[p][t].inc <= st'[p][t].inc
  <2>1. SUFFICES ASSUME NEW t \in Trans
                 PROVE  st'[p][t].inc = st[p][t].inc /\ st[p][t].inc <= st'[p][t].inc
    OBVIOUS
  <2>2. st[p][t].inc \in Nat
    BY <1>2, StateType
  <2>3. st'[p][t].inc = st[p][t].inc
    BY <1>5, <1>7
  <2>4. QED
    BY <2>2, <2>3
<1>17. /\ st'[Other(p)] = st[Other(p)] /\ cur' = cur /\ err' = err /\ conn' = conn
       /\ eof' = eof /\ cut' = cut /\ auth' = auth
  BY <1>3, <1>7, <1>8 DEF q
<1>18. \A r \in Peers, t \in Trans : WireInv(r, t)'
  <2>1. ASSUME NEW t \in Trans
        PROVE  \/ Sent(p, t)' = Sent(p, t) /\ \A j \in DOMAIN ms : ~For(p, t, ms[j])
               \/ /\ Sent(p, t)' = Sent(p, t) + 1
                  /\ \E i \in DOMAIN ms :
                       /\ For(p, t, ms[i]) /\ Number(ms[i]) = Sent(p, t) + 1
                       /\ ms[i].create # ms[i].delete /\ ms[i].inc <= st'[t[1]][t].inc
                       /\ \A j \in DOMAIN ms : For(p, t, ms[j]) => j = i
    <3>1. CASE t = v
      <4>1. m.inc <= st'[t[1]][t].inc
        BY <1>1, <1>4, <1>5, <1>6, <1>7, <3>1
      <4>2. QED
        BY <1>6, <1>9, <1>11, <3>1, <4>1
    <3>2. CASE t # v
      BY <1>6, <1>9, <1>13, <3>2
    <3>3. QED
      BY <3>1, <3>2
  <2>2. \A t \in Trans : Seen(p, t)' = Seen(p, t)
    BY <1>12, <1>13
  <2>3. \A r \in Peers, t \in Trans : WireInv(r, t)
    BY DEF IInv
  <2>4. QED
    BY <1>2, <1>10, <1>15, <1>16, <1>17, <2>1, <2>2, <2>3, WireStep, Zenon
<1>19. CurInv(p)'
  BY <1>1, <1>2, <1>5, <1>7, <1>17, CurType DEF CurInv
<1>20. ConnInv(p)'
  <2>1. <<Other(p), "CONN">> # v /\ <<Other(p), "CONN">> \in Trans
    BY <1>8 DEF q, v, Trans, Addrs
  <2>2. QED
    BY <1>2, <1>7, <1>17, <2>1 DEF ConnInv, Closing
<1>21. EndInv(p)'
  <2>1. <<p, "CONN">> \in Trans
    BY DEF Trans, Addrs
  <2>2. QED
    BY <1>1, <1>2, <1>3, <1>7, <1>17, <2>1 DEF EndInv
<1>22. ASSUME NEW t \in Trans PROVE StateInv(p, t)' /\ UseInv(p, t)'
  <2>1. StateInv(p, t) /\ UseInv(p, t) /\ t[1] \in Peers
    BY DEF IInv, Trans
  <2>2. StateInv(p, t)'
    <3>1. CASE t = v
      BY <1>1, <1>2, <1>3, <1>5, <1>7, <3>1 DEF StateInv
    <3>2. CASE t # v
      BY <1>7, <1>17, <2>1, <3>2 DEF StateInv
    <3>3. QED
      BY <3>1, <3>2
  <2>3. UseInv(p, t)'
    BY <1>7, <1>16, <2>1 DEF UseInv
  <2>4. QED
    BY <2>2, <2>3
<1>23. QED
  BY <1>15, <1>16, <1>17, <1>18, <1>19, <1>20, <1>21, <1>22, EndStep

\* A step of p that writes nothing.
LEMMA QuietStep ==
  ASSUME TypeOK, TypeOK', \A r \in Peers, t \in Trans : WireInv(r, t),
         NEW p \in Peers, wire' = wire, cut' = cut,
         st'[Other(p)] = st[Other(p)], cur'[Other(p)] = cur[Other(p)],
         err'[Other(p)] = err[Other(p)], err[p] => err'[p],
         \A t \in Trans : st[p][t].inc <= st'[p][t].inc,
         \A t \in Trans : Seen(p, t)' = Seen(p, t) \/ err'[p],
         \A t \in Trans : Sent(p, t)' = Sent(p, t)
  PROVE  \A r \in Peers, t \in Trans : WireInv(r, t)'
<1>1. PICK ms \in Seq(Message) : ms = <<>> /\ DOMAIN ms = {}
  <2>1. <<>> \in Seq(Message) /\ DOMAIN <<>> = {}
    OBVIOUS
  <2>2. QED
    BY <2>1
<1>2. wire \in [Peers -> Seq(Message)]
  BY DEF TypeOK
<1>3. wire[p] \o ms = wire[p]
  BY <1>1, <1>2, ConcatEmptySeq
<1>4. Queue(p, ms)
  BY <1>2, <1>3 DEF Queue
<1>5. \A t \in Trans : Sent(p, t)' = Sent(p, t) /\ \A j \in DOMAIN ms : ~For(p, t, ms[j])
  BY <1>1
<1>6. QED
  BY <1>4, <1>5, WireStep, Zenon

LEMMA CleanupRxStep ==
  ASSUME IInv, NEW p \in Peers, CleanupRx(p)
  PROVE  IInv'
<1> DEFINE v == cur[p].t
           q == Other(p)
<1>1. /\ ~eof[p] /\ cur[p].phase = "cleanup"
      /\ st' = IF cur[p].delete
               THEN [st EXCEPT ![p][v] = Retire([st[p][v] EXCEPT !.rxD = TRUE])] ELSE st
      /\ cur' = [cur EXCEPT ![p] = NoMsg]
      /\ UNCHANGED <<wire, cut, conn, auth, err, eof, asserted>>
  BY DEF CleanupRx, Running
<1>2. TypeOK /\ NoTransError /\ CurInv(p) /\ ConnInv(p) /\ EndInv(p)
  BY DEF IInv
<1>3. cur[p] # NoMsg
  BY <1>1 DEF NoMsg
<1>4. v \in Trans /\ cur[p].delete \in BOOLEAN
  BY <1>2, <1>3, CurType
<1> HIDE DEF v
<1>5. st[p][v].live /\ (cur[p].delete => st[p][v].txD)
  BY <1>1, <1>2, <1>3 DEF CurInv, v
<1>6. st[p][v] \in State /\ st[p][v].inc \in Nat /\ st[p][v].inc \in 0..MaxInc
  BY <1>2, <1>4, StateType
<1>7. PICK old : old = Free(st[p][v].inc)
  OBVIOUS
<1>8. old \in State /\ ~old.live /\ old.inc = st[p][v].inc
  BY <1>6, <1>7 DEF Free, State
<1>9. cur[p].delete => st' = [st EXCEPT ![p][v] = old]
  <2>1. ASSUME cur[p].delete PROVE Retire([st[p][v] EXCEPT !.rxD = TRUE]) = old
    <3>1. PICK s \in State : s = st[p][v]
      BY <1>6
    <3>2. PICK u : u = [s EXCEPT !.rxD = TRUE]
      OBVIOUS
    <3>3. u.txD /\ u.rxD /\ u.inc = s.inc
      BY <1>5, <2>1, <3>1, <3>2 DEF State
    <3>4. QED
      BY <1>7, <3>1, <3>2, <3>3 DEF Retire
  <2>2. QED
    BY <1>1, <2>1
<1>10. q \in Peers /\ q # p
  BY PeersPair
<1> HIDE DEF q
<1>11. /\ st' \in [Peers -> [Trans -> State]]
       /\ \A t \in Trans : t # v \/ ~cur[p].delete => st'[p][t] = st[p][t]
       /\ cur[p].delete => st'[p][v] = old
       /\ \A r \in Peers : r # p => st'[r] = st[r]
  <2>1. st \in [Peers -> [Trans -> State]]
    BY <1>2 DEF TypeOK
  <2>2. CASE cur[p].delete
    BY <1>4, <1>8, <1>9, <2>1, <2>2
  <2>3. CASE ~cur[p].delete
    BY <1>1, <2>1, <2>3
  <2>4. QED
    BY <2>2, <2>3
<1>12. cur'[p] = NoMsg /\ cur'[q] = cur[q] /\ cur' \in [Peers -> {NoMsg} \cup CoreMsg]
  BY <1>1, <1>2, <1>10 DEF TypeOK
<1>13. TypeOK' /\ NoTransError'
  BY <1>1, <1>2, <1>11, <1>12 DEF TypeOK, NoTransError
<1>14. /\ st'[Other(p)] = st[Other(p)] /\ cur'[Other(p)] = cur[Other(p)] /\ err' = err
       /\ conn' = conn /\ eof' = eof /\ cut' = cut /\ auth' = auth /\ wire' = wire
  BY <1>1, <1>10, <1>11, <1>12 DEF q
<1>15. \A t \in Trans : st'[p][t].inc = st[p][t].inc /\ st[p][t].inc <= st'[p][t].inc
  <2>1. SUFFICES ASSUME NEW t \in Trans
                 PROVE  st'[p][t].inc = st[p][t].inc /\ st[p][t].inc <= st'[p][t].inc
    OBVIOUS
  <2>2. st[p][t].inc \in Nat
    BY <1>2, StateType
  <2>3. st'[p][t].inc = st[p][t].inc
    BY <1>8, <1>11
  <2>4. QED
    BY <2>2, <2>3
<1>16. ASSUME NEW t \in Trans PROVE Seen(p, t)' = Seen(p, t) /\ Sent(p, t)' = Sent(p, t)
  <2>1. CASE t = v /\ cur[p].delete
    <3>1. Seen(p, t) = 2 * st[p][v].inc + 1 /\ Sent(p, t) = 2 * st[p][v].inc + 1
      BY <1>3, <1>5, <2>1 DEF Seen, SeenOf, Sent, SentOf, Closing, v
    <3>2. Seen(p, t)' = 2 * st[p][v].inc + 1 /\ Sent(p, t)' = 2 * st[p][v].inc + 1
      BY <1>8, <1>11, <2>1 DEF Seen, SeenOf, Sent, SentOf
    <3>3. QED
      BY <3>1, <3>2
  <2>2. CASE ~(t = v /\ cur[p].delete)
    <3>1. ~Closing(p, t) /\ ~Closing(p, t)'
      BY <1>12, <2>2 DEF Closing, v
    <3>2. st'[p][t] = st[p][t]
      BY <1>11, <2>2
    <3>3. QED
      BY <3>1, <3>2 DEF Seen, SeenOf, Sent, SentOf
  <2>3. QED
    BY <2>1, <2>2
<1>17. \A r \in Peers, t \in Trans : WireInv(r, t)'
  <2>1. \A r \in Peers, t \in Trans : WireInv(r, t)
    BY DEF IInv
  <2>2. QED
    BY <1>2, <1>13, <1>14, <1>15, <1>16, <2>1, QuietStep, Zenon
<1>18. CurInv(p)'
  BY <1>12 DEF CurInv
<1>19. ConnInv(p)'
  <2>1. <<Other(p), "CONN">> \in Trans
    BY <1>10 DEF q, Trans, Addrs
  <2>2. conn[p] => <<Other(p), "CONN">> # v \/ ~cur[p].delete
    BY <1>1, <1>2, <1>3 DEF ConnInv, Closing, v
  <2>3. QED
    BY <1>2, <1>11, <1>12, <1>14, <2>1, <2>2 DEF ConnInv, Closing
<1>20. EndInv(p)'
  <2>1. <<p, "CONN">> \in Trans
    BY DEF Trans, Addrs
  <2>2. ~auth[p] => <<p, "CONN">> # v /\ st[p][<<p, "CONN">>] = Free(0)
    BY <1>2, <1>5 DEF EndInv, Free
  <2>3. QED
    BY <1>1, <1>11, <1>14, <2>1, <2>2 DEF EndInv
<1>21. ASSUME NEW t \in Trans PROVE StateInv(p, t)' /\ UseInv(p, t)'
  <2>1. StateInv(p, t) /\ UseInv(p, t) /\ t[1] \in Peers
    BY DEF IInv, Trans
  <2>2. StateInv(p, t)'
    <3>1. CASE t = v /\ cur[p].delete
      BY <1>7, <1>8, <1>11, <3>1 DEF StateInv
    <3>2. CASE ~(t = v /\ cur[p].delete)
      <4>1. st'[p][t] = st[p][t]
        BY <1>11, <3>2
      <4>2. st[p][t].live => st[p][t].txC
        BY <1>1, <2>1 DEF StateInv
      <4>3. QED
        BY <2>1, <4>1, <4>2 DEF StateInv
    <3>3. QED
      BY <3>1, <3>2
  <2>3. UseInv(p, t)'
    BY <1>11, <1>15, <2>1 DEF UseInv
  <2>4. QED
    BY <2>2, <2>3
<1>22. QED
  BY <1>13, <1>14, <1>15, <1>17, <1>18, <1>19, <1>20, <1>21, EndStep, Zenon

\* The steps of a broken receive side, which only change the core thread.
LEMMA SimulateFailureStep ==
  ASSUME IInv, NEW p \in Peers, SimulateFailure(p)
  PROVE  IInv'
<1> DEFINE q == Other(p)
<1>1. /\ ~eof[p] /\ cur[p] = NoMsg /\ err[p]
      /\ UNCHANGED <<st, wire, cut, conn, auth, err, eof, asserted>>
  BY DEF SimulateFailure, Reading, Running
<1>2. PICK v \in Victims(p) :
        cur' = IF st[p][v].rxD THEN cur ELSE [cur EXCEPT ![p] = FailureMsg(p, v)]
  BY DEF SimulateFailure
<1>3. v \in Trans /\ st[p][v].live
  BY <1>2 DEF Victims, StateRd, StateWr
<1>4. TypeOK /\ NoTransError /\ CurInv(p) /\ ConnInv(p) /\ EndInv(p) /\ StateInv(p, v)
  BY <1>3 DEF IInv
<1>5. ~st[p][v].rxD /\ st[p][v].inc \in 1..MaxInc /\ st[p][v].rxC \in BOOLEAN
  BY <1>3, <1>4, StateType DEF StateInv
<1>6. PICK c : c = [phase |-> "callback", t |-> v, inc |-> st[p][v].inc,
                    create |-> v[1] = p /\ ~st[p][v].rxC, delete |-> TRUE]
  OBVIOUS
<1>7. c \in CoreMsg /\ c # NoMsg
  BY <1>3, <1>5, <1>6 DEF CoreMsg, NoMsg
<1>8. /\ c.phase = "callback" /\ c.t = v /\ c.inc = st[p][v].inc
      /\ c.create => v[1] = p
  BY <1>6
<1>9. cur' = [cur EXCEPT ![p] = c]
  BY <1>2, <1>5, <1>6 DEF FailureMsg
<1>10. q \in Peers /\ q # p
  BY PeersPair
<1> HIDE DEF q
<1>11. cur'[p] = c /\ cur'[q] = cur[q] /\ cur' \in [Peers -> {NoMsg} \cup CoreMsg]
  BY <1>4, <1>7, <1>9, <1>10 DEF TypeOK
<1>12. TypeOK' /\ NoTransError'
  BY <1>1, <1>4, <1>11 DEF TypeOK, NoTransError
<1>13. st' = st /\ cur'[Other(p)] = cur[Other(p)] /\ err' = err
       /\ conn' = conn /\ eof' = eof /\ cut' = cut /\ auth' = auth /\ wire' = wire
  BY <1>1, <1>11 DEF q
<1>14. \A t \in Trans : st[p][t].inc <= st'[p][t].inc
  BY <1>4, <1>13, StateType
<1>15. \A r \in Peers, t \in Trans : WireInv(r, t)'
  <2>1. \A r \in Peers, t \in Trans : WireInv(r, t)
    BY DEF IInv
  <2>2. \A t \in Trans : Sent(p, t)' = Sent(p, t)
    BY <1>13 DEF Sent
  <2>3. QED
    BY <1>1, <1>4, <1>12, <1>13, <1>14, <2>1, <2>2, QuietStep, Zenon
<1>16. CurInv(p)'
  BY <1>1, <1>3, <1>8, <1>11, <1>13 DEF CurInv
<1>17. ConnInv(p)'
  BY <1>4, <1>8, <1>11, <1>13 DEF ConnInv
<1>18. EndInv(p)'
  BY <1>1, <1>4, <1>13 DEF EndInv
<1>19. ASSUME NEW t \in Trans PROVE StateInv(p, t)' /\ UseInv(p, t)'
  <2>1. StateInv(p, t) /\ UseInv(p, t)
    BY DEF IInv
  <2>2. st[p][t].live => st[p][t].txC
    BY <1>1, <2>1 DEF StateInv
  <2>3. QED
    BY <1>13, <2>1, <2>2 DEF StateInv, UseInv
<1>20. QED
  BY <1>12, <1>13, <1>14, <1>15, <1>16, <1>17, <1>18, <1>19, EndStep, Zenon

LEMMA ReadErrorStep ==
  ASSUME IInv, NEW p \in Peers, ReadEOF(p) \/ ReadError(p)
  PROVE  IInv'
<1> DEFINE q == Other(p)
<1>1. /\ ~eof[p] /\ cur[p] = NoMsg
      /\ err' = [err EXCEPT ![p] = TRUE]
      /\ UNCHANGED <<st, wire, cut, cur, conn, auth, eof, asserted>>
  BY DEF ReadEOF, ReadError, Reading, Running
<1>2. TypeOK /\ NoTransError /\ CurInv(p) /\ ConnInv(p) /\ EndInv(p)
  BY DEF IInv
<1>3. q \in Peers /\ q # p
  BY PeersPair
<1> HIDE DEF q
<1>4. err'[p] /\ err'[q] = err[q] /\ err' \in [Peers -> BOOLEAN]
  BY <1>1, <1>2, <1>3 DEF TypeOK
<1>5. TypeOK' /\ NoTransError'
  BY <1>1, <1>2, <1>4 DEF TypeOK, NoTransError
<1>6. /\ st' = st /\ cur' = cur /\ err'[Other(p)] = err[Other(p)]
      /\ conn' = conn /\ eof' = eof /\ cut' = cut /\ auth' = auth /\ wire' = wire
  BY <1>1, <1>4 DEF q
<1>7. \A t \in Trans : st[p][t].inc <= st'[p][t].inc
  BY <1>2, <1>6, StateType
<1>8. \A r \in Peers, t \in Trans : WireInv(r, t)'
  <2>1. \A r \in Peers, t \in Trans : WireInv(r, t)
    BY DEF IInv
  <2>2. \A t \in Trans : Sent(p, t)' = Sent(p, t)
    BY <1>6 DEF Sent
  <2>3. QED
    BY <1>2, <1>4, <1>5, <1>6, <1>7, <2>1, <2>2, QuietStep, Zenon
<1>9. CurInv(p)' /\ ConnInv(p)'
  BY <1>1, <1>2, <1>6 DEF CurInv, ConnInv, Closing
<1>10. EndInv(p)'
  BY <1>1, <1>2, <1>6 DEF EndInv
<1>11. \A t \in Trans : StateInv(p, t)' /\ UseInv(p, t)'
  BY <1>6 DEF IInv, StateInv, UseInv
<1>12. QED
  BY <1>5, <1>6, <1>7, <1>8, <1>9, <1>10, <1>11, EndStep, Zenon

\* At EOF no transaction is left, so the connection has left connq.
LEMMA SetEOFStep ==
  ASSUME IInv, NEW p \in Peers, SetEOF(p)
  PROVE  IInv'
<1> DEFINE q == Other(p)
<1>1. /\ cur[p] = NoMsg /\ err[p] /\ Victims(p) = {}
      /\ eof' = [eof EXCEPT ![p] = TRUE]
      /\ UNCHANGED <<st, wire, cut, cur, conn, auth, err, asserted>>
  BY DEF SetEOF, Reading
<1>2. TypeOK /\ NoTransError /\ CurInv(p) /\ ConnInv(p) /\ EndInv(p)
  BY DEF IInv
<1>3. q \in Peers /\ q # p
  BY PeersPair
<1>4. \A t \in Trans : ~st[p][t].live
  BY <1>1 DEF Victims, StateRd, StateWr
<1>5. ~conn[p]
  <2>1. <<q, "CONN">> \in Trans
    BY <1>3 DEF Trans, Addrs
  <2>2. QED
    BY <1>2, <1>4, <2>1 DEF ConnInv
<1> HIDE DEF q
<1>6. eof'[q] = eof[q] /\ eof' \in [Peers -> BOOLEAN]
  BY <1>1, <1>2, <1>3 DEF TypeOK
<1>7. TypeOK' /\ NoTransError'
  BY <1>1, <1>2, <1>6 DEF TypeOK, NoTransError
<1>8. /\ st' = st /\ cur' = cur /\ eof'[Other(p)] = eof[Other(p)]
      /\ conn' = conn /\ err' = err /\ cut' = cut /\ auth' = auth /\ wire' = wire
  BY <1>1, <1>6 DEF q
<1>9. \A t \in Trans : st[p][t].inc <= st'[p][t].inc
  BY <1>2, <1>8, StateType
<1>10. \A r \in Peers, t \in Trans : WireInv(r, t)'
  <2>1. \A r \in Peers, t \in Trans : WireInv(r, t)
    BY DEF IInv
  <2>2. \A t \in Trans : Sent(p, t)' = Sent(p, t)
    BY <1>8 DEF Sent
  <2>3. QED
    BY <1>1, <1>2, <1>7, <1>8, <1>9, <2>1, <2>2, QuietStep, Zenon
<1>11. CurInv(p)' /\ ConnInv(p)'
  BY <1>1, <1>2, <1>8 DEF CurInv, ConnInv, Closing
<1>12. EndInv(p)'
  BY <1>1, <1>2, <1>4, <1>5, <1>8 DEF EndInv
<1>13. \A t \in Trans : StateInv(p, t)' /\ UseInv(p, t)'
  BY <1>8 DEF IInv, StateInv, UseInv
<1>14. QED
  BY <1>7, <1>8, <1>9, <1>10, <1>11, <1>12, <1>13, EndStep, Zenon

\* Streams that end, each with a prefix of what is in it.
LEMMA CutStep ==
  ASSUME IInv, UNCHANGED <<st, cur, conn, auth, err, eof, asserted>>,
         cut' \in [Peers -> BOOLEAN], wire' \in [Peers -> Seq(Message)],
         \A r \in Peers : /\ cut'[r] \/ (cut'[r] = cut[r] /\ wire'[r] = wire[r])
                          /\ wire'[r] \in Prefixes(wire[r])
  PROVE  IInv'
<1>1. TypeOK /\ NoTransError
  BY DEF IInv
<1>2. TypeOK' /\ NoTransError'
  BY <1>1 DEF TypeOK, NoTransError
<1>3. ASSUME NEW r \in Peers PROVE CurInv(r)' /\ ConnInv(r)' /\ EndInv(r)'
  BY DEF IInv, CurInv, ConnInv, EndInv, Closing
<1>4. ASSUME NEW r \in Peers, NEW t \in Trans PROVE StateInv(r, t)' /\ UseInv(r, t)'
  BY DEF IInv, StateInv, UseInv
<1>5. ASSUME NEW r \in Peers, NEW t \in Trans PROVE WireInv(r, t)'
  <2>1. Stream(r, t, wire[r], Seen(Other(r), t), Sent(r, t), st[t[1]][t].inc, cut[r],
               err[Other(r)])
    BY DEF IInv, WireInv
  <2>2. /\ wire[r] \in Seq(Message) /\ Seen(Other(r), t) \in Int /\ Sent(r, t) \in Int
        /\ st[t[1]][t].inc \in Nat /\ Other(r) \in Peers /\ cut'[r] \in BOOLEAN
    <3>1. Other(r) \in Peers /\ t[1] \in Peers
      BY PeersPair DEF Trans
    <3>2. QED
      BY <1>1, <3>1, NumberType, StateType DEF TypeOK
  <2>3. /\ Seen(Other(r), t)' = Seen(Other(r), t) /\ Sent(r, t)' = Sent(r, t)
        /\ st' = st /\ err' = err
    BY DEF Seen, Sent, Closing
  <2>4. Stream(r, t, wire'[r], Seen(Other(r), t), Sent(r, t), st[t[1]][t].inc, cut'[r],
               err[Other(r)])
    <3>1. CASE cut'[r] = cut[r] /\ wire'[r] = wire[r]
      BY <2>1, <3>1
    <3>2. CASE cut'[r]
      <4>1. PICK n \in 0..Len(wire[r]) : wire'[r] = SubSeq(wire[r], 1, n)
        BY DEF Prefixes
      <4>2. Stream(r, t, wire'[r], Seen(Other(r), t), Sent(r, t), st[t[1]][t].inc, TRUE,
                   err[Other(r)])
        <5>1. PICK b, d : b = cut[r] /\ d = err[Other(r)]
          OBVIOUS
        <5>2. PICK a \in Int, z \in Int, top \in Nat :
                a = Seen(Other(r), t) /\ z = Sent(r, t) /\ top = st[t[1]][t].inc
          BY <2>2
        <5>3. Stream(r, t, wire[r], a, z, top, b, d)
          BY <2>1, <5>1, <5>2
        <5>4. Stream(r, t, SubSeq(wire[r], 1, n), a, z, top, TRUE, d)
          BY <2>2, <5>3, StreamCut
        <5>5. QED
          BY <4>1, <5>1, <5>2, <5>4
      <4>3. cut'[r] = TRUE
        BY <2>2, <3>2
      <4>4. QED
        BY <4>2, <4>3
    <3>3. QED
      BY <3>1, <3>2
  <2>5. QED
    BY <2>3, <2>4 DEF WireInv
<1>6. QED
  BY <1>2, <1>3, <1>4, <1>5 DEF IInv

LEMMA CloseSocketStep ==
  ASSUME IInv, NEW p \in Peers, CloseSocket(p)
  PROVE  IInv'
<1>1. /\ cut' = [cut EXCEPT ![p] = TRUE]
      /\ UNCHANGED <<st, wire, cur, conn, auth, err, eof, asserted>>
  BY DEF CloseSocket
<1>2. cut \in [Peers -> BOOLEAN] /\ wire \in [Peers -> Seq(Message)]
  BY DEF IInv, TypeOK
<1>3. cut' \in [Peers -> BOOLEAN] /\ wire' \in [Peers -> Seq(Message)]
  BY <1>1, <1>2
<1>4. ASSUME NEW r \in Peers
      PROVE  /\ cut'[r] \/ (cut'[r] = cut[r] /\ wire'[r] = wire[r])
             /\ wire'[r] \in Prefixes(wire[r])
  <2>1. cut'[r] \/ (cut'[r] = cut[r] /\ wire'[r] = wire[r])
    BY <1>1, <1>2
  <2>2. wire[r] \in Seq(Message) /\ Len(wire[r]) \in 0..Len(wire[r])
    BY <1>2
  <2>3. SubSeq(wire[r], 1, Len(wire[r])) = wire[r]
    BY <2>2, SubSeqFull
  <2>4. wire'[r] \in Prefixes(wire[r])
    BY <1>1, <2>2, <2>3 DEF Prefixes
  <2>5. QED
    BY <2>1, <2>4
<1>5. QED
  BY <1>1, <1>3, <1>4, CutStep, Zenon

LEMMA BreakStep ==
  ASSUME IInv, Break
  PROVE  IInv'
<1>1. wire \in [Peers -> Seq(Message)]
  BY DEF IInv, TypeOK
<1>2. /\ cut' = [p \in Peers |-> TRUE]
      /\ UNCHANGED <<st, cur, conn, auth, err, eof, asserted>>
      /\ wire' \in [Peers -> UNION {Prefixes(wire[p]) : p \in Peers}]
      /\ \A p \in Peers : wire'[p] \in Prefixes(wire[p])
  BY DEF Break
<1>3. ASSUME NEW p \in Peers PROVE wire'[p] \in Seq(Message)
  <2>1. PICK n \in 0..Len(wire[p]) : wire'[p] = SubSeq(wire[p], 1, n)
    BY <1>2 DEF Prefixes
  <2>2. QED
    BY <1>1, <2>1, SubSeqProperties
<1>4. cut' \in [Peers -> BOOLEAN] /\ wire' \in [Peers -> Seq(Message)]
  BY <1>2, <1>3
<1>5. \A r \in Peers : /\ cut'[r] \/ (cut'[r] = cut[r] /\ wire'[r] = wire[r])
                       /\ wire'[r] \in Prefixes(wire[r])
  <2>1. \A r \in Peers : cut'[r] = TRUE
    BY <1>2
  <2>2. QED
    BY <1>2, <2>1
<1>6. QED
  BY <1>2, <1>4, <1>5, CutStep

-----------------------------------------------------------------------------
(* Receiving *)

LEMMA Parity ==
  ASSUME NEW i \in Nat, NEW k \in Nat
  PROVE  /\ 2 * k + 1 = (2 * i) + 1 => i = k
         /\ 2 * k + 1 # (2 * i + 1) + 1 /\ 2 * k + 1 # (2 * i - 1) + 1
         /\ 2 * k = (2 * i + 1) + 1 => i = k - 1
         /\ 2 * k = (2 * i - 1) + 1 => i = k
         /\ 2 * k # (2 * i) + 1
OBVIOUS

\* The message dmsg_ioq_read is about to return fits the state at the reader.
LEMMA NextMessage ==
  ASSUME IInv, NEW p \in Peers, Reading(p), ~err[p], wire[Other(p)] # <<>>,
         NEW m, m = Head(wire[Other(p)]), NEW t, t = Lookup(p, m)
  PROVE  /\ t \in Trans /\ m \in Message /\ For(Other(p), t, m)
         /\ \A v \in Trans : For(Other(p), v, m) => v = t
         /\ m.create = ~m.delete /\ ~TransError(p, m)
         /\ Number(m) <= Sent(Other(p), t) /\ m.inc <= st[t[1]][t].inc
         /\ IF m.reply THEN t[1] = p ELSE t[1] = Other(p)
         /\ m.delete => st[p][t].live /\ st[p][t].rxC /\ st[p][t].inc = m.inc
         /\ m.create /\ m.reply => st[p][t].live /\ ~st[p][t].rxC /\ st[p][t].inc = m.inc
         /\ m.create /\ ~m.reply => ~st[p][t].live /\ st[p][t].inc = m.inc - 1
<1> DEFINE q == Other(p)
           w == wire[q]
<1>1. q \in Peers /\ q # p /\ Other(q) = p
  BY PeersPair
<1>2. TypeOK /\ cur[p] = NoMsg
  BY DEF IInv, Reading
<1>3. w \in Seq(Message) /\ w # <<>> /\ m = Head(w)
  BY <1>1, <1>2 DEF TypeOK
<1> HIDE DEF w
<1>4. 1 \in DOMAIN w /\ m = w[1]
  BY <1>3
<1>5. m \in Message /\ Number(m) \in Nat /\ m.inc \in Nat
  BY <1>3, <1>4, MessageNumber
<1>6. m.msgid \in Addrs /\ m.reply \in BOOLEAN /\ m.create \in BOOLEAN /\ m.delete \in BOOLEAN
  BY <1>5 DEF Message
<1>7. t = <<IF m.reply THEN p ELSE q, m.msgid>>
  BY DEF Lookup
<1>8. t \in Trans /\ t[2] = m.msgid /\ (IF m.reply THEN t[1] = p ELSE t[1] = q)
  BY <1>1, <1>6, <1>7 DEF Trans
<1>9. m.reply = (t[1] # q)
  BY <1>1, <1>6, <1>8
<1>10. For(q, t, m) /\ \A v \in Trans : For(q, v, m) => v = t
  BY <1>1, <1>8, <1>9, MsgFor
<1>11. StateInv(p, t) /\ WireInv(q, t) /\ t[1] \in Peers
  <2>1. t[1] \in Peers
    BY <1>1, <1>8
  <2>2. QED
    BY <1>1, <1>8, <2>1 DEF IInv
<1>12. Stream(q, t, w, Seen(p, t), Sent(q, t), st[t[1]][t].inc, cut[q], err[p])
  BY <1>1, <1>11 DEF WireInv, w
<1>13. Written(q, t, w, Sent(q, t), st[t[1]][t].inc) /\ Unread(q, t, w, Seen(p, t))
  BY <1>12 DEF Stream
<1>14. m.create # m.delete /\ Number(m) <= Sent(q, t) /\ m.inc <= st[t[1]][t].inc
  BY <1>4, <1>10, <1>13 DEF Written
<1>15. Number(m) = Seen(p, t) + 1
  <2>1. Seen(p, t) \in Int
    BY <1>2, <1>8, NumberType
  <2>2. QED
    BY <1>3, <1>10, <1>13, <2>1, StreamHead
<1>16. PICK s \in State : s = st[p][t] /\ s.inc \in Nat
  BY <1>2, <1>8, StateType
<1>17. Number(m) = SeenOf(s, FALSE) + 1
  <2>1. Closing(p, t) = FALSE
    BY <1>2 DEF Closing
  <2>2. QED
    BY <1>15, <1>16, <2>1 DEF Seen
<1>18. s.live => IF t[1] = p THEN TRUE ELSE s.rxC
  BY <1>11, <1>16 DEF StateInv
<1>19. PICK i \in Nat, k \in Nat : i = s.inc /\ k = m.inc
  BY <1>5, <1>16
<1>20. /\ m.delete => s.live /\ s.rxC /\ s.inc = m.inc
       /\ m.create => \/ ~s.live /\ s.inc = m.inc - 1
                      \/ s.live /\ ~s.rxC /\ s.inc = m.inc
  <2>1. Number(m) = IF m.delete THEN 2 * k + 1 ELSE 2 * k
    BY <1>19 DEF Number
  <2>2. \/ ~s.live /\ SeenOf(s, FALSE) = 2 * i + 1
        \/ s.live /\ s.rxC /\ SeenOf(s, FALSE) = 2 * i
        \/ s.live /\ ~s.rxC /\ SeenOf(s, FALSE) = 2 * i - 1
    BY <1>19 DEF SeenOf
  <2>3. m.create => ~m.delete
    BY <1>6, <1>14
  <2>4. QED
    <3>1. /\ 2 * k + 1 = (2 * i) + 1 => i = k
          /\ 2 * k + 1 # (2 * i + 1) + 1 /\ 2 * k + 1 # (2 * i - 1) + 1
          /\ 2 * k = (2 * i + 1) + 1 => i = k - 1
          /\ 2 * k = (2 * i - 1) + 1 => i = k
          /\ 2 * k # (2 * i) + 1
      BY Parity
    <3>2. /\ m.delete => Number(m) = 2 * k + 1
          /\ m.create => Number(m) = 2 * k
      BY <2>1, <2>3
    <3>3. CASE ~s.live /\ SeenOf(s, FALSE) = 2 * i + 1
      BY <1>17, <1>19, <3>1, <3>2, <3>3, Zenon
    <3>4. CASE s.live /\ s.rxC /\ SeenOf(s, FALSE) = 2 * i
      BY <1>17, <1>19, <3>1, <3>2, <3>4, Zenon
    <3>5. CASE s.live /\ ~s.rxC /\ SeenOf(s, FALSE) = 2 * i - 1
      BY <1>17, <1>19, <3>1, <3>2, <3>5, Zenon
    <3>6. QED
      BY <2>2, <3>3, <3>4, <3>5
<1>21. m.create /\ m.reply => s.live /\ ~s.rxC /\ s.inc = m.inc
  BY <1>5, <1>8, <1>14, <1>16, <1>20
<1>22. m.create /\ ~m.reply => ~s.live /\ s.inc = m.inc - 1
  BY <1>1, <1>8, <1>18, <1>20
<1>23. m.create = ~m.delete
  BY <1>6, <1>14
<1>24. ~TransError(p, m)
  BY <1>16, <1>20, <1>21, <1>22, <1>23 DEF TransError
<1>25. QED
  BY <1>5, <1>8, <1>10, <1>14, <1>16, <1>20, <1>21, <1>22, <1>23, <1>24

\* The state after the message.
LEMMA ReceivedShape ==
  ASSUME NEW s \in State, NEW m \in Message, m.create = ~m.delete, s.live => ~s.rxD,
         m.delete => s.live /\ s.rxC /\ s.inc = m.inc,
         m.create /\ m.reply => s.live /\ ~s.rxC /\ s.inc = m.inc,
         m.create /\ ~m.reply => ~s.live /\ s.inc = m.inc - 1
  PROVE  /\ Received(s, m) \in State
         /\ Received(s, m).live /\ Received(s, m).rxC /\ ~Received(s, m).rxD
         /\ Received(s, m).inc = m.inc /\ s.inc <= m.inc
         /\ m.delete => Received(s, m) = s
         /\ m.create /\ m.reply => /\ Received(s, m).txC = s.txC /\ Received(s, m).txD = s.txD
         /\ m.create /\ ~m.reply => ~Received(s, m).txC /\ ~Received(s, m).txD
         /\ SentOf(Received(s, m)) = SentOf(s)
         /\ SeenOf(Received(s, m), m.delete) = Number(m)
<1>1. /\ s.inc \in Nat /\ m.inc \in Nat /\ m.inc \in 0..MaxInc
      /\ m.create \in BOOLEAN /\ m.delete \in BOOLEAN /\ m.reply \in BOOLEAN
      /\ m.inc > 0
  BY IncAssumption DEF State, Message
<1>2. CASE m.delete
  <2>1. Received(s, m) = s
    BY <1>1, <1>2 DEF Received
  <2>2. QED
    BY <1>1, <1>2, <2>1 DEF SeenOf, Number
<1>3. CASE m.create /\ m.reply
  <2>1. PICK u : u = [s EXCEPT !.rxC = TRUE, !.rxD = FALSE]
    OBVIOUS
  <2>2. Received(s, m) = u
    BY <1>1, <1>3, <2>1 DEF Received
  <2>3. /\ u \in State /\ u.live = s.live /\ u.rxC /\ ~u.rxD /\ u.inc = s.inc
        /\ u.txC = s.txC /\ u.txD = s.txD
    BY <2>1 DEF State
  <2>4. QED
    BY <1>1, <1>3, <2>2, <2>3 DEF SentOf, SeenOf, Number
<1>4. CASE m.create /\ ~m.reply
  <2>1. PICK n \in 0..MaxInc : n = m.inc
    BY <1>1
  <2>2. PICK u : u = [Free(n) EXCEPT !.live = TRUE, !.rxC = TRUE]
    OBVIOUS
  <2>3. u = [live |-> TRUE, txC |-> FALSE, txD |-> FALSE, rxC |-> TRUE, rxD |-> FALSE,
             inc |-> n]
    BY <2>2 DEF Free
  <2>4. PICK x : x = [live |-> TRUE, txC |-> FALSE, txD |-> FALSE, rxC |-> TRUE, rxD |-> FALSE,
                      inc |-> n]
    OBVIOUS
  <2>5. x \in State /\ x.live /\ ~x.txC /\ ~x.txD /\ x.rxC /\ ~x.rxD /\ x.inc = n
    BY <2>4 DEF State
  <2>6. Received(s, m) = x
    BY <1>1, <1>4, <2>1, <2>2, <2>3, <2>4 DEF Received
  <2>7. QED
    BY <1>1, <1>4, <2>1, <2>5, <2>6 DEF SentOf, SeenOf, Number
<1>5. QED
  BY <1>1, <1>2, <1>3, <1>4

LEMMA ReceiveStep ==
  ASSUME IInv, NEW p \in Peers, Receive(p)
  PROVE  IInv'
<1> DEFINE q == Other(p)
<1>1. q \in Peers /\ q # p /\ Other(q) = p /\ \A r \in Peers : r = p \/ r = q
  BY PeersPair
<1>2. PICK m, v : m = Head(wire[q]) /\ v = Lookup(p, m)
  OBVIOUS
<1>3. /\ Reading(p) /\ ~err[p] /\ ~eof[p] /\ auth[p] /\ cur[p] = NoMsg /\ wire[q] # <<>>
      /\ wire' = [wire EXCEPT ![q] = Tail(wire[q])]
      /\ UNCHANGED <<cut, conn, auth, err, eof>>
  BY <1>2 DEF Receive, Reading, Running
<1>4. /\ v \in Trans /\ m \in Message /\ For(q, v, m)
      /\ \A t \in Trans : For(q, t, m) => t = v
      /\ m.create = ~m.delete /\ ~TransError(p, m)
      /\ Number(m) <= Sent(q, v) /\ m.inc <= st[v[1]][v].inc
      /\ IF m.reply THEN v[1] = p ELSE v[1] = q
      /\ m.delete => st[p][v].live /\ st[p][v].rxC /\ st[p][v].inc = m.inc
      /\ m.create /\ m.reply => st[p][v].live /\ ~st[p][v].rxC /\ st[p][v].inc = m.inc
      /\ m.create /\ ~m.reply => ~st[p][v].live /\ st[p][v].inc = m.inc - 1
  BY <1>2, <1>3, NextMessage
<1>5. TypeOK /\ NoTransError /\ CurInv(p) /\ ConnInv(p) /\ EndInv(p) /\ StateInv(p, v)
  BY <1>4 DEF IInv
<1>6. PICK c : c = [phase |-> "callback", t |-> v, inc |-> m.inc,
                    create |-> m.create, delete |-> m.delete]
  OBVIOUS
<1>7. /\ st' = [st EXCEPT ![p][v] = Received(st[p][v], m)]
      /\ cur' = [cur EXCEPT ![p] = c] /\ asserted' = asserted
  BY <1>2, <1>4, <1>6 DEF Receive
<1> HIDE DEF q
<1>8. /\ m.inc \in 1..MaxInc /\ m.inc \in Nat /\ m.create \in BOOLEAN /\ m.delete \in BOOLEAN
      /\ m.reply \in BOOLEAN
  BY <1>4 DEF Message
<1>9. c \in CoreMsg /\ c # NoMsg
  BY <1>4, <1>6, <1>8 DEF CoreMsg, NoMsg
<1>10. /\ c.phase = "callback" /\ c.t = v /\ c.inc = m.inc /\ c.create = m.create
       /\ c.delete = m.delete
  BY <1>6
<1>11. st[p][v] \in State /\ st[p][v].inc \in Nat
  BY <1>4, <1>5, StateType
<1>12. PICK new \in State :
         /\ new = Received(st[p][v], m)
         /\ new.live /\ new.rxC /\ ~new.rxD /\ new.inc = m.inc /\ st[p][v].inc <= m.inc
         /\ m.delete => new = st[p][v]
         /\ m.create /\ m.reply => new.txC = st[p][v].txC /\ new.txD = st[p][v].txD
         /\ m.create /\ ~m.reply => ~new.txC /\ ~new.txD
         /\ SentOf(new) = SentOf(st[p][v])
         /\ SeenOf(new, m.delete) = Number(m)
  <2>1. PICK s \in State : s = st[p][v]
    BY <1>11
  <2>2. /\ m.create = ~m.delete /\ (s.live => ~s.rxD)
        /\ m.delete => s.live /\ s.rxC /\ s.inc = m.inc
        /\ m.create /\ m.reply => s.live /\ ~s.rxC /\ s.inc = m.inc
        /\ m.create /\ ~m.reply => ~s.live /\ s.inc = m.inc - 1
    BY <1>4, <1>5, <2>1 DEF StateInv
  <2>3. QED
    BY <1>4, <2>1, <2>2, ReceivedShape
<1>13. /\ st'[p][v] = new /\ \A t \in Trans : t # v => st'[p][t] = st[p][t]
       /\ st' \in [Peers -> [Trans -> State]]
       /\ \A r \in Peers : r # p => st'[r] = st[r]
  BY <1>4, <1>5, <1>7, <1>12 DEF TypeOK
<1>14. cur'[p] = c /\ cur'[q] = cur[q] /\ cur' \in [Peers -> {NoMsg} \cup CoreMsg]
  BY <1>1, <1>5, <1>7, <1>9 DEF TypeOK
<1>15. /\ wire'[q] = Tail(wire[q]) /\ wire'[p] = wire[p] /\ wire[q] \in Seq(Message)
       /\ wire' \in [Peers -> Seq(Message)]
  <2>1. wire \in [Peers -> Seq(Message)] /\ Tail(wire[q]) \in Seq(Message)
    BY <1>1, <1>3, <1>5 DEF TypeOK
  <2>2. QED
    BY <1>1, <1>3, <2>1
<1>16. TypeOK' /\ NoTransError'
  BY <1>3, <1>5, <1>7, <1>13, <1>14, <1>15 DEF TypeOK, NoTransError
<1>17. /\ st'[Other(p)] = st[Other(p)] /\ cur'[Other(p)] = cur[Other(p)] /\ err' = err
       /\ conn' = conn /\ eof' = eof /\ cut' = cut /\ auth' = auth
  BY <1>1, <1>3, <1>13, <1>14 DEF q
\* only the opener changes the use of a msgid
<1>18. ASSUME NEW t \in Trans
       PROVE  st'[t[1]][t].inc = st[t[1]][t].inc /\ st[p][t].inc <= st'[p][t].inc
  <2>1. t[1] \in Peers /\ st[p][t].inc \in Nat
    BY <1>5, StateType DEF Trans
  <2>2. st[p][t].inc <= st'[p][t].inc
    <3>1. CASE t = v
      BY <1>12, <1>13, <3>1
    <3>2. CASE t # v
      BY <1>13, <2>1, <3>2
    <3>3. QED
      BY <3>1, <3>2
  <2>3. CASE t[1] # p
    BY <1>13, <2>1, <2>2, <2>3
  <2>4. CASE t[1] = p /\ t # v
    BY <1>13, <2>2, <2>4
  <2>5. CASE t[1] = p /\ t = v
    <3>1. m.reply
      BY <1>1, <1>4, <2>5
    <3>2. new.inc = st[p][v].inc
      BY <1>4, <1>8, <1>12, <3>1
    <3>3. QED
      BY <1>13, <2>2, <2>5, <3>2
  <2>6. QED
    BY <2>3, <2>4, <2>5
<1>19. ASSUME NEW t \in Trans
       PROVE  Sent(p, t)' = Sent(p, t) /\ Sent(q, t)' = Sent(q, t) /\ Seen(q, t)' = Seen(q, t)
  <2>1. Sent(p, t)' = Sent(p, t)
    BY <1>12, <1>13 DEF Sent
  <2>2. Sent(q, t)' = Sent(q, t) /\ Seen(q, t)' = Seen(q, t)
    BY <1>1, <1>13, <1>14 DEF Sent, Seen, Closing
  <2>3. QED
    BY <2>1, <2>2
<1>20. Seen(p, v)' = Number(m)
  <2>1. Closing(p, v)' = m.delete
    BY <1>8, <1>9, <1>10, <1>14 DEF Closing
  <2>2. QED
    BY <1>12, <1>13, <2>1 DEF Seen
<1>21. ASSUME NEW t \in Trans, t # v PROVE Seen(p, t)' = Seen(p, t)
  <2>1. ~Closing(p, t)' /\ ~Closing(p, t)
    BY <1>3, <1>10, <1>14, <1>21 DEF Closing
  <2>2. QED
    BY <1>13, <1>21, <2>1 DEF Seen, SeenOf
<1>22. ASSUME NEW t \in Trans PROVE WireInv(p, t)' /\ WireInv(q, t)'
  <2>1. WireInv(p, t) /\ WireInv(q, t)
    BY <1>1 DEF IInv
  <2>2. WireInv(p, t)'
    BY <1>15, <1>17, <1>18, <1>19, <2>1 DEF WireInv, q
  <2>3. PICK a \in Int, b \in Int, z \in Int, top \in Nat :
          /\ a = Seen(p, t) /\ z = Sent(q, t) /\ top = st[t[1]][t].inc
          /\ b = IF t = v THEN Number(m) ELSE Seen(p, t)
    <3>1. Seen(p, t) \in Int /\ Sent(q, t) \in Int /\ Number(m) \in Int
      BY <1>1, <1>4, <1>5, <1>8, NumberType DEF Number
    <3>2. t[1] \in Peers
      BY DEF Trans
    <3>3. st[t[1]][t].inc \in Nat
      BY <1>5, <3>2, StateType
    <3>4. QED
      BY <3>1, <3>3
  <2>4. PICK broken : broken = cut[q]
    OBVIOUS
  <2>5. Stream(q, t, wire[q], a, z, top, broken, FALSE)
    <3>1. err[p] = FALSE
      BY <1>3, <1>5 DEF TypeOK
    <3>2. QED
      BY <1>1, <2>1, <2>3, <2>4, <3>1 DEF WireInv
  <2>6. IF For(q, t, Head(wire[q])) THEN b = Number(Head(wire[q])) ELSE b = a
    BY <1>2, <1>4, <2>3 DEF q
  <2>7. Stream(q, t, Tail(wire[q]), b, z, top, broken, FALSE)
    BY <1>3, <1>15, <2>5, <2>6, StreamRead
  <2>8. Seen(p, t)' = b /\ Sent(q, t)' = z /\ st'[t[1]][t].inc = top /\ cut'[q] = broken
    BY <1>17, <1>18, <1>19, <1>20, <1>21, <2>3, <2>4
  <2>9. err'[p] = FALSE
    BY <1>3, <1>5 DEF TypeOK
  <2>10. WireInv(q, t)'
    BY <1>1, <1>15, <2>7, <2>8, <2>9 DEF WireInv
  <2>11. QED
    BY <2>2, <2>10
<1>23. \A r \in Peers, t \in Trans : WireInv(r, t)'
  BY <1>1, <1>22
<1>24. CurInv(p)'
  BY <1>1, <1>4, <1>8, <1>10, <1>12, <1>13, <1>14 DEF CurInv
<1>25. ConnInv(p)'
  <2>1. <<Other(p), "CONN">> \in Trans
    BY <1>1 DEF q, Trans, Addrs
  <2>2. conn[p] => st'[p][<<Other(p), "CONN">>].live
    BY <1>5, <1>12, <1>13, <2>1 DEF ConnInv
  <2>3. QED
    BY <1>10, <1>14, <1>17, <2>2 DEF ConnInv
<1>26. EndInv(p)'
  BY <1>3, <1>17 DEF EndInv
<1>27. ASSUME NEW t \in Trans PROVE StateInv(p, t)' /\ UseInv(p, t)'
  <2>1. StateInv(p, t) /\ UseInv(p, t) /\ t[1] \in Peers
    BY DEF IInv, Trans
  <2>2. CASE t # v
    <3>1. st'[p][t] = st[p][t] /\ (st[p][t].live => st[p][t].txC)
      BY <1>3, <1>13, <2>1, <2>2 DEF StateInv
    <3>2. StateInv(p, t)'
      BY <2>1, <3>1 DEF StateInv
    <3>3. UseInv(p, t)'
      BY <1>18, <2>1, <3>1 DEF UseInv
    <3>4. QED
      BY <3>2, <3>3
  <2>3. CASE t = v
    <3>1. st[p][v].live => st[p][v].txC
      BY <1>3, <1>5 DEF StateInv
    <3>2. ~new.txC => m.create /\ ~m.reply
      BY <1>4, <1>8, <1>12, <3>1
    <3>3. new.txC \/ v[1] # p
      BY <1>1, <1>4, <3>2
    <3>4. StateInv(p, t)'
      BY <1>4, <1>8, <1>9, <1>10, <1>12, <1>13, <1>14, <2>3, <3>2, <3>3 DEF StateInv
    <3>5. UseInv(p, t)'
      BY <1>4, <1>12, <1>13, <1>18, <2>3 DEF UseInv
    <3>6. QED
      BY <3>4, <3>5
  <2>4. QED
    BY <2>2, <2>3
<1>28. QED
  BY <1>16, <1>17, <1>18, <1>23, <1>24, <1>25, <1>26, <1>27, EndStep, Zenon

-----------------------------------------------------------------------------
(* The callback *)

\* ms holds at most one message for t, the one that takes z to y.
Writes(p, t, ms, z, y, tip) ==
  \/ y = z /\ \A j \in DOMAIN ms : ~For(p, t, ms[j])
  \/ /\ y = z + 1
     /\ \E i \in DOMAIN ms :
          /\ For(p, t, ms[i]) /\ Number(ms[i]) = z + 1
          /\ ms[i].create # ms[i].delete /\ ms[i].inc <= tip
          /\ \A j \in DOMAIN ms : For(p, t, ms[j]) => j = i

Silent(p, t, ms) == \A j \in DOMAIN ms : ~For(p, t, ms[j])

LEMMA WritesConcat ==
  ASSUME NEW p, NEW t, NEW a \in Seq(Message), NEW b \in Seq(Message), NEW z, NEW y, NEW tip
  PROVE  /\ Writes(p, t, a, z, y, tip) /\ Silent(p, t, b) => Writes(p, t, a \o b, z, y, tip)
         /\ Silent(p, t, a) /\ Writes(p, t, b, z, y, tip) => Writes(p, t, a \o b, z, y, tip)
<1> DEFINE c == a \o b
           n == Len(a)
<1>1. /\ n \in Nat /\ DOMAIN a = 1..n /\ Len(b) \in Nat /\ DOMAIN b = 1..Len(b)
      /\ c \in Seq(Message) /\ DOMAIN c = 1..(n + Len(b))
      /\ \A k \in 1..(n + Len(b)) : c[k] = IF k <= n THEN a[k] ELSE b[k - n]
  BY ConcatProperties
<1> HIDE DEF c, n
<1>2. ASSUME NEW k \in DOMAIN a PROVE k \in DOMAIN c /\ c[k] = a[k]
  BY <1>1
<1>3. ASSUME NEW k \in DOMAIN b PROVE n + k \in DOMAIN c /\ c[n + k] = b[k]
  BY <1>1
<1>4. ASSUME NEW k \in DOMAIN c
      PROVE  \/ k \in DOMAIN a /\ c[k] = a[k]
             \/ k - n \in DOMAIN b /\ c[k] = b[k - n] /\ k = n + (k - n)
  BY <1>1
<1>5. ASSUME Writes(p, t, a, z, y, tip), Silent(p, t, b) PROVE Writes(p, t, c, z, y, tip)
  <2>1. \A k \in DOMAIN c : For(p, t, c[k]) => k \in DOMAIN a /\ c[k] = a[k]
    BY <1>4, <1>5 DEF Silent
  <2>2. CASE y = z /\ \A j \in DOMAIN a : ~For(p, t, a[j])
    BY <2>1, <2>2 DEF Writes
  <2>3. CASE ~(y = z /\ \A j \in DOMAIN a : ~For(p, t, a[j]))
    <3>1. PICK i \in DOMAIN a :
            /\ For(p, t, a[i]) /\ Number(a[i]) = z + 1
            /\ a[i].create # a[i].delete /\ a[i].inc <= tip
            /\ \A j \in DOMAIN a : For(p, t, a[j]) => j = i
      BY <1>5, <2>3 DEF Writes
    <3>2. y = z + 1
      BY <1>5, <2>3 DEF Writes
    <3>3. i \in DOMAIN c /\ c[i] = a[i]
      BY <1>2
    <3>4. QED
      BY <2>1, <3>1, <3>2, <3>3 DEF Writes
  <2>4. QED
    BY <2>2, <2>3
<1>6. ASSUME Silent(p, t, a), Writes(p, t, b, z, y, tip) PROVE Writes(p, t, c, z, y, tip)
  <2>1. \A k \in DOMAIN c : For(p, t, c[k]) =>
          k - n \in DOMAIN b /\ c[k] = b[k - n] /\ k = n + (k - n)
    BY <1>4, <1>6 DEF Silent
  <2>2. CASE y = z /\ \A j \in DOMAIN b : ~For(p, t, b[j])
    BY <2>1, <2>2 DEF Writes
  <2>3. CASE ~(y = z /\ \A j \in DOMAIN b : ~For(p, t, b[j]))
    <3>1. PICK i \in DOMAIN b :
            /\ For(p, t, b[i]) /\ Number(b[i]) = z + 1
            /\ b[i].create # b[i].delete /\ b[i].inc <= tip
            /\ \A j \in DOMAIN b : For(p, t, b[j]) => j = i
      BY <1>6, <2>3 DEF Writes
    <3>2. y = z + 1
      BY <1>6, <2>3 DEF Writes
    <3>3. n + i \in DOMAIN c /\ c[n + i] = b[i]
      BY <1>3
    <3>4. \A k \in DOMAIN c : For(p, t, c[k]) => k = n + i
      BY <2>1, <3>1
    <3>5. QED
      BY <3>1, <3>2, <3>3, <3>4 DEF Writes
  <2>4. QED
    BY <2>2, <2>3
<1>7. QED
  BY <1>5, <1>6 DEF c

LEMMA ReplyWrites ==
  ASSUME IInv, NEW p \in Peers, NEW t \in Trans, st[p][t].live => st[p][t].txC,
         NEW tip \in Nat, st[p][t].inc <= tip
  PROVE  /\ ReplyMsg(p, t) \in Seq(Message)
         /\ \A v \in Trans : v # t => Silent(p, v, ReplyMsg(p, t))
         /\ Writes(p, t, ReplyMsg(p, t), Sent(p, t), SentOf(Closed(st[p][t])), tip)
<1>1. TypeOK /\ StateInv(p, t)
  BY DEF IInv
<1>2. PICK s \in State : s = st[p][t] /\ s.inc \in Nat /\ (s.live => ~s.rxD)
  BY <1>1, StateType DEF StateInv
<1>3. SentOf(Closed(s)) = 2 * s.inc + 1 /\ (~s.live \/ s.txD => Closed(s) = s)
  BY <1>2, ClosedShape
<1>4. CASE ~s.live \/ s.txD
  <2>1. PICK ms : ms = ReplyMsg(p, t) /\ ms = <<>>
    BY <1>2, <1>4 DEF ReplyMsg
  <2>2. ms \in Seq(Message) /\ DOMAIN ms = {}
    BY <2>1
  <2>3. Writes(p, t, ms, Sent(p, t), SentOf(Closed(s)), tip) /\ \A v \in Trans : Silent(p, v, ms)
    BY <1>2, <1>3, <1>4, <2>2 DEF Writes, Silent, Sent
  <2>4. QED
    BY <1>2, <2>1, <2>2, <2>3
<1>5. CASE s.live /\ ~s.txD
  <2>1. PICK m \in Message :
            /\ ReplyMsg(p, t) = <<m>>
            /\ m.create # m.delete /\ m.inc = s.inc
            /\ Number(m) = 2 * s.inc + 1
            /\ For(p, t, m) /\ \A v \in Trans : For(p, v, m) => v = t
    BY <1>2, <1>5, ReplyShape
  <2>2. PICK ms \in Seq(Message) : ms = ReplyMsg(p, t) /\ DOMAIN ms = {1} /\ ms[1] = m
    <3>1. <<m>> \in Seq(Message) /\ DOMAIN <<m>> = {1} /\ <<m>>[1] = m
      OBVIOUS
    <3>2. QED
      BY <2>1, <3>1
  <2>3. Sent(p, t) = 2 * s.inc
    BY <1>2, <1>5 DEF Sent, SentOf
  <2>4. m.inc <= tip /\ Number(m) = Sent(p, t) + 1 /\ SentOf(Closed(s)) = Sent(p, t) + 1
    BY <1>2, <1>3, <2>1, <2>3
  <2>5. Writes(p, t, ms, Sent(p, t), SentOf(Closed(s)), tip)
    BY <2>1, <2>2, <2>4 DEF Writes
  <2>6. \A v \in Trans : v # t => Silent(p, v, ms)
    BY <2>1, <2>2 DEF Silent
  <2>7. QED
    BY <1>2, <2>2, <2>5, <2>6
<1>6. QED
  BY <1>4, <1>5

\* The message goes on to dmsg_state_cleanuprx.
LEMMA ToCleanup ==
  ASSUME TypeOK, NEW p \in Peers, cur[p].phase = "callback",
         cur' = [cur EXCEPT ![p].phase = "cleanup"]
  PROVE  /\ cur[p] # NoMsg /\ cur[p].t \in Trans
         /\ cur[p].create \in BOOLEAN /\ cur[p].delete \in BOOLEAN
         /\ cur' \in [Peers -> {NoMsg} \cup CoreMsg]
         /\ cur'[p] # NoMsg /\ cur'[p].phase = "cleanup" /\ cur'[p].t = cur[p].t
         /\ cur'[p].inc = cur[p].inc /\ cur'[p].create = cur[p].create
         /\ cur'[p].delete = cur[p].delete
         /\ cur'[Other(p)] = cur[Other(p)]
         /\ \A t \in Trans : Closing(p, t)' = Closing(p, t)
<1>1. cur[p] # NoMsg
  BY DEF NoMsg
<1>2. /\ cur[p] \in CoreMsg /\ cur[p].t \in Trans
      /\ cur[p].create \in BOOLEAN /\ cur[p].delete \in BOOLEAN
  BY <1>1, CurType
<1>3. PICK c, d : c \in CoreMsg /\ c = cur[p] /\ d = [c EXCEPT !.phase = "cleanup"]
  BY <1>2
<1>4. /\ d \in CoreMsg /\ d.phase = "cleanup" /\ d.t = c.t /\ d.inc = c.inc
      /\ d.create = c.create /\ d.delete = c.delete
  BY <1>3 DEF CoreMsg
<1>5. d # NoMsg
  BY <1>4 DEF NoMsg
<1>6. cur \in [Peers -> {NoMsg} \cup CoreMsg] /\ Other(p) \in Peers /\ Other(p) # p
  BY PeersPair DEF TypeOK
<1>7. cur' = [cur EXCEPT ![p] = d]
  BY <1>3
<1>8. cur'[p] = d /\ cur'[Other(p)] = cur[Other(p)] /\ cur' \in [Peers -> {NoMsg} \cup CoreMsg]
  BY <1>4, <1>6, <1>7
<1>9. \A t \in Trans : Closing(p, t)' = Closing(p, t)
  BY <1>1, <1>3, <1>4, <1>5, <1>8 DEF Closing
<1>10. QED
  BY <1>1, <1>2, <1>3, <1>4, <1>5, <1>8, <1>9

\* The callback of a CREATE of the other end answers it.
LEMMA CallbackAckStep ==
  ASSUME IInv, NEW p \in Peers, Callback(p), cur[p].create, cur[p].t[1] # p
  PROVE  IInv'
<1> DEFINE q == Other(p)
<1>0. PICK v : v = cur[p].t
  OBVIOUS
<1>1. /\ ~eof[p] /\ cur[p].phase = "callback"
      /\ st' = [st EXCEPT ![p][v].txC = TRUE] /\ Queue(p, ResultMsg(p, v))
      /\ conn' = IF v = <<q, "CONN">> THEN [conn EXCEPT ![p] = TRUE] ELSE conn
      /\ cur' = [cur EXCEPT ![p].phase = "cleanup"]
      /\ UNCHANGED <<cut, auth, err, eof, asserted>>
  <2>1. (cur[p].create /\ cur[p].t[1] # p) = TRUE
    OBVIOUS
  <2>2. QED
    BY <1>0, <2>1 DEF Callback, Running
<1>2. TypeOK /\ NoTransError /\ CurInv(p) /\ ConnInv(p) /\ EndInv(p)
  BY DEF IInv
<1>3. /\ cur[p] # NoMsg /\ v \in Trans
      /\ cur[p].create \in BOOLEAN /\ cur[p].delete \in BOOLEAN
      /\ cur' \in [Peers -> {NoMsg} \cup CoreMsg]
      /\ cur'[p] # NoMsg /\ cur'[p].phase = "cleanup" /\ cur'[p].t = v
      /\ cur'[p].inc = cur[p].inc /\ cur'[p].create = cur[p].create
      /\ cur'[p].delete = cur[p].delete
      /\ cur'[Other(p)] = cur[Other(p)]
      /\ \A t \in Trans : Closing(p, t)' = Closing(p, t)
  BY <1>0, <1>1, <1>2, ToCleanup
<1>4. StateInv(p, v) /\ UseInv(p, v) /\ v[1] # p
  BY <1>0, <1>3 DEF IInv
<1>5. st[p][v].live /\ st[p][v].inc = cur[p].inc /\ ~cur[p].delete /\ ~st[p][v].txC
  BY <1>0, <1>1, <1>2, <1>3 DEF CurInv
<1>6. PICK s \in State : s = st[p][v] /\ s.inc \in Nat /\ s.inc \in 1..MaxInc
  BY <1>2, <1>3, <1>4, <1>5, StateType DEF StateInv
<1>7. s.live /\ ~s.txC /\ ~s.txD /\ ~s.rxD /\ s.rxC
  BY <1>4, <1>5, <1>6 DEF StateInv
<1>8. PICK new : new = [s EXCEPT !.txC = TRUE]
  OBVIOUS
<1>9. /\ new \in State /\ new.live /\ new.txC /\ ~new.txD /\ ~new.rxD /\ new.rxC
      /\ new.inc = s.inc
  BY <1>7, <1>8 DEF State
<1>10. q \in Peers /\ q # p
  BY PeersPair
<1> HIDE DEF q
<1>11. /\ st'[p][v] = new /\ \A t \in Trans : t # v => st'[p][t] = st[p][t]
       /\ st' \in [Peers -> [Trans -> State]]
       /\ \A r \in Peers : r # p => st'[r] = st[r]
  <2>1. st' = [st EXCEPT ![p][v] = new]
    BY <1>1, <1>6, <1>8
  <2>2. QED
    BY <1>2, <1>3, <1>9, <2>1 DEF TypeOK
<1>12. PICK m : m = [msgid |-> v[2], reply |-> v[1] # p, create |-> TRUE, delete |-> FALSE,
                     inc |-> s.inc]
  OBVIOUS
<1>13. /\ m \in Message /\ m.create # m.delete /\ m.inc = s.inc /\ Number(m) = 2 * s.inc
       /\ For(p, v, m) /\ \A t \in Trans : For(p, t, m) => t = v
  <2>1. v[2] \in Addrs /\ (v[1] # p) \in BOOLEAN
    BY <1>3 DEF Trans
  <2>2. m \in Message /\ m.create # m.delete /\ m.inc = s.inc /\ Number(m) = 2 * s.inc
    BY <1>6, <1>12, <2>1 DEF Message, Number
  <2>3. m.msgid = v[2] /\ m.reply = (v[1] # p)
    BY <1>12
  <2>4. QED
    BY <1>3, <2>2, <2>3, MsgFor
<1>14. PICK ms \in Seq(Message) : ms = <<m>> /\ DOMAIN ms = {1} /\ ms[1] = m
  <2>1. <<m>> \in Seq(Message) /\ DOMAIN <<m>> = {1} /\ <<m>>[1] = m
    BY <1>13
  <2>2. QED
    BY <2>1
<1>15. Queue(p, ms)
  <2>1. ResultMsg(p, v) = <<m>>
    BY <1>6, <1>7, <1>12 DEF ResultMsg, Msg
  <2>2. QED
    BY <1>1, <1>14, <2>1
<1>16. wire' \in [Peers -> Seq(Message)]
  <2>1. wire[p] \in Seq(Message) /\ wire[p] \o ms \in Seq(Message)
    BY <1>2 DEF TypeOK
  <2>2. QED
    BY <1>2, <1>15, <2>1 DEF Queue, TypeOK
<1>17. /\ conn' \in [Peers -> BOOLEAN] /\ conn'[q] = conn[q]
       /\ v # <<q, "CONN">> => conn'[p] = conn[p]
  BY <1>1, <1>2, <1>10 DEF TypeOK
<1>18. TypeOK' /\ NoTransError'
  BY <1>1, <1>2, <1>3, <1>11, <1>16, <1>17 DEF TypeOK, NoTransError
<1>19. \A t \in Trans : st'[p][t].inc = st[p][t].inc /\ st[p][t].inc <= st'[p][t].inc
  <2>1. SUFFICES ASSUME NEW t \in Trans
                 PROVE  st'[p][t].inc = st[p][t].inc /\ st[p][t].inc <= st'[p][t].inc
    OBVIOUS
  <2>2. st[p][t].inc \in Nat
    BY <1>2, StateType
  <2>3. st'[p][t].inc = st[p][t].inc
    BY <1>6, <1>9, <1>11
  <2>4. QED
    BY <2>2, <2>3
<1>20. /\ st'[Other(p)] = st[Other(p)] /\ cur'[Other(p)] = cur[Other(p)] /\ err' = err
       /\ conn'[Other(p)] = conn[Other(p)] /\ eof' = eof /\ cut' = cut /\ auth' = auth
  BY <1>1, <1>3, <1>10, <1>11, <1>17 DEF q
<1>21. Sent(p, v) = 2 * s.inc - 1 /\ Sent(p, v)' = 2 * s.inc /\ Seen(p, v)' = Seen(p, v)
  BY <1>3, <1>6, <1>7, <1>9, <1>11 DEF Sent, SentOf, Seen, SeenOf
<1>22. ASSUME NEW t \in Trans, t # v
       PROVE  Sent(p, t)' = Sent(p, t) /\ Seen(p, t)' = Seen(p, t)
  BY <1>3, <1>11, <1>22 DEF Sent, Seen
<1>23. \A r \in Peers, t \in Trans : WireInv(r, t)'
  <2>1. ASSUME NEW t \in Trans
        PROVE  Writes(p, t, ms, Sent(p, t), Sent(p, t)', st'[t[1]][t].inc)
    <3>1. CASE t = v
      <4>1. t[1] \in Peers /\ st[t[1]][t].inc \in Nat
        BY <1>2, StateType DEF Trans
      <4>2. st[p][t].inc <= st[t[1]][t].inc /\ st'[t[1]][t] = st[t[1]][t]
        BY <1>4, <1>11, <3>1, <4>1 DEF UseInv
      <4>3. m.inc <= st'[t[1]][t].inc
        BY <1>6, <1>13, <3>1, <4>2
      <4>4. Sent(p, t)' = Sent(p, t) + 1 /\ Number(m) = Sent(p, t) + 1
        BY <1>6, <1>13, <1>21, <3>1
      <4>5. QED
        BY <1>13, <1>14, <3>1, <4>3, <4>4 DEF Writes
    <3>2. CASE t # v
      BY <1>13, <1>14, <1>22, <3>2 DEF Writes
    <3>3. QED
      BY <3>1, <3>2
  <2>2. \A t \in Trans : Seen(p, t)' = Seen(p, t)
    BY <1>21, <1>22
  <2>3. \A r \in Peers, t \in Trans : WireInv(r, t)
    BY DEF IInv
  <2>4. QED
    BY <1>2, <1>15, <1>18, <1>19, <1>20, <2>1, <2>2, <2>3, WireStep, Zenon DEF Writes
<1>24. CurInv(p)'
  BY <1>3, <1>5, <1>6, <1>9, <1>11 DEF CurInv
<1>25. ConnInv(p)'
  <2>1. <<Other(p), "CONN">> \in Trans
    BY <1>10 DEF q, Trans, Addrs
  <2>2. CASE v = <<Other(p), "CONN">>
    BY <1>3, <1>5, <1>9, <1>11, <2>2 DEF ConnInv, Closing
  <2>3. CASE v # <<Other(p), "CONN">>
    BY <1>2, <1>3, <1>11, <1>17, <2>1, <2>3 DEF ConnInv, Closing, q
  <2>4. QED
    BY <2>2, <2>3
<1>26. EndInv(p)'
  <2>1. <<p, "CONN">> \in Trans /\ <<p, "CONN">> # v
    BY <1>4 DEF Trans, Addrs
  <2>2. QED
    BY <1>1, <1>2, <1>11, <1>20, <2>1 DEF EndInv
<1>27. ASSUME NEW t \in Trans PROVE StateInv(p, t)' /\ UseInv(p, t)'
  <2>1. StateInv(p, t) /\ UseInv(p, t) /\ t[1] \in Peers
    BY DEF IInv, Trans
  <2>2. StateInv(p, t)'
    <3>1. CASE t = v
      BY <1>4, <1>6, <1>9, <1>11, <2>1, <3>1 DEF StateInv
    <3>2. CASE t # v
      <4>1. st[p][t].live => st[p][t].txC
        BY <1>0, <2>1, <3>2 DEF StateInv
      <4>2. QED
        BY <1>11, <2>1, <3>2, <4>1 DEF StateInv
    <3>3. QED
      BY <3>1, <3>2
  <2>3. UseInv(p, t)'
    BY <1>11, <1>19, <2>1 DEF UseInv
  <2>4. QED
    BY <2>2, <2>3
<1>28. QED
  BY <1>18, <1>19, <1>20, <1>23, <1>24, <1>25, <1>26, <1>27, EndStep, Zenon

\* Every other callback closes what CallbackCloses names.
LEMMA CallbackReplyStep ==
  ASSUME IInv, NEW p \in Peers, Callback(p), ~(cur[p].create /\ cur[p].t[1] # p)
  PROVE  IInv'
<1> DEFINE q == Other(p)
<1>1. PICK v, ends, relay :
        v = cur[p].t /\ ends = CallbackCloses(p) /\ relay = <<p, "SPAN">>
  OBVIOUS
<1>2. PICK a, b : /\ a = (IF relay \in ends \ {v} THEN ReplyMsg(p, relay) ELSE <<>>)
                  /\ b = (IF v \in ends THEN ReplyMsg(p, v) ELSE <<>>)
  OBVIOUS
<1>3. /\ ~eof[p] /\ cur[p].phase = "callback"
      /\ st' = [st EXCEPT ![p] = [t \in Trans |-> IF t \in ends THEN Closed(st[p][t])
                                                                ELSE st[p][t]]]
      /\ Queue(p, a \o b)
      /\ conn' = IF v = <<q, "CONN">> THEN [conn EXCEPT ![p] = FALSE] ELSE conn
      /\ cur' = [cur EXCEPT ![p].phase = "cleanup"]
      /\ UNCHANGED <<cut, auth, err, eof, asserted>>
  <2>1. (cur[p].create /\ cur[p].t[1] # p) = FALSE
    OBVIOUS
  <2>2. QED
    BY <1>1, <1>2, <2>1 DEF Callback, Running
<1>4. TypeOK /\ NoTransError /\ CurInv(p) /\ ConnInv(p) /\ EndInv(p)
  BY DEF IInv
<1>5. /\ cur[p] # NoMsg /\ v \in Trans
      /\ cur[p].create \in BOOLEAN /\ cur[p].delete \in BOOLEAN
      /\ cur' \in [Peers -> {NoMsg} \cup CoreMsg]
      /\ cur'[p] # NoMsg /\ cur'[p].phase = "cleanup" /\ cur'[p].t = v
      /\ cur'[p].inc = cur[p].inc /\ cur'[p].create = cur[p].create
      /\ cur'[p].delete = cur[p].delete
      /\ cur'[Other(p)] = cur[Other(p)]
      /\ \A t \in Trans : Closing(p, t)' = Closing(p, t)
  BY <1>1, <1>3, <1>4, ToCleanup
<1>6. /\ cur[p].delete => v \in ends
      /\ ends # {} => cur[p].delete
      /\ ends \subseteq {v, relay} /\ relay \in Trans /\ ends \subseteq Trans
  <2>1. relay \in Trans
    BY <1>1 DEF Trans, Addrs
  <2>2. QED
    BY <1>1, <1>5, <2>1 DEF CallbackCloses
<1>7. q \in Peers /\ q # p
  BY PeersPair
<1> HIDE DEF q
\* a direction that was never opened is only met before the answer
<1>8. ASSUME NEW t \in Trans PROVE st[p][t].live => st[p][t].txC /\ ~st[p][t].rxD
  <2>1. StateInv(p, t)
    BY DEF IInv
  <2>2. cur[p].create /\ cur[p].t = t => t[1] = p
    OBVIOUS
  <2>3. QED
    BY <2>1, <2>2 DEF StateInv
<1>9. /\ st' \in [Peers -> [Trans -> State]]
      /\ \A t \in Trans : t \in ends => st'[p][t] = Closed(st[p][t])
      /\ \A t \in Trans : t \notin ends => st'[p][t] = st[p][t]
      /\ \A r \in Peers : r # p => st'[r] = st[r]
  <2>1. st \in [Peers -> [Trans -> State]]
    BY <1>4 DEF TypeOK
  <2>2. PICK new : new = [t \in Trans |-> IF t \in ends THEN Closed(st[p][t]) ELSE st[p][t]]
    OBVIOUS
  <2>3. new \in [Trans -> State]
    <3>1. ASSUME NEW t \in Trans PROVE Closed(st[p][t]) \in State /\ st[p][t] \in State
      BY <1>8, <2>1, ClosedShape
    <3>2. QED
      BY <2>2, <3>1
  <2>4. st' = [st EXCEPT ![p] = new]
    BY <1>3, <2>2
  <2>5. st'[p] = new /\ st' \in [Peers -> [Trans -> State]]
        /\ \A r \in Peers : r # p => st'[r] = st[r]
    BY <2>1, <2>3, <2>4
  <2>6. QED
    BY <2>2, <2>5
<1>10. ASSUME NEW t \in Trans
       PROVE  /\ st'[p][t].live = st[p][t].live /\ st'[p][t].inc = st[p][t].inc
              /\ st'[p][t].rxC = st[p][t].rxC /\ st'[p][t].rxD = st[p][t].rxD
              /\ st[p][t].live => st'[p][t].txC
              /\ st[p][t].live /\ t \in ends => st'[p][t].txD
              /\ ~st[p][t].live => st'[p][t] = st[p][t]
              /\ Seen(p, t)' = Seen(p, t)
              /\ Sent(p, t)' = IF t \in ends THEN SentOf(Closed(st[p][t])) ELSE Sent(p, t)
  <2>1. CASE t \notin ends
    BY <1>5, <1>8, <1>9, <2>1 DEF Seen, Sent
  <2>2. CASE t \in ends
    <3>1. PICK s \in State : s = st[p][t] /\ (s.live => ~s.rxD)
      BY <1>4, <1>8, StateType
    <3>2. PICK new : new = Closed(s) /\ new = st'[p][t]
      BY <1>9, <2>2, <3>1
    <3>3. /\ new.live = s.live /\ new.inc = s.inc /\ new.rxC = s.rxC /\ new.rxD = s.rxD
          /\ s.txC => new.txC
          /\ s.live => new.txD
          /\ ~s.live => new = s
          /\ \A closing : SeenOf(new, closing) = SeenOf(s, closing)
      <4>1. /\ Closed(s).live = s.live /\ Closed(s).inc = s.inc
            /\ Closed(s).rxC = s.rxC /\ Closed(s).rxD = s.rxD
            /\ s.txC => Closed(s).txC
            /\ s.live => Closed(s).txD
            /\ ~s.live => Closed(s) = s
            /\ \A closing : SeenOf(Closed(s), closing) = SeenOf(s, closing)
        BY <3>1, ClosedShape
      <4>2. QED
        BY <3>2, <4>1, Zenon
    <3>4. Seen(p, t)' = Seen(p, t) /\ Sent(p, t)' = SentOf(Closed(st[p][t]))
      BY <1>5, <3>1, <3>2, <3>3 DEF Seen, Sent
    <3>5. QED
      BY <1>8, <2>2, <3>1, <3>2, <3>3, <3>4
  <2>3. QED
    BY <2>1, <2>2
<1>11. ASSUME NEW t \in Trans
       PROVE  t[1] \in Peers /\ st[t[1]][t].inc \in Nat /\ st'[t[1]][t].inc = st[t[1]][t].inc
              /\ st[p][t].inc <= st[t[1]][t].inc /\ st[p][t].inc <= st'[p][t].inc
  <2>1. t[1] \in Peers /\ UseInv(p, t)
    BY DEF IInv, Trans
  <2>2. st[t[1]][t].inc \in Nat /\ st[p][t].inc \in Nat
    BY <1>4, <2>1, StateType
  <2>3. st'[t[1]][t].inc = st[t[1]][t].inc
    BY <1>9, <1>10, <2>1
  <2>4. st[p][t].inc <= st'[p][t].inc
    BY <1>10, <2>2
  <2>5. QED
    BY <2>1, <2>2, <2>3, <2>4 DEF UseInv
<1>12. ASSUME NEW t \in Trans
       PROVE  /\ ReplyMsg(p, t) \in Seq(Message)
              /\ \A x \in Trans : x # t => Silent(p, x, ReplyMsg(p, t))
              /\ Writes(p, t, ReplyMsg(p, t), Sent(p, t), SentOf(Closed(st[p][t])),
                        st[t[1]][t].inc)
  BY <1>8, <1>11, ReplyWrites
<1>13. /\ a \in Seq(Message) /\ b \in Seq(Message) /\ (a \o b) \in Seq(Message)
       /\ \A x \in Trans : x # relay \/ relay \notin ends \/ relay = v => Silent(p, x, a)
       /\ \A x \in Trans : x # v \/ v \notin ends => Silent(p, x, b)
  <2>1. PICK e : e = <<>> /\ e \in Seq(Message) /\ DOMAIN e = {}
    <3>1. <<>> \in Seq(Message) /\ DOMAIN <<>> = {}
      OBVIOUS
    <3>2. QED
      BY <3>1
  <2>2. \A x : Silent(p, x, e)
    BY <2>1 DEF Silent
  <2>3. /\ a \in Seq(Message)
        /\ \A x \in Trans : x # relay \/ relay \notin ends \/ relay = v => Silent(p, x, a)
    BY <1>2, <1>6, <1>12, <2>1, <2>2
  <2>4. /\ b \in Seq(Message)
        /\ \A x \in Trans : x # v \/ v \notin ends => Silent(p, x, b)
    BY <1>2, <1>5, <1>12, <2>1, <2>2
  <2>5. (a \o b) \in Seq(Message)
    BY <2>3, <2>4
  <2>6. QED
    BY <2>3, <2>4, <2>5
<1>14. ASSUME NEW t \in Trans
       PROVE  Writes(p, t, a \o b, Sent(p, t), Sent(p, t)', st'[t[1]][t].inc)
  <2>1. PICK z, y, tip : z = Sent(p, t) /\ y = Sent(p, t)' /\ tip = st'[t[1]][t].inc
    OBVIOUS
  <2>2. CASE t \in ends /\ t = v
    <3>1. Writes(p, t, b, z, y, tip)
      BY <1>2, <1>10, <1>11, <1>12, <2>1, <2>2
    <3>2. Silent(p, t, a)
      BY <1>13, <2>2
    <3>3. QED
      BY <1>13, <2>1, <3>1, <3>2, WritesConcat
  <2>3. CASE t \in ends /\ t # v
    <3>1. t = relay /\ relay \in ends \ {v}
      BY <1>6, <2>3
    <3>2. Writes(p, t, a, z, y, tip)
      BY <1>2, <1>10, <1>11, <1>12, <2>1, <2>3, <3>1
    <3>3. Silent(p, t, b)
      BY <1>13, <2>3
    <3>4. QED
      BY <1>13, <2>1, <3>2, <3>3, WritesConcat
  <2>4. CASE t \notin ends
    <3>1. Silent(p, t, a) /\ Silent(p, t, b)
      BY <1>13, <2>4
    <3>2. Writes(p, t, a, z, y, tip)
      BY <1>10, <2>1, <2>4, <3>1 DEF Writes, Silent
    <3>3. QED
      BY <1>13, <2>1, <3>1, <3>2, WritesConcat
  <2>5. QED
    BY <2>2, <2>3, <2>4
<1>15. PICK ms \in Seq(Message) : ms = a \o b
  BY <1>13
<1>16. wire' \in [Peers -> Seq(Message)]
  <2>1. wire[p] \in Seq(Message) /\ wire[p] \o ms \in Seq(Message)
    BY <1>4 DEF TypeOK
  <2>2. QED
    BY <1>3, <1>4, <1>15, <2>1 DEF Queue, TypeOK
<1>17. /\ conn' \in [Peers -> BOOLEAN] /\ conn'[q] = conn[q]
       /\ IF v = <<q, "CONN">> THEN ~conn'[p] ELSE conn'[p] = conn[p]
  BY <1>3, <1>4, <1>7 DEF TypeOK
<1>18. TypeOK' /\ NoTransError'
  BY <1>3, <1>4, <1>5, <1>9, <1>16, <1>17 DEF TypeOK, NoTransError
<1>19. /\ st'[Other(p)] = st[Other(p)] /\ cur'[Other(p)] = cur[Other(p)] /\ err' = err
       /\ conn'[Other(p)] = conn[Other(p)] /\ eof' = eof /\ cut' = cut /\ auth' = auth
  BY <1>3, <1>5, <1>7, <1>9, <1>17 DEF q
<1>20. \A r \in Peers, t \in Trans : WireInv(r, t)'
  <2>1. \A r \in Peers, t \in Trans : WireInv(r, t)
    BY DEF IInv
  <2>2. Queue(p, ms) /\ \A t \in Trans : Writes(p, t, ms, Sent(p, t), Sent(p, t)', st'[t[1]][t].inc)
    BY <1>3, <1>14, <1>15
  <2>3. \A t \in Trans : Seen(p, t)' = Seen(p, t) /\ st[p][t].inc <= st'[p][t].inc
    BY <1>10, <1>11
  <2>4. QED
    BY <1>4, <1>18, <1>19, <2>1, <2>2, <2>3, WireStep, Zenon DEF Writes
<1>21. CurInv(p)'
  <2>1. st[p][v].live /\ st[p][v].inc = cur[p].inc /\ (cur[p].delete /\ ~err[p] => st[p][v].rxC)
    BY <1>1, <1>4, <1>5 DEF CurInv
  <2>2. /\ st'[p][v].live /\ st'[p][v].inc = st[p][v].inc /\ st'[p][v].rxC = st[p][v].rxC
        /\ cur[p].delete => st'[p][v].txD
    BY <1>5, <1>6, <1>10, <2>1
  <2>3. ~(cur'[p].create /\ v[1] # p)
    BY <1>1, <1>5
  <2>4. QED
    BY <1>5, <1>19, <2>1, <2>2, <2>3 DEF CurInv
<1>22. ConnInv(p)'
  <2>1. <<Other(p), "CONN">> \in Trans
    BY <1>7 DEF q, Trans, Addrs
  <2>2. CASE v = <<Other(p), "CONN">>
    BY <1>17, <2>2 DEF ConnInv, q
  <2>3. CASE v # <<Other(p), "CONN">>
    <3>1. conn'[p] = conn[p]
      BY <1>17, <2>3 DEF q
    <3>2. st'[p][<<Other(p), "CONN">>].live = st[p][<<Other(p), "CONN">>].live
      BY <1>10, <2>1
    <3>3. cur'[p].t # <<Other(p), "CONN">>
      BY <1>5, <2>3
    <3>4. QED
      BY <1>4, <3>1, <3>2, <3>3 DEF ConnInv, Closing
  <2>4. QED
    BY <2>2, <2>3
<1>23. EndInv(p)'
  <2>1. <<p, "CONN">> \in Trans
    BY DEF Trans, Addrs
  <2>2. ~auth[p] => st[p][<<p, "CONN">>] = Free(0) /\ ~st[p][<<p, "CONN">>].live
    BY <1>4 DEF EndInv, Free
  <2>3. ~auth[p] => st'[p][<<p, "CONN">>] = Free(0)
    BY <1>10, <2>1, <2>2
  <2>4. QED
    BY <1>3, <1>19, <2>3 DEF EndInv
<1>24. ASSUME NEW t \in Trans PROVE StateInv(p, t)' /\ UseInv(p, t)'
  <2>1. StateInv(p, t) /\ UseInv(p, t)
    BY DEF IInv
  <2>2. StateInv(p, t)'
    BY <1>10, <2>1 DEF StateInv
  <2>3. UseInv(p, t)'
    BY <1>10, <1>11 DEF UseInv
  <2>4. QED
    BY <2>2, <2>3
<1>25. \A t \in Trans : st[p][t].inc <= st'[p][t].inc
  BY <1>11
<1>26. QED
  BY <1>18, <1>19, <1>20, <1>21, <1>22, <1>23, <1>24, <1>25, EndStep, Zenon

LEMMA CallbackStep ==
  ASSUME IInv, NEW p \in Peers, Callback(p)
  PROVE  IInv'
BY CallbackAckStep, CallbackReplyStep

-----------------------------------------------------------------------------
LEMMA InitInv == Init => IInv
<1>1. SUFFICES ASSUME Init PROVE IInv
  OBVIOUS
<1>2. Free(0) \in State /\ ~Free(0).live /\ Free(0).inc = 0
  BY IncAssumption DEF Free, State
<1>3. \A p \in Peers, t \in Trans : st[p][t] = Free(0)
  BY <1>1 DEF Init
<1>4. \A p \in Peers : /\ cur[p] = NoMsg /\ wire[p] = <<>> /\ conn[p] = FALSE /\ eof[p] = FALSE
  BY <1>1 DEF Init
<1>5. TypeOK /\ NoTransError
  <2>1. <<>> \in Seq(Message)
    OBVIOUS
  <2>2. st \in [Peers -> [Trans -> State]]
    BY <1>1, <1>2 DEF Init
  <2>3. QED
    BY <1>1, <2>1, <2>2 DEF Init, TypeOK, NoTransError
<1>6. ASSUME NEW p \in Peers PROVE CurInv(p) /\ ConnInv(p) /\ EndInv(p)
  <2>1. <<p, "CONN">> \in Trans
    BY DEF Trans, Addrs
  <2>2. QED
    BY <1>3, <1>4, <2>1 DEF CurInv, ConnInv, EndInv
<1>7. ASSUME NEW p \in Peers, NEW t \in Trans PROVE StateInv(p, t) /\ WireInv(p, t) /\ UseInv(p, t)
  <2>1. Other(p) \in Peers /\ t[1] \in Peers
    BY PeersPair DEF Trans
  <2>2. StateInv(p, t)
    BY <1>2, <1>3 DEF StateInv
  <2>3. UseInv(p, t)
    BY <1>2, <1>3, <2>1 DEF UseInv
  <2>4. Seen(Other(p), t) = 1 /\ Sent(p, t) = 1
    BY <1>2, <1>3, <2>1 DEF Seen, SeenOf, Sent, SentOf
  <2>5. PICK w : w = wire[p] /\ DOMAIN w = {}
    BY <1>4
  <2>6. ASSUME NEW top, NEW broken, NEW dead PROVE Stream(p, t, w, 1, 1, top, broken, dead)
    BY <2>5 DEF Stream, Written, Unread, Whole
  <2>7. WireInv(p, t)
    BY <2>4, <2>5, <2>6 DEF WireInv
  <2>8. QED
    BY <2>2, <2>3, <2>7
<1>8. QED
  BY <1>5, <1>6, <1>7 DEF IInv

LEMMA NextInv == IInv /\ [Next]_vars => IInv'
<1> SUFFICES ASSUME IInv, [Next]_vars PROVE IInv'
  OBVIOUS
<1>1. ASSUME NEW p \in Peers, AuthSignal(p) PROVE IInv'
  BY <1>1, AuthSignalStep
<1>2. ASSUME NEW p \in Peers, OpenSpan(p) PROVE IInv'
  BY <1>2, OpenSpanStep
<1>3. ASSUME NEW p \in Peers, CloseSpan(p) PROVE IInv'
  BY <1>3, CloseSpanStep
<1>4. ASSUME NEW p \in Peers, Receive(p) PROVE IInv'
  BY <1>4, ReceiveStep
<1>5. ASSUME NEW p \in Peers, Callback(p) PROVE IInv'
  BY <1>5, CallbackStep
<1>6. ASSUME NEW p \in Peers, CleanupRx(p) PROVE IInv'
  BY <1>6, CleanupRxStep
<1>7. ASSUME NEW p \in Peers, ReadEOF(p) \/ ReadError(p) PROVE IInv'
  BY <1>7, ReadErrorStep
<1>8. ASSUME NEW p \in Peers, SimulateFailure(p) PROVE IInv'
  BY <1>8, SimulateFailureStep
<1>9. ASSUME NEW p \in Peers, SetEOF(p) PROVE IInv'
  BY <1>9, SetEOFStep
<1>10. ASSUME NEW p \in Peers, CloseSocket(p) PROVE IInv'
  BY <1>10, CloseSocketStep
<1>11. CASE Break
  BY <1>11, BreakStep
<1>12. CASE UNCHANGED vars
  <2>1. TypeOK' /\ NoTransError'
    BY <1>12 DEF IInv, TypeOK, NoTransError, vars
  <2>2. \A p \in Peers : CurInv(p)' /\ ConnInv(p)' /\ EndInv(p)'
    BY <1>12 DEF IInv, CurInv, ConnInv, EndInv, Closing, vars
  <2>3. \A p \in Peers, t \in Trans : StateInv(p, t)' /\ WireInv(p, t)' /\ UseInv(p, t)'
    BY <1>12 DEF IInv, StateInv, WireInv, UseInv, Seen, Sent, Closing, vars
  <2>4. QED
    BY <2>1, <2>2, <2>3 DEF IInv
<1>13. CASE Finished
  BY <1>12, <1>13 DEF Finished
<1>14. QED
  BY <1>1, <1>2, <1>3, <1>4, <1>5, <1>6, <1>7, <1>8, <1>9, <1>10, <1>11, <1>12, <1>13 DEF Next

-----------------------------------------------------------------------------
(* Theorems *)

\* The invariant of a connection: the states of both ends, the messages
\* between them and the message in each core thread always fit together.
THEOREM Invariant == Spec => []IInv
<1>1. Init => IInv
  BY InitInv
<1>2. IInv /\ [Next]_vars => IInv'
  BY NextInv
<1>3. QED
  BY <1>1, <1>2, PTL DEF Spec

\* The states, queues and flags of a connection keep their types, the uses of
\* a msgid within their bound.
THEOREM TypeCorrect == Spec => []TypeOK
<1>1. IInv => TypeOK
  BY DEF IInv
<1>2. QED
  BY <1>1, Invariant, PTL

\* No message meets a state that dmsg_state_msgrx refuses, whatever the order
\* of the DELETEs of the two directions, of breaks and of the reuse of msgids.
THEOREM NoAssertion == Spec => []NoTransError
<1>1. IInv => NoTransError
  BY DEF IInv
<1>2. QED
  BY <1>1, Invariant, PTL

\* The state a received message carries is neither freed nor used again before
\* dmsg_state_cleanuprx is done with the message.
THEOREM NoDangling == Spec => []NoDanglingState
<1>1. IInv => NoDanglingState
  BY DEF IInv, NoDanglingState, CurInv
<1>2. QED
  BY <1>1, Invariant, PTL

\* A connection at EOF has no state left and is not in connq.
THEOREM CleanEOF == Spec => []NothingAfterEOF
<1>1. IInv => NothingAfterEOF
  BY DEF IInv, NothingAfterEOF, EndInv
<1>2. QED
  BY <1>1, Invariant, PTL

\* A stream with nothing in it that is neither broken nor in error: what was
\* written last is what was taken last.
LEMMA EmptyStream ==
  ASSUME IInv, NEW p \in Peers, NEW t \in Trans,
         wire[p] = <<>>, ~cut[p], ~err[Other(p)]
  PROVE  Seen(Other(p), t) = Sent(p, t)
<1> DEFINE a == Seen(Other(p), t)
           z == Sent(p, t)
<1>1. a \in Int /\ z \in Int
  BY PeersPair, NumberType DEF IInv
<1>2. a <= z /\ Whole(p, t, <<>>, a, z)
  BY DEF IInv, WireInv, Stream
<1>3. (a + 1)..z = {}
  <2>1. DOMAIN <<>> = {}
    OBVIOUS
  <2>2. QED
    BY <1>2, <2>1, Zenon DEF Whole
<1> HIDE DEF a, z
<1>4. a = z
  BY <1>1, <1>2, <1>3
<1>5. QED
  BY <1>4 DEF a, z

\* The numbers of the two directions leave two ends that have taken everything
\* no other choice.
LEMMA NumbersAgree ==
  ASSUME NEW s \in State, NEW r \in State,
         s.live => s.txC, r.live => r.txC,
         s.live => ~s.rxD, r.live => ~r.rxD, s.rxC \/ (r.live => r.rxC),
         SeenOf(r, FALSE) = SentOf(s), SeenOf(s, FALSE) = SentOf(r), s.live
  PROVE  /\ r.live /\ r.inc = s.inc
         /\ s.txC /\ ~s.txD /\ s.rxC /\ ~s.rxD
<1>1. s.inc \in Nat /\ r.inc \in Nat
  BY IncAssumption DEF State
<1>2. CASE s.rxC
  <2>1. SentOf(r) = 2 * s.inc
    BY <1>2 DEF SeenOf
  <2>2. r.live /\ ~r.txD /\ r.inc = s.inc
    BY <1>1, <2>1 DEF SentOf
  <2>3. ~s.txD
    BY <1>1, <2>2 DEF SentOf, SeenOf
  <2>4. QED
    BY <1>2, <2>2, <2>3
<1>3. CASE ~s.rxC
  <2>1. SentOf(r) = 2 * s.inc - 1
    BY <1>3 DEF SeenOf
  <2>2. SentOf(s) >= 2 * s.inc
    BY <1>1 DEF SentOf
  <2>3. (~r.live \/ r.txD) /\ r.inc < s.inc
    BY <1>1, <2>1 DEF SentOf
  <2>4. SeenOf(r, FALSE) <= 2 * r.inc + 1
    BY <1>1 DEF SeenOf
  <2>5. SentOf(s) \in Int /\ SentOf(s) <= 2 * r.inc + 1
    BY <2>4, NumberOfType
  <2>6. \A i, j \in Nat, x \in Int : ~(x >= 2 * i /\ j < i /\ x <= 2 * j + 1)
    OBVIOUS
  <2>7. QED
    BY <1>1, <2>2, <2>3, <2>5, <2>6
<1>4. QED
  BY <1>2, <1>3

\* Two ends with nothing under way have the same transactions: each is open in
\* both directions at both ends, as the same use of its msgid, or freed at
\* both, however their CREATEs, DELETEs and reuses of msgids crossed before.
THEOREM EndsAgree == Spec => []AgreeAtRest
<1>1. IInv => AgreeAtRest
  <2> SUFFICES ASSUME IInv, NEW p \in Peers, NEW t \in Trans, st[p][t].live,
                      \A q \in Peers : Reading(q) /\ ~err[q] /\ ~cut[q] /\ wire[q] = <<>>
               PROVE  /\ st[Other(p)][t].live
                      /\ st[Other(p)][t].inc = st[p][t].inc
                      /\ st[p][t].txC /\ ~st[p][t].txD
                      /\ st[p][t].rxC /\ ~st[p][t].rxD
    BY DEF AgreeAtRest
  <2>1. Other(p) \in Peers /\ Other(Other(p)) = p
    BY PeersPair
  <2>2. cur[p] = NoMsg /\ cur[Other(p)] = NoMsg
    BY <2>1 DEF Reading
  <2>3. ~Closing(p, t) /\ ~Closing(Other(p), t)
    BY <2>2 DEF Closing
  <2>4. /\ Seen(Other(p), t) = Sent(p, t)
        /\ Seen(p, t) = Sent(Other(p), t)
    BY <2>1, EmptyStream
  <2>5. /\ SeenOf(st[Other(p)][t], FALSE) = SentOf(st[p][t])
        /\ SeenOf(st[p][t], FALSE) = SentOf(st[Other(p)][t])
    BY <2>3, <2>4 DEF Seen, Sent, SeenOf
  <2>6. st[p][t] \in State /\ st[Other(p)][t] \in State
    BY <2>1, StateType DEF IInv
  <2>7. \A q \in {p, Other(p)} : st[q][t].live => /\ st[q][t].txC /\ ~st[q][t].rxD
                                                  /\ t[1] # q => st[q][t].rxC
    BY <2>1, <2>2 DEF IInv, StateInv
  <2>8. st[p][t].rxC \/ (st[Other(p)][t].live => st[Other(p)][t].rxC)
    BY <2>1, <2>7, PeersPair
  <2>9. QED
    BY <2>5, <2>6, <2>7, <2>8, NumbersAgree
<1>2. QED
  BY <1>1, Invariant, PTL

\* The teardown of a broken connection always finds a transaction it can fail
\* or none at all: it never waits for a state that nobody would close.
THEOREM TeardownProceeds == Spec => []FailureNeverStuck
<1>1. IInv => FailureNeverStuck
  BY DEF IInv, FailureNeverStuck, StateInv, Victims, StateRd, StateWr
<1>2. QED
  BY <1>1, Invariant, PTL
=============================================================================
