--------------------------- MODULE DmsgTxnProofs ---------------------------
(* Dmsg implements DmsgTxn, for every bound on the use of a msgid. *)
EXTENDS DmsgProofs

-----------------------------------------------------------------------------
(* The steps of DmsgTxn, by the phases of the refinement mapping *)

\* What p sends moves on to phase new in the uses xs.
SentMoves(p, xs, new) ==
  /\ \A r \in Peers, y \in Uses :
       SentPhase(r, y)' = IF r = p /\ y \in xs THEN new ELSE SentPhase(r, y)
  /\ \A r \in Peers, y \in Uses : SeenPhase(r, y)' = SeenPhase(r, y)
  /\ err' = err

\* What p sees moves on to phase new in the use x.
SeenMoves(p, x, new) ==
  /\ \A r \in Peers, y \in Uses :
       SeenPhase(r, y)' = IF r = p /\ y = x THEN new ELSE SeenPhase(r, y)
  /\ \A r \in Peers, y \in Uses : SentPhase(r, y)' = SentPhase(r, y)
  /\ err' = err

\* The earlier uses of the msgid of x are over at p.
EarlierOver(p, x) ==
  \A y \in Uses : y[1] = x[1] /\ y[2] = x[2] /\ y[3] < x[3] =>
                    SentPhase(p, y) = "closed" /\ SeenPhase(p, y) = "closed"

LEMMA TxnOpen ==
  ASSUME NEW p \in Peers, NEW x \in Uses, SentPhase(p, x) = "idle",
         IF p = x[1] THEN EarlierOver(p, x) ELSE SeenPhase(p, x) # "idle",
         SentMoves(p, {x}, "open")
  PROVE  Txn!AbsNext
<1> DEFINE sent == [r \in Peers |-> [y \in Uses |-> SentPhase(r, y)]]
           seen == [r \in Peers |-> [y \in Uses |-> SeenPhase(r, y)]]
           lost == {r \in Peers : err[r]}
<1>1. Txn!Txns = Uses
  BY DEF Txn!Txns, Uses
<1>2. sent[p][x] = "idle"
  OBVIOUS
<1>3. IF p = Txn!Starter(x) THEN \A y \in Txn!Earlier(x) : Txn!Over(p, y)
                            ELSE seen[p][x] # "idle"
  BY <1>1 DEF EarlierOver, Txn!Starter, Txn!Earlier, Txn!Over
<1>4. sent' = [sent EXCEPT ![p][x] = "open"] /\ UNCHANGED <<seen, lost>>
  BY DEF SentMoves
<1>5. Txn!Open(p, x)
  BY <1>2, <1>3, <1>4 DEF Txn!Open
<1>6. QED
  BY <1>1, <1>5 DEF Txn!AbsNext

LEMMA TxnClose ==
  ASSUME NEW p \in Peers, NEW x \in Uses, NEW w \in Uses,
         SentPhase(p, x) = "open", SentPhase(p, w) = "open",
         SentMoves(p, {x, w}, "closed")
  PROVE  Txn!AbsNext
<1> DEFINE sent == [r \in Peers |-> [y \in Uses |-> SentPhase(r, y)]]
           seen == [r \in Peers |-> [y \in Uses |-> SeenPhase(r, y)]]
           lost == {r \in Peers : err[r]}
<1>1. Txn!Txns = Uses
  BY DEF Txn!Txns, Uses
<1>2. x \in Txn!Sending(p) /\ w \in Txn!Sending(p)
  BY <1>1 DEF Txn!Sending
<1>3. sent' = [sent EXCEPT ![p] = [z \in Uses |-> IF z \in {x, w} THEN "closed" ELSE sent[p][z]]]
      /\ UNCHANGED <<seen, lost>>
  BY DEF SentMoves
<1>4. Txn!Close(p, {x, w})
  BY <1>1, <1>2, <1>3 DEF Txn!Close
<1>5. QED
  BY <1>2, <1>4 DEF Txn!AbsNext

LEMMA TxnSeeOpen ==
  ASSUME NEW p \in Peers, NEW x \in Uses, SeenPhase(p, x) = "idle",
         SentPhase(Other(p), x) # "idle", p # x[1] => EarlierOver(p, x),
         SeenMoves(p, x, "open")
  PROVE  Txn!AbsNext
<1> DEFINE sent == [r \in Peers |-> [y \in Uses |-> SentPhase(r, y)]]
           seen == [r \in Peers |-> [y \in Uses |-> SeenPhase(r, y)]]
           lost == {r \in Peers : err[r]}
<1>1. Txn!Txns = Uses
  BY DEF Txn!Txns, Uses
<1>2. Txn!Peer(p) = Other(p) /\ Other(p) \in Peers
  BY PeersPair DEF Txn!Peer, Other
<1>3. seen[p][x] = "idle" /\ sent[Txn!Peer(p)][x] # "idle"
  BY <1>2
<1>4. p # Txn!Starter(x) => \A y \in Txn!Earlier(x) : Txn!Over(p, y)
  BY <1>1 DEF EarlierOver, Txn!Starter, Txn!Earlier, Txn!Over
<1>5. seen' = [seen EXCEPT ![p][x] = "open"] /\ UNCHANGED <<sent, lost>>
  BY DEF SeenMoves
<1>6. Txn!SeeOpen(p, x)
  BY <1>3, <1>4, <1>5 DEF Txn!SeeOpen
<1>7. QED
  BY <1>1, <1>6 DEF Txn!AbsNext

LEMMA TxnSeeClose ==
  ASSUME NEW p \in Peers, NEW x \in Uses,
         \/ SeenPhase(p, x) = "open" /\ SentPhase(Other(p), x) = "closed"
         \/ SeenPhase(p, x) # "closed" /\ SentPhase(p, x) # "idle" /\ err[p],
         SeenMoves(p, x, "closed")
  PROVE  Txn!AbsNext
<1> DEFINE sent == [r \in Peers |-> [y \in Uses |-> SentPhase(r, y)]]
           seen == [r \in Peers |-> [y \in Uses |-> SeenPhase(r, y)]]
           lost == {r \in Peers : err[r]}
<1>1. Txn!Txns = Uses
  BY DEF Txn!Txns, Uses
<1>2. Txn!Peer(p) = Other(p) /\ Other(p) \in Peers
  BY PeersPair DEF Txn!Peer, Other
<1>3. \/ seen[p][x] = "open" /\ sent[Txn!Peer(p)][x] = "closed"
      \/ seen[p][x] # "closed" /\ ~Txn!Idle(p, x) /\ p \in lost
  BY <1>2 DEF Txn!Idle
<1>4. seen' = [seen EXCEPT ![p][x] = "closed"] /\ UNCHANGED <<sent, lost>>
  BY DEF SeenMoves
<1>5. Txn!SeeClose(p, x)
  BY <1>3, <1>4 DEF Txn!SeeClose
<1>6. QED
  BY <1>1, <1>5 DEF Txn!AbsNext

LEMMA TxnLose ==
  ASSUME TypeOK, NEW p \in Peers, st' = st, err' = [err EXCEPT ![p] = TRUE]
  PROVE  Txn!AbsNext
<1> DEFINE sent == [r \in Peers |-> [y \in Uses |-> SentPhase(r, y)]]
           seen == [r \in Peers |-> [y \in Uses |-> SeenPhase(r, y)]]
           lost == {r \in Peers : err[r]}
<1>1. sent' = sent /\ seen' = seen
  BY DEF SentPhase, SeenPhase
<1>2. lost' = lost \cup {p}
  BY DEF TypeOK
<1>3. Txn!Lose(p)
  BY <1>1, <1>2 DEF Txn!Lose
<1>4. QED
  BY <1>3 DEF Txn!AbsNext

LEMMA TxnStutter ==
  ASSUME st' = st, err' = err
  PROVE  UNCHANGED Txn!absvars
BY DEF Txn!absvars, SentPhase, SeenPhase

-----------------------------------------------------------------------------
(* The phases of the uses of one msgid *)

SentIn(s, n) == Phase(s, n, s.txC, s.txD)
SeenIn(s, n) == Phase(s, n, s.rxC, s.rxD)

LEMMA UseParts ==
  ASSUME NEW y \in Uses
  PROVE  /\ <<y[1], y[2]>> \in Trans /\ y[3] \in 1..MaxInc /\ y[3] \in Nat
         /\ y = <<y[1], y[2], y[3]>> /\ <<y[1], y[2]>>[1] = y[1]
         /\ \A p : SentPhase(p, y) = SentIn(st[p][<<y[1], y[2]>>], y[3])
         /\ \A p : SeenPhase(p, y) = SeenIn(st[p][<<y[1], y[2]>>], y[3])
<1>1. /\ <<y[1], y[2]>> \in Trans /\ y[3] \in 1..MaxInc /\ y[3] \in Nat
      /\ y = <<y[1], y[2], y[3]>> /\ <<y[1], y[2]>>[1] = y[1]
  BY IncAssumption DEF Uses, Trans
<1>2. QED
  BY <1>1 DEF SentPhase, SeenPhase, SentIn, SeenIn

LEMMA UseOf ==
  ASSUME NEW t \in Trans, NEW n \in 1..MaxInc
  PROVE  \E x \in Uses : x[1] = t[1] /\ x[2] = t[2] /\ x[3] = n /\ <<x[1], x[2]>> = t
<1>1. t[1] \in Peers /\ t[2] \in Addrs /\ t = <<t[1], t[2]>>
  BY DEF Trans
<1>2. PICK x : x = <<t[1], t[2], n>>
  OBVIOUS
<1>3. x \in Uses /\ x[1] = t[1] /\ x[2] = t[2] /\ x[3] = n
  BY <1>1, <1>2 DEF Uses
<1>4. QED
  BY <1>1, <1>3

\* Only the state of t at p changes, and with it the phase of one use.
LEMMA SentMove ==
  ASSUME NEW p \in Peers, NEW t \in Trans, NEW x \in Uses, <<x[1], x[2]>> = t, NEW new,
         NEW s, s = st[p][t], NEW z, z = st'[p][t],
         \A r \in Peers, u \in Trans : r # p \/ u # t => st'[r][u] = st[r][u],
         \A n \in 1..MaxInc : SentIn(z, n) = IF n = x[3] THEN new ELSE SentIn(s, n),
         \A n \in 1..MaxInc : SeenIn(z, n) = SeenIn(s, n),
         err' = err
  PROVE  SentMoves(p, {x}, new)
<1>1. ASSUME NEW r \in Peers, NEW y \in Uses
      PROVE  /\ SentPhase(r, y)' = IF r = p /\ y \in {x} THEN new ELSE SentPhase(r, y)
             /\ SeenPhase(r, y)' = SeenPhase(r, y)
  <2>1. PICK u \in Trans, n \in 1..MaxInc : u = <<y[1], y[2]>> /\ n = y[3]
    BY UseParts
  <2>2. /\ SentPhase(r, y) = SentIn(st[r][u], n) /\ SentPhase(r, y)' = SentIn(st'[r][u], n)
        /\ SeenPhase(r, y) = SeenIn(st[r][u], n) /\ SeenPhase(r, y)' = SeenIn(st'[r][u], n)
    BY <2>1 DEF SentPhase, SeenPhase, SentIn, SeenIn
  <2>3. y = x <=> u = t /\ n = x[3]
    BY <2>1, UseParts
  <2>4. CASE r # p \/ u # t
    BY <2>2, <2>3, <2>4
  <2>5. CASE r = p /\ u = t
    BY <2>2, <2>3, <2>5
  <2>6. QED
    BY <2>4, <2>5
<1>2. QED
  BY <1>1 DEF SentMoves

LEMMA SeenMove ==
  ASSUME NEW p \in Peers, NEW t \in Trans, NEW x \in Uses, <<x[1], x[2]>> = t, NEW new,
         NEW s, s = st[p][t], NEW z, z = st'[p][t],
         \A r \in Peers, u \in Trans : r # p \/ u # t => st'[r][u] = st[r][u],
         \A n \in 1..MaxInc : SeenIn(z, n) = IF n = x[3] THEN new ELSE SeenIn(s, n),
         \A n \in 1..MaxInc : SentIn(z, n) = SentIn(s, n),
         err' = err
  PROVE  SeenMoves(p, x, new)
<1>1. ASSUME NEW r \in Peers, NEW y \in Uses
      PROVE  /\ SeenPhase(r, y)' = IF r = p /\ y = x THEN new ELSE SeenPhase(r, y)
             /\ SentPhase(r, y)' = SentPhase(r, y)
  <2>1. PICK u \in Trans, n \in 1..MaxInc : u = <<y[1], y[2]>> /\ n = y[3]
    BY UseParts
  <2>2. /\ SentPhase(r, y) = SentIn(st[r][u], n) /\ SentPhase(r, y)' = SentIn(st'[r][u], n)
        /\ SeenPhase(r, y) = SeenIn(st[r][u], n) /\ SeenPhase(r, y)' = SeenIn(st'[r][u], n)
    BY <2>1 DEF SentPhase, SeenPhase, SentIn, SeenIn
  <2>3. y = x <=> u = t /\ n = x[3]
    BY <2>1, UseParts
  <2>4. CASE r # p \/ u # t
    BY <2>2, <2>3, <2>4
  <2>5. CASE r = p /\ u = t
    BY <2>2, <2>3, <2>5
  <2>6. QED
    BY <2>4, <2>5
<1>2. QED
  BY <1>1 DEF SeenMoves

\* A state that is not in use, for the uses up to now.
LEMMA OverBefore ==
  ASSUME TypeOK, NEW p \in Peers, NEW x \in Uses, ~st[p][<<x[1], x[2]>>].live,
         st[p][<<x[1], x[2]>>].inc = x[3] - 1
  PROVE  EarlierOver(p, x) /\ SentPhase(p, x) = "idle" /\ SeenPhase(p, x) = "idle"
<1>1. PICK t \in Trans, n \in Nat : t = <<x[1], x[2]>> /\ n = x[3]
  BY UseParts
<1>2. PICK s \in State : s = st[p][t] /\ ~s.live /\ s.inc = n - 1 /\ s.inc \in Nat
  BY <1>1, StateType
<1>3. SentPhase(p, x) = "idle" /\ SeenPhase(p, x) = "idle"
  BY <1>1, <1>2, UseParts DEF SentIn, SeenIn, Phase
<1>4. ASSUME NEW y \in Uses, y[1] = x[1], y[2] = x[2], y[3] < x[3]
      PROVE  SentPhase(p, y) = "closed" /\ SeenPhase(p, y) = "closed"
  <2>1. PICK k \in Nat : k = y[3] /\ k < n
    BY <1>1, <1>4, UseParts
  <2>2. <<y[1], y[2]>> = t
    BY <1>1, <1>4
  <2>3. SentIn(s, k) = "closed" /\ SeenIn(s, k) = "closed"
    BY <1>2, <2>1 DEF SentIn, SeenIn, Phase
  <2>4. QED
    BY <1>2, <2>1, <2>2, <2>3, UseParts
<1>5. QED
  BY <1>3, <1>4 DEF EarlierOver

\* What the number of the last message says of the phase.
LEMMA SentReaches ==
  ASSUME NEW s \in State, NEW n \in Nat
  PROVE  /\ SentOf(s) >= 2 * n => SentIn(s, n) # "idle"
         /\ SentOf(s) >= 2 * n + 1 => SentIn(s, n) = "closed"
<1>1. PICK i \in Nat : i = s.inc
  BY IncAssumption DEF State
<1>2. CASE i < n
  BY <1>1, <1>2 DEF SentOf
<1>3. CASE i > n
  BY <1>1, <1>3 DEF SentIn, Phase
<1>4. CASE i = n
  BY <1>1, <1>4 DEF SentOf, SentIn, Phase
<1>5. QED
  BY <1>1, <1>2, <1>3, <1>4

-----------------------------------------------------------------------------
(* The steps of Dmsg *)

\* A state is used again: only the phase of the new use can differ.
LEMMA FreshPhase ==
  ASSUME NEW s, NEW z, NEW n \in Nat, ~s.live, s.inc = n - 1,
         z.live, z.inc = n, ~z.txD, ~z.rxD, NEW k \in Nat
  PROVE  /\ SentIn(z, k) = IF k = n /\ z.txC THEN "open" ELSE SentIn(s, k)
         /\ SeenIn(z, k) = IF k = n /\ z.rxC THEN "open" ELSE SeenIn(s, k)
<1>1. CASE k < n
  <2>1. ~(s.inc < k) /\ ~(z.inc < k) /\ z.inc > k /\ k # n
    BY <1>1
  <2>2. QED
    BY <2>1 DEF SentIn, SeenIn, Phase
<1>2. CASE k = n
  <2>1. s.inc < k /\ ~(z.inc < k) /\ ~(z.inc > k)
    BY <1>2
  <2>2. QED
    BY <1>2, <2>1 DEF SentIn, SeenIn, Phase
<1>3. CASE k > n
  <2>1. s.inc < k /\ z.inc < k /\ k # n
    BY <1>3
  <2>2. QED
    BY <2>1 DEF SentIn, SeenIn, Phase
<1>4. QED
  BY <1>1, <1>2, <1>3

LEMMA CreateRefines ==
  ASSUME IInv, NEW p \in Peers, NEW addr \in Addrs, Create(p, addr),
         st[p][<<p, addr>>].inc < MaxInc, err' = err
  PROVE  Txn!AbsNext
<1>1. PICK t \in Trans : t = <<p, addr>> /\ t[1] = p
  BY DEF Trans
<1>2. TypeOK
  BY DEF IInv
<1>3. PICK s \in State : s = st[p][t] /\ s.inc \in Nat /\ ~s.live
  BY <1>1, <1>2, StateType DEF Create
<1>4. PICK n \in 1..MaxInc : n = s.inc + 1 /\ s.inc = n - 1 /\ n \in Nat
  <2>1. s.inc + 1 \in 1..MaxInc /\ s.inc = (s.inc + 1) - 1
    BY <1>1, <1>3, IncAssumption
  <2>2. QED
    BY <1>3, <2>1
<1>5. PICK z : z = [Free(n) EXCEPT !.live = TRUE, !.txC = TRUE]
  OBVIOUS
<1>6. z.live /\ z.txC /\ ~z.txD /\ ~z.rxC /\ ~z.rxD /\ z.inc = n
  <2>1. z = [live |-> TRUE, txC |-> TRUE, txD |-> FALSE, rxC |-> FALSE, rxD |-> FALSE, inc |-> n]
    BY <1>5, NewState, Zenon
  <2>2. PICK u : u = [live |-> TRUE, txC |-> TRUE, txD |-> FALSE, rxC |-> FALSE, rxD |-> FALSE,
                      inc |-> n]
    OBVIOUS
  <2>3. u.live /\ u.txC /\ ~u.txD /\ ~u.rxC /\ ~u.rxD /\ u.inc = n
    BY <2>2
  <2>4. QED
    BY <2>1, <2>2, <2>3, Zenon
<1>7. st' = [st EXCEPT ![p][t] = z]
  BY <1>1, <1>3, <1>4, <1>5 DEF Create
<1>8. st'[p][t] = z /\ \A r \in Peers, u \in Trans : r # p \/ u # t => st'[r][u] = st[r][u]
  BY <1>2, <1>7 DEF TypeOK
<1>9. PICK x \in Uses : x[1] = p /\ x[3] = n /\ <<x[1], x[2]>> = t
  BY <1>1, UseOf
<1>10. EarlierOver(p, x) /\ SentPhase(p, x) = "idle"
  BY <1>2, <1>3, <1>4, <1>9, OverBefore
<1>11. ASSUME NEW k \in 1..MaxInc
       PROVE  /\ SentIn(z, k) = IF k = x[3] THEN "open" ELSE SentIn(s, k)
              /\ SeenIn(z, k) = SeenIn(s, k)
  <2>1. k \in Nat
    BY IncAssumption
  <2>2. QED
    <3>1. /\ SentIn(z, k) = IF k = n /\ z.txC THEN "open" ELSE SentIn(s, k)
          /\ SeenIn(z, k) = IF k = n /\ z.rxC THEN "open" ELSE SeenIn(s, k)
      <4>1. ~s.live /\ s.inc = n - 1 /\ n \in Nat
        BY <1>3, <1>4
      <4>2. QED
        BY <1>6, <2>1, <4>1, FreshPhase, Zenon
    <3>2. QED
      BY <1>6, <1>9, <3>1
<1>12. SentMoves(p, {x}, "open")
  BY <1>3, <1>8, <1>9, <1>11, SentMove
<1>13. QED
  BY <1>9, <1>10, <1>12, TxnOpen

\* The phase of the stream p sends, when p closes it.
LEMMA ClosedPhase ==
  ASSUME NEW s \in State, s.live => s.txC /\ ~s.rxD, NEW k \in 1..MaxInc
  PROVE  /\ SeenIn(Closed(s), k) = SeenIn(s, k)
         /\ ~s.live \/ s.txD => SentIn(Closed(s), k) = SentIn(s, k)
         /\ s.live /\ ~s.txD =>
              /\ SentIn(Closed(s), k) = IF k = s.inc THEN "closed" ELSE SentIn(s, k)
              /\ k = s.inc => SentIn(s, k) = "open"
<1>1. PICK i \in Nat, j \in Nat : i = s.inc /\ j = k
  BY IncAssumption DEF State
<1>2. /\ Closed(s).live = s.live /\ Closed(s).inc = s.inc
      /\ Closed(s).rxC = s.rxC /\ Closed(s).rxD = s.rxD
      /\ s.live => Closed(s).txD
      /\ ~s.live \/ s.txD => Closed(s) = s
  BY ClosedShape
<1>3. SeenIn(Closed(s), k) = SeenIn(s, k)
  BY <1>2 DEF SeenIn, Phase
<1>4. ASSUME s.live, ~s.txD
      PROVE  /\ SentIn(Closed(s), k) = IF k = s.inc THEN "closed" ELSE SentIn(s, k)
             /\ k = s.inc => SentIn(s, k) = "open"
  BY <1>1, <1>2, <1>4 DEF SentIn, Phase
<1>5. QED
  BY <1>2, <1>3, <1>4

LEMMA CloseSpanRefines ==
  ASSUME IInv, NEW p \in Peers, CloseSpan(p)
  PROVE  Txn!AbsNext
<1>1. PICK t \in Trans : t = <<p, "SPAN">> /\ t[1] = p
  <2>1. <<p, "SPAN">> \in Trans /\ <<p, "SPAN">>[1] = p
    BY DEF Trans, Addrs
  <2>2. QED
    BY <2>1
<1>2. TypeOK /\ StateInv(p, t)
  BY DEF IInv
<1>3. PICK s \in State : s = st[p][t] /\ s.live /\ ~s.txD /\ s.txC /\ ~s.rxD /\ s.inc \in 1..MaxInc
  BY <1>1, <1>2, StateType DEF CloseSpan, StateInv
<1>4. st' = [st EXCEPT ![p][t] = Closed(s)] /\ err' = err
  BY <1>1, <1>3 DEF CloseSpan
<1>5. PICK z : z = Closed(s)
  OBVIOUS
<1>6. st'[p][t] = z /\ \A r \in Peers, u \in Trans : r # p \/ u # t => st'[r][u] = st[r][u]
  BY <1>2, <1>4, <1>5 DEF TypeOK
<1>7. PICK x \in Uses : x[3] = s.inc /\ <<x[1], x[2]>> = t
  BY <1>3, UseOf
<1>8. ASSUME NEW k \in 1..MaxInc
      PROVE  /\ SentIn(z, k) = IF k = x[3] THEN "closed" ELSE SentIn(s, k)
             /\ SeenIn(z, k) = SeenIn(s, k)
             /\ k = x[3] => SentIn(s, k) = "open"
  BY <1>3, <1>5, <1>7, ClosedPhase
<1>9. SentMoves(p, {x}, "closed")
  BY <1>3, <1>4, <1>6, <1>7, <1>8, SentMove
<1>10. SentPhase(p, x) = "open"
  BY <1>3, <1>7, <1>8, UseParts
<1>11. {x} = {x, x}
  OBVIOUS
<1>12. QED
  BY <1>9, <1>10, <1>11, TxnClose

LEMMA AckRefines ==
  ASSUME IInv, NEW p \in Peers, Callback(p), cur[p].create, cur[p].t[1] # p
  PROVE  Txn!AbsNext
<1>1. TypeOK /\ CurInv(p)
  BY DEF IInv
<1>2. cur[p].phase = "callback" /\ cur[p] # NoMsg /\ err' = err
  BY DEF Callback, NoMsg
<1>3. PICK t \in Trans : t = cur[p].t
  BY <1>1, <1>2, CurType
<1>4. StateInv(p, t) /\ t[1] # p
  BY <1>3 DEF IInv
<1>5. PICK s \in State : /\ s = st[p][t] /\ s.live /\ ~s.txC /\ ~s.txD /\ ~s.rxD /\ s.rxC
                         /\ s.inc \in 1..MaxInc
  BY <1>1, <1>2, <1>3, <1>4, StateType DEF CurInv, StateInv
<1>6. PICK z : z = [s EXCEPT !.txC = TRUE]
  OBVIOUS
<1>7. z.live /\ z.txC /\ ~z.txD /\ ~z.rxD /\ z.rxC /\ z.inc = s.inc
  BY <1>5, <1>6 DEF State
<1>8. st' = [st EXCEPT ![p][t] = z]
  <2>1. (cur[p].create /\ cur[p].t[1] # p) = TRUE
    OBVIOUS
  <2>2. st' = [st EXCEPT ![p][t].txC = TRUE]
    BY <1>3, <2>1 DEF Callback
  <2>3. QED
    BY <1>5, <1>6, <2>2
<1>9. st'[p][t] = z /\ \A r \in Peers, u \in Trans : r # p \/ u # t => st'[r][u] = st[r][u]
  BY <1>1, <1>8 DEF TypeOK
<1>10. PICK x \in Uses : x[1] = t[1] /\ x[3] = s.inc /\ <<x[1], x[2]>> = t
  BY <1>5, UseOf
<1>11. ASSUME NEW k \in 1..MaxInc
       PROVE  /\ SentIn(z, k) = IF k = x[3] THEN "open" ELSE SentIn(s, k)
              /\ SeenIn(z, k) = SeenIn(s, k)
              /\ k = x[3] => SentIn(s, k) = "idle" /\ SeenIn(s, k) = "open"
  <2>1. PICK i \in Nat, j \in Nat : i = s.inc /\ j = k
    BY <1>5, IncAssumption
  <2>2. QED
    BY <1>5, <1>7, <1>10, <2>1 DEF SentIn, SeenIn, Phase
<1>12. SentMoves(p, {x}, "open")
  BY <1>2, <1>5, <1>9, <1>10, <1>11, SentMove
<1>13. SentPhase(p, x) = "idle" /\ SeenPhase(p, x) = "open" /\ p # x[1]
  BY <1>4, <1>5, <1>10, <1>11, UseParts
<1>14. QED
  BY <1>12, <1>13, TxnOpen

LEMMA ReplyRefines ==
  ASSUME IInv, NEW p \in Peers, Callback(p), ~(cur[p].create /\ cur[p].t[1] # p)
  PROVE  Txn!AbsNext \/ UNCHANGED Txn!absvars
<1>1. TypeOK
  BY DEF IInv
<1>2. cur[p].phase = "callback" /\ cur[p] # NoMsg /\ err' = err
  BY DEF Callback, NoMsg
<1>3. PICK v \in Trans : v = cur[p].t
  BY <1>1, <1>2, CurType
<1>4. PICK relay \in Trans : relay = <<p, "SPAN">>
  <2>1. <<p, "SPAN">> \in Trans
    BY DEF Trans, Addrs
  <2>2. QED
    BY <2>1
<1>5. PICK ends : ends = CallbackCloses(p) /\ ends \subseteq {v, relay}
  BY <1>3, <1>4 DEF CallbackCloses
<1>6. /\ \A t \in Trans : st'[p][t] = IF t \in ends THEN Closed(st[p][t]) ELSE st[p][t]
      /\ \A r \in Peers, t \in Trans : r # p => st'[r][t] = st[r][t]
  <2>1. (cur[p].create /\ cur[p].t[1] # p) = FALSE
    OBVIOUS
  <2>2. PICK new : new = [t \in Trans |-> IF t \in ends THEN Closed(st[p][t]) ELSE st[p][t]]
    OBVIOUS
  <2>3. st' = [st EXCEPT ![p] = new]
    BY <1>5, <2>1, <2>2 DEF Callback
  <2>4. st'[p] = new /\ \A r \in Peers : r # p => st'[r] = st[r]
    BY <1>1, <2>3 DEF TypeOK
  <2>5. QED
    BY <2>2, <2>4
<1>7. ASSUME NEW t \in Trans PROVE st[p][t] \in State /\ (st[p][t].live => st[p][t].txC /\ ~st[p][t].rxD)
  <2>1. StateInv(p, t) /\ st[p][t] \in State
    BY <1>1, StateType DEF IInv
  <2>2. cur[p].create /\ cur[p].t = t => t[1] = p
    OBVIOUS
  <2>3. QED
    BY <2>1, <2>2 DEF StateInv
\* the transactions in which the direction of p is still open, and their uses
<1>8. PICK open : open = {t \in ends : st[p][t].live /\ ~st[p][t].txD}
  OBVIOUS
<1>9. PICK xs : xs = {y \in Uses : <<y[1], y[2]>> \in open /\ y[3] = st[p][<<y[1], y[2]>>].inc}
  OBVIOUS
<1>10. \A y \in xs : y \in Uses /\ SentPhase(p, y) = "open"
  <2>1. SUFFICES ASSUME NEW y \in xs PROVE y \in Uses /\ SentPhase(p, y) = "open"
    OBVIOUS
  <2>2. PICK u \in Trans, k \in 1..MaxInc : u = <<y[1], y[2]>> /\ k = y[3]
    BY <1>9, UseParts
  <2>3. y \in Uses /\ st[p][u].live /\ ~st[p][u].txD /\ k = st[p][u].inc
    BY <1>8, <1>9, <2>2
  <2>4. SentIn(st[p][u], k) = "open"
    BY <1>7, <2>3, ClosedPhase
  <2>5. QED
    <3>1. SentPhase(p, y) = SentIn(st[p][<<y[1], y[2]>>], y[3])
      BY <2>3, UseParts
    <3>2. QED
      BY <2>2, <2>3, <2>4, <3>1
<1>11. SentMoves(p, xs, "closed")
  <2>1. ASSUME NEW r \in Peers, NEW y \in Uses
        PROVE  /\ SentPhase(r, y)' = IF r = p /\ y \in xs THEN "closed" ELSE SentPhase(r, y)
               /\ SeenPhase(r, y)' = SeenPhase(r, y)
    <3>1. PICK u \in Trans, k \in 1..MaxInc : u = <<y[1], y[2]>> /\ k = y[3]
      BY UseParts
    <3>2. /\ SentPhase(r, y) = SentIn(st[r][u], k) /\ SentPhase(r, y)' = SentIn(st'[r][u], k)
          /\ SeenPhase(r, y) = SeenIn(st[r][u], k) /\ SeenPhase(r, y)' = SeenIn(st'[r][u], k)
      BY <3>1 DEF SentPhase, SeenPhase, SentIn, SeenIn
    <3>3. y \in xs <=> u \in ends /\ st[p][u].live /\ ~st[p][u].txD /\ k = st[p][u].inc
      BY <1>8, <1>9, <3>1
    <3>4. CASE r # p \/ u \notin ends
      BY <1>6, <3>2, <3>3, <3>4
    <3>5. CASE r = p /\ u \in ends
      <4>1. PICK s \in State : s = st[p][u] /\ (s.live => s.txC /\ ~s.rxD) /\ st'[p][u] = Closed(s)
        BY <1>6, <1>7, <3>5
      <4>2. /\ SeenIn(Closed(s), k) = SeenIn(s, k)
            /\ ~s.live \/ s.txD => SentIn(Closed(s), k) = SentIn(s, k)
            /\ s.live /\ ~s.txD => SentIn(Closed(s), k) = IF k = s.inc THEN "closed" ELSE SentIn(s, k)
        BY <4>1, ClosedPhase
      <4>3. QED
        BY <3>2, <3>3, <3>5, <4>1, <4>2
    <3>6. QED
      BY <3>4, <3>5
  <2>2. QED
    BY <1>2, <2>1 DEF SentMoves
<1>12. CASE open = {}
  <2>1. \A r \in Peers, y \in Uses : SentPhase(r, y)' = SentPhase(r, y) /\ SeenPhase(r, y)' = SeenPhase(r, y)
    BY <1>9, <1>11, <1>12 DEF SentMoves
  <2>2. QED
    BY <1>2, <2>1 DEF Txn!absvars
<1>13. CASE open # {}
  <2>1. PICK t1 \in open, t2 \in open : open = {t1, t2}
    BY <1>5, <1>8, <1>13
  <2>2. ASSUME NEW t \in open
        PROVE  \E x \in xs : /\ <<x[1], x[2]>> = t
                             /\ \A y \in xs : <<y[1], y[2]>> = t => y = x
    <3>1. t \in Trans /\ st[p][t].inc \in 1..MaxInc
      <4>1. t \in Trans /\ st[p][t].live
        BY <1>5, <1>8
      <4>2. StateInv(p, t)
        BY <4>1 DEF IInv
      <4>3. QED
        BY <1>1, <4>1, <4>2, StateType DEF StateInv
    <3>2. PICK x \in Uses : x[3] = st[p][t].inc /\ <<x[1], x[2]>> = t
      BY <3>1, UseOf
    <3>3. x \in xs
      BY <1>9, <3>2
    <3>4. ASSUME NEW y \in xs, <<y[1], y[2]>> = t PROVE y = x
      <4>1. y \in Uses /\ y[3] = x[3] /\ y[1] = x[1] /\ y[2] = x[2]
        BY <1>9, <3>2, <3>4
      <4>2. QED
        BY <4>1, UseParts
    <3>5. QED
      BY <3>2, <3>3, <3>4
  <2>3. PICK x1 \in xs : /\ <<x1[1], x1[2]>> = t1
                         /\ \A y \in xs : <<y[1], y[2]>> = t1 => y = x1
    BY <2>2
  <2>4. PICK x2 \in xs : /\ <<x2[1], x2[2]>> = t2
                         /\ \A y \in xs : <<y[1], y[2]>> = t2 => y = x2
    BY <2>2
  <2>5. xs = {x1, x2}
    <3>1. \A y \in xs : <<y[1], y[2]>> \in open
      BY <1>9
    <3>2. QED
      BY <2>1, <2>3, <2>4, <3>1
  <2>6. QED
    BY <1>10, <1>11, <2>3, <2>4, <2>5, TxnClose
<1>14. QED
  BY <1>12, <1>13

\* A CREATE is seen; a DELETE shows only when dmsg_state_cleanuprx runs.
LEMMA ReceiveRefines ==
  ASSUME IInv, NEW p \in Peers, Receive(p)
  PROVE  Txn!AbsNext \/ UNCHANGED Txn!absvars
<1>1. PICK m, t : m = Head(wire[Other(p)]) /\ t = Lookup(p, m)
  OBVIOUS
<1>2. Reading(p) /\ ~err[p] /\ wire[Other(p)] # <<>> /\ err' = err
  BY DEF Receive
<1>3. /\ t \in Trans /\ m \in Message
      /\ m.create = ~m.delete /\ ~TransError(p, m)
      /\ Number(m) <= Sent(Other(p), t)
      /\ IF m.reply THEN t[1] = p ELSE t[1] = Other(p)
      /\ m.delete => st[p][t].live /\ st[p][t].rxC /\ st[p][t].inc = m.inc
      /\ m.create /\ m.reply => st[p][t].live /\ ~st[p][t].rxC /\ st[p][t].inc = m.inc
      /\ m.create /\ ~m.reply => ~st[p][t].live /\ st[p][t].inc = m.inc - 1
  BY <1>1, <1>2, NextMessage
<1>4. st' = [st EXCEPT ![p][t] = Received(st[p][t], m)]
  BY <1>1, <1>3 DEF Receive
<1>5. m.inc \in 1..MaxInc /\ m.inc \in Nat /\ m.create \in BOOLEAN /\ m.delete \in BOOLEAN
      /\ m.reply \in BOOLEAN
  BY <1>3 DEF Message
<1>6. TypeOK /\ StateInv(p, t) /\ Other(p) \in Peers /\ Other(p) # p
  BY <1>3, PeersPair DEF IInv
<1>7. PICK s \in State : s = st[p][t] /\ s.inc \in Nat /\ (s.live => ~s.rxD)
  BY <1>3, <1>6, StateType DEF StateInv
<1>8. CASE m.delete
  <2>1. Received(st[p][t], m) = st[p][t]
    BY <1>3, <1>5, <1>8 DEF Received
  <2>2. st' = st
    BY <1>3, <1>4, <1>6, <2>1 DEF TypeOK
  <2>3. QED
    BY <1>2, <2>2, TxnStutter
<1>9. CASE m.create
  <2>1. PICK z \in State :
          /\ z = Received(s, m) /\ z.live /\ z.rxC /\ ~z.rxD /\ z.inc = m.inc
          /\ m.reply => z.txC = s.txC /\ z.txD = s.txD
          /\ ~m.reply => ~z.txC /\ ~z.txD
    <3>1. /\ m.create = ~m.delete /\ (s.live => ~s.rxD)
          /\ m.delete => s.live /\ s.rxC /\ s.inc = m.inc
          /\ m.create /\ m.reply => s.live /\ ~s.rxC /\ s.inc = m.inc
          /\ m.create /\ ~m.reply => ~s.live /\ s.inc = m.inc - 1
      BY <1>3, <1>7
    <3>2. QED
      BY <1>3, <1>9, <3>1, ReceivedShape
  <2>2. st'[p][t] = z /\ \A r \in Peers, u \in Trans : r # p \/ u # t => st'[r][u] = st[r][u]
    BY <1>3, <1>4, <1>6, <1>7, <2>1 DEF TypeOK
  <2>3. PICK x \in Uses : x[1] = t[1] /\ x[3] = m.inc /\ <<x[1], x[2]>> = t
    BY <1>3, <1>5, UseOf
  <2>4. SentPhase(Other(p), x) # "idle"
    <3>1. PICK o \in State : o = st[Other(p)][t]
      BY <1>3, <1>6, StateType
    <3>2. SentOf(o) >= 2 * m.inc
      <4>1. Number(m) = 2 * m.inc
        BY <1>3, <1>5, <1>9 DEF Number
      <4>2. SentOf(o) \in Int
        BY NumberOfType
      <4>3. 2 * m.inc <= SentOf(o)
        BY <1>3, <3>1, <4>1 DEF Sent
      <4>4. QED
        BY <1>5, <4>2, <4>3
    <3>3. SentIn(o, m.inc) # "idle"
      BY <1>5, <3>2, SentReaches
    <3>4. QED
      BY <2>3, <3>1, <3>3, UseParts
  <2>5. ASSUME NEW k \in 1..MaxInc
        PROVE  /\ SeenIn(z, k) = IF k = x[3] THEN "open" ELSE SeenIn(s, k)
               /\ SentIn(z, k) = SentIn(s, k)
               /\ k = x[3] => SeenIn(s, k) = "idle"
    <3>1. k \in Nat
      BY IncAssumption
    <3>2. CASE m.reply
      <4>1. s.live /\ ~s.rxC /\ ~s.rxD /\ s.inc = m.inc /\ z.txC = s.txC /\ z.txD = s.txD
        BY <1>3, <1>7, <1>9, <2>1, <3>2
      <4>2. QED
        BY <1>5, <2>1, <2>3, <3>1, <4>1 DEF SeenIn, SentIn, Phase
    <3>3. CASE ~m.reply
      <4>1. ~s.live /\ s.inc = m.inc - 1 /\ ~z.txC /\ ~z.txD
        BY <1>3, <1>7, <1>9, <2>1, <3>3
      <4>2. PICK n \in Nat : n = m.inc
        BY <1>5
      <4>3. /\ SentIn(z, k) = IF k = n /\ z.txC THEN "open" ELSE SentIn(s, k)
            /\ SeenIn(z, k) = IF k = n /\ z.rxC THEN "open" ELSE SeenIn(s, k)
        <5>1. ~s.live /\ s.inc = n - 1 /\ z.live /\ z.inc = n /\ ~z.txD /\ ~z.rxD
          BY <2>1, <4>1, <4>2
        <5>2. QED
          BY <3>1, <4>2, <5>1, FreshPhase
      <4>4. k = n => SeenIn(s, k) = "idle"
        BY <4>1, <4>2 DEF SeenIn, Phase
      <4>5. QED
        BY <2>1, <2>3, <4>1, <4>2, <4>3, <4>4
    <3>4. QED
      BY <3>2, <3>3
  <2>6. SeenMoves(p, x, "open")
    BY <1>2, <1>3, <1>7, <2>2, <2>3, <2>5, SeenMove
  <2>7. SeenPhase(p, x) = "idle"
    BY <1>5, <1>7, <2>3, <2>5, UseParts
  <2>8. p # x[1] => EarlierOver(p, x)
    <3>1. p # x[1] => ~m.reply
      BY <1>3, <2>3
    <3>2. QED
      BY <1>3, <1>6, <1>9, <2>3, <3>1, OverBefore
  <2>9. QED
    BY <2>4, <2>6, <2>7, <2>8, TxnSeeOpen
<1>10. QED
  BY <1>3, <1>5, <1>8, <1>9

LEMMA CleanupRefines ==
  ASSUME IInv, NEW p \in Peers, CleanupRx(p)
  PROVE  Txn!AbsNext \/ UNCHANGED Txn!absvars
<1>1. TypeOK /\ CurInv(p) /\ Other(p) \in Peers /\ Other(Other(p)) = p
  BY PeersPair DEF IInv
<1>2. cur[p].phase = "cleanup" /\ cur[p] # NoMsg /\ err' = err
  BY DEF CleanupRx, NoMsg
<1>3. PICK t \in Trans : t = cur[p].t
  BY <1>1, <1>2, CurType
<1>4. CASE ~cur[p].delete
  BY <1>2, <1>4, TxnStutter DEF CleanupRx
<1>5. CASE cur[p].delete
  <2>1. StateInv(p, t) /\ WireInv(Other(p), t)
    BY <1>1 DEF IInv
  <2>2. PICK s \in State : /\ s = st[p][t] /\ s.live /\ s.txD /\ ~s.rxD /\ s.inc \in 1..MaxInc
                           /\ ~err[p] => s.rxC
    BY <1>1, <1>2, <1>3, <1>5, <2>1, StateType DEF CurInv, StateInv
  <2>3. PICK z : z = Free(s.inc)
    OBVIOUS
  <2>4. ~z.live /\ z.inc = s.inc
    BY <2>3 DEF Free
  <2>5. st' = [st EXCEPT ![p][t] = z]
    <3>1. PICK u : u = [s EXCEPT !.rxD = TRUE]
      OBVIOUS
    <3>2. u.txD /\ u.rxD /\ u.inc = s.inc
      BY <2>2, <3>1 DEF State
    <3>3. Retire(u) = z
      BY <2>3, <3>2 DEF Retire
    <3>4. st' = [st EXCEPT ![p][t] = Retire([st[p][t] EXCEPT !.rxD = TRUE])]
      BY <1>3, <1>5 DEF CleanupRx
    <3>5. QED
      BY <2>2, <3>1, <3>3, <3>4
  <2>6. st'[p][t] = z /\ \A r \in Peers, u \in Trans : r # p \/ u # t => st'[r][u] = st[r][u]
    BY <1>1, <2>5 DEF TypeOK
  <2>7. PICK x \in Uses : x[3] = s.inc /\ <<x[1], x[2]>> = t
    BY <2>2, UseOf
  <2>8. ASSUME NEW k \in 1..MaxInc
        PROVE  /\ SeenIn(z, k) = IF k = x[3] THEN "closed" ELSE SeenIn(s, k)
               /\ SentIn(z, k) = SentIn(s, k)
               /\ k = x[3] => /\ SentIn(s, k) = "closed" /\ SeenIn(s, k) # "closed"
                              /\ s.rxC => SeenIn(s, k) = "open"
    <3>1. PICK i \in Nat, j \in Nat : i = s.inc /\ j = k
      BY <2>2, IncAssumption
    <3>2. QED
      BY <2>2, <2>4, <2>7, <3>1 DEF SeenIn, SentIn, Phase
  <2>9. SeenMoves(p, x, "closed")
    BY <1>2, <2>2, <2>6, <2>7, <2>8, SeenMove
  <2>10. /\ SentPhase(p, x) = "closed" /\ SeenPhase(p, x) # "closed"
         /\ s.rxC => SeenPhase(p, x) = "open"
    BY <2>2, <2>7, <2>8, UseParts
  <2>11. ASSUME ~err[p] PROVE SentPhase(Other(p), x) = "closed"
    <3>1. PICK o \in State : o = st[Other(p)][t]
      BY <1>1, StateType
    <3>2. PICK n \in Nat : n = s.inc
      BY <2>2, IncAssumption
    <3>3. Seen(p, t) = 2 * n + 1
      BY <1>2, <1>3, <1>5, <2>2, <3>2 DEF Seen, SeenOf, Closing
    <3>4. Seen(p, t) <= Sent(Other(p), t)
      BY <1>1, <2>1, <2>11 DEF WireInv, Stream
    <3>5. SentOf(o) \in Int
      BY NumberOfType
    <3>6. SentOf(o) >= 2 * n + 1
      BY <3>1, <3>3, <3>4, <3>5 DEF Sent
    <3>7. SentIn(o, n) = "closed"
      BY <3>6, SentReaches
    <3>8. QED
      BY <2>7, <3>1, <3>2, <3>7, UseParts
  <2>12. QED
    BY <2>2, <2>9, <2>10, <2>11, TxnSeeClose
<1>6. QED
  BY <1>4, <1>5

LEMMA InitRefines ==
  ASSUME Init
  PROVE  Txn!AbsInit
<1>1. Free(0).inc = 0
  BY DEF Free
<1>2. ASSUME NEW p \in Peers, NEW x \in Uses
      PROVE  SentPhase(p, x) = "idle" /\ SeenPhase(p, x) = "idle"
  <2>0. <<x[1], x[2]>> \in Trans /\ x[3] \in 1..MaxInc /\ x[3] \in Nat
    BY UseParts
  <2>1. PICK t \in Trans, n \in Nat : t = <<x[1], x[2]>> /\ n = x[3] /\ 0 < n
    BY <2>0, IncAssumption
  <2>2. st[p][t].inc = 0
    BY <1>1 DEF Init
  <2>3. QED
    BY <2>1, <2>2 DEF SentPhase, SeenPhase, Phase
<1>3. Txn!Txns = Uses
  BY DEF Txn!Txns, Uses
<1>4. {p \in Peers : err[p]} = {}
  BY DEF Init
<1>5. QED
  BY <1>2, <1>3, <1>4 DEF Txn!AbsInit

LEMMA NextRefines ==
  ASSUME IInv, [Next]_vars
  PROVE  [Txn!AbsNext]_(Txn!absvars)
<1>1. SUFFICES Txn!AbsNext \/ UNCHANGED Txn!absvars
  OBVIOUS
<1>2. TypeOK
  BY DEF IInv
<1>3. ASSUME NEW p \in Peers, AuthSignal(p) PROVE Txn!AbsNext
  <2>1. st[p][<<p, "CONN">>] = Free(0)
    BY <1>3 DEF AuthSignal, IInv, EndInv
  <2>2. st[p][<<p, "CONN">>].inc < MaxInc
    BY <2>1, IncAssumption DEF Free
  <2>3. "CONN" \in Addrs
    BY DEF Addrs
  <2>4. QED
    BY <1>3, <2>2, <2>3, CreateRefines DEF AuthSignal
<1>4. ASSUME NEW p \in Peers, OpenSpan(p) PROVE Txn!AbsNext
  <2>1. "SPAN" \in Addrs /\ <<p, "SPAN">> \in Trans
    BY DEF Addrs, Trans
  <2>2. st[p][<<p, "SPAN">>].inc \in Nat
    BY <1>2, <2>1, StateType
  <2>3. st[p][<<p, "SPAN">>].inc < MaxInc
    BY <1>4, <2>2, IncAssumption DEF OpenSpan
  <2>4. QED
    BY <1>4, <2>1, <2>3, CreateRefines DEF OpenSpan
<1>5. ASSUME NEW p \in Peers, CloseSpan(p) PROVE Txn!AbsNext
  BY <1>5, CloseSpanRefines
<1>6. ASSUME NEW p \in Peers, Receive(p) PROVE Txn!AbsNext \/ UNCHANGED Txn!absvars
  BY <1>6, ReceiveRefines
<1>7. ASSUME NEW p \in Peers, Callback(p) PROVE Txn!AbsNext \/ UNCHANGED Txn!absvars
  BY <1>7, AckRefines, ReplyRefines
<1>8. ASSUME NEW p \in Peers, CleanupRx(p) PROVE Txn!AbsNext \/ UNCHANGED Txn!absvars
  BY <1>8, CleanupRefines
<1>9. ASSUME NEW p \in Peers, ReadEOF(p) \/ ReadError(p) PROVE Txn!AbsNext
  <2>1. st' = st /\ err' = [err EXCEPT ![p] = TRUE]
    BY <1>9 DEF ReadEOF, ReadError
  <2>2. QED
    BY <1>2, <2>1, TxnLose
<1>10. ASSUME NEW p \in Peers, SimulateFailure(p) \/ SetEOF(p) \/ CloseSocket(p)
       PROVE  UNCHANGED Txn!absvars
  <2>1. st' = st /\ err' = err
    BY <1>10 DEF SimulateFailure, SetEOF, CloseSocket
  <2>2. QED
    BY <2>1, TxnStutter
<1>11. CASE Break
  <2>1. st' = st /\ err' = err
    BY <1>11 DEF Break
  <2>2. QED
    BY <2>1, TxnStutter
<1>12. CASE Finished \/ UNCHANGED vars
  <2>1. st' = st /\ err' = err
    BY <1>12 DEF Finished, vars
  <2>2. QED
    BY <2>1, TxnStutter
<1>13. QED
  BY <1>3, <1>4, <1>5, <1>6, <1>7, <1>8, <1>9, <1>10, <1>11, <1>12 DEF Next

-----------------------------------------------------------------------------
\* Over any number of uses of the msgids, the states and queues of the two
\* ends implement the independent transactions of DmsgTxn: no end sees a
\* stream of one transaction in another that uses the same msgid, nor a close
\* the other end has not sent, unless its own receive side is broken.
THEOREM Refines == Spec => Implements
<1>1. Init => Txn!AbsInit
  BY InitRefines
<1>2. IInv /\ [Next]_vars => [Txn!AbsNext]_(Txn!absvars)
  BY NextRefines
<1>3. QED
  BY <1>1, <1>2, Invariant, PTL DEF Spec, Implements, Txn!AbsSpec
=============================================================================
