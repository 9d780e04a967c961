---------------------------- MODULE TransProofs ----------------------------
(* Proofs about Trans, for every set of threads and every bound. *)
EXTENDS Trans, SeqShapes, FiniteSetTheorems, TLAPS

-----------------------------------------------------------------------------
(* The NEWINODE tail of trans_init keeps the types of the inode numbers. *)
LEMMA NewInodeType ==
  ASSUME TypeOK, NEW t \in Actors, NEW p \in Pmps, NEW fl, NewInode(t, p, fl)
  PROVE  itid' \in [Actors -> Nat] /\ inode_tid' \in [Pmps -> Nat]
<1> DEFINE inum == IF p = Spmp THEN 1
                   ELSE IF inode_tid[p] < HAMMER2_INODE_START THEN HAMMER2_INODE_START
                   ELSE inode_tid[p]
<1>1. inum \in Nat
  BY DEF TypeOK, HAMMER2_INODE_START
<1>2. CASE "NEWINODE" \in fl
  <2>1. /\ itid' = [itid EXCEPT ![t] = inum]
        /\ inode_tid' = IF p = Spmp THEN inode_tid ELSE [inode_tid EXCEPT ![p] = inum + 1]
    BY <1>2, Zenon DEF NewInode
  <2> HIDE DEF inum
  <2>2. QED
    BY <1>1, <2>1 DEF TypeOK
<1>3. CASE "NEWINODE" \notin fl
  BY <1>3 DEF NewInode, TypeOK
<1>4. QED
  BY <1>2, <1>3

-----------------------------------------------------------------------------
(* A transaction arrives *)

\* What hammer2_trans_init does to the queue and to the transactions in it:
\* t, not queued before, stands behind the first n of them.
Arrives(t, n, fl, xid, blk) ==
  /\ n \in 0..Len(transq)
  /\ DOMAIN transq = 1..Len(transq)
  /\ DOMAIN transq' = 1..(Len(transq) + 1)
  /\ \A k \in 1..(Len(transq) + 1) :
       transq'[k] = IF k <= n THEN transq[k] ELSE IF k = n + 1 THEN t ELSE transq[k - 1]
  /\ \A k \in 1..Len(transq) : transq[k] \in Actors /\ transq[k] # t
  /\ flags'[t] = fl /\ sync_xid'[t] = xid /\ blocked'[t] = blk
  /\ pc'[t] = (IF blk THEN "sleep" ELSE "run")
  /\ \A u \in Actors : u # t => /\ flags'[u] = flags[u]
                                /\ sync_xid'[u] = sync_xid[u]
                                /\ blocked'[u] = blocked[u]
                                /\ pc'[u] = pc[u]

\* The queue q is transq with t behind its first n transactions.
Behind(q, n, t) ==
  /\ q \in Seq(Actors) /\ Len(q) = Len(transq) + 1
  /\ n \in 0..Len(transq)
  /\ \A k \in 1..(Len(transq) + 1) :
       q[k] = IF k <= n THEN transq[k] ELSE IF k = n + 1 THEN t ELSE transq[k - 1]

\* The part of TypeOK that Enter is responsible for.
EnterTypes ==
  /\ pc \in [Actors -> {"idle", "synced", "sleep", "run"}]
  /\ flags \in [Actors -> SUBSET TransFlags]
  /\ blocked \in [Actors -> BOOLEAN]
  /\ sync_xid \in [Actors -> Nat]
  /\ tpmp \in [Actors -> Pmps \cup {NULL}]
  /\ \A t \in Actors : pc[t] \in {"sleep", "run"} => tpmp[t] # NULL
  /\ itid \in [Actors -> Nat]
  /\ inode_tid \in [Pmps -> Nat]
  /\ transq \in Seq(Actors)
  /\ panicked \in BOOLEAN

\* Enter with a queue of the right shape is an arrival, and keeps the types.
LEMMA EnterArrives ==
  ASSUME TypeOK, QInv, NEW t \in Actors, pc[t] \notin {"sleep", "run"},
         NEW p \in Pmps, NEW fl \in SUBSET TransFlags, NEW xid \in Nat,
         NEW blk \in BOOLEAN, NEW q, NEW n, Behind(q, n, t),
         Enter(t, p, fl, xid, q, blk)
  PROVE  Arrives(t, n, fl, xid, blk) /\ EnterTypes'
<1> USE DEF Behind
<1>1. transq \in Seq(Actors) /\ DOMAIN transq = 1..Len(transq)
  BY DEF TypeOK
<1>2. \A k \in 1..Len(transq) : transq[k] \in Actors /\ transq[k] # t
  BY <1>1 DEF QInv, QueueHolds, Queued
<1>3. transq' = q /\ DOMAIN transq' = 1..(Len(transq) + 1)
  BY DEF Enter
<1>4. Arrives(t, n, fl, xid, blk)
  BY <1>1, <1>2, <1>3 DEF Arrives, Enter, TypeOK
<1>5. itid' \in [Actors -> Nat] /\ inode_tid' \in [Pmps -> Nat]
  BY NewInodeType DEF Enter, TypeOK
<1>6. pc' \in [Actors -> {"idle", "synced", "sleep", "run"}] /\ blocked' \in [Actors -> BOOLEAN]
  BY DEF Enter, TypeOK
<1>7. flags' \in [Actors -> SUBSET TransFlags]
  BY DEF Enter, TypeOK
<1>8. /\ sync_xid' \in [Actors -> Nat] /\ tpmp' \in [Actors -> Pmps \cup {NULL}]
      /\ \A u \in Actors : pc'[u] \in {"sleep", "run"} => tpmp'[u] # NULL
  BY ActorsAssumption DEF Enter, TypeOK
<1>9. QED
  BY <1>3, <1>4, <1>5, <1>6, <1>7, <1>8 DEF Enter, EnterTypes, TypeOK

\* The arrival keeps the queue's bookkeeping.
LEMMA ArrivalQueue ==
  ASSUME TypeOK, QInv, NEW t \in Actors, NEW n, NEW fl, NEW xid, NEW blk \in BOOLEAN,
         pc[t] \notin {"sleep", "run"},
         "ISFLUSH" \in fl => "BUFCACHE" \notin fl,
         Arrives(t, n, fl, xid, blk)
  PROVE  QueueOnce' /\ QueueHolds' /\ OnlySleepersBlock' /\ FlushNotBufcache'
<1>1. Len(transq) \in Nat
  BY DEF TypeOK
<1>2. QueueOnce'
  <2> SUFFICES ASSUME NEW i \in DOMAIN transq', NEW j \in DOMAIN transq',
                      transq'[i] = transq'[j], i < j
               PROVE  FALSE
    BY <1>1 DEF QueueOnce, Arrives
  <2>1. CASE i <= n /\ j <= n
    BY <1>1, <2>1 DEF QInv, QueueOnce, Arrives
  <2>2. CASE i <= n /\ j = n + 1
    BY <1>1, <2>2 DEF QInv, QueueOnce, Arrives
  <2>3. CASE i <= n /\ j > n + 1
    BY <1>1, <2>3 DEF QInv, QueueOnce, Arrives
  <2>4. CASE i = n + 1 /\ j > n + 1
    BY <1>1, <2>4 DEF QInv, QueueOnce, Arrives
  <2>5. CASE i > n + 1 /\ j > n + 1
    BY <1>1, <2>5 DEF QInv, QueueOnce, Arrives
  <2>6. QED
    BY <1>1, <2>1, <2>2, <2>3, <2>4, <2>5 DEF Arrives
<1>3. \A u \in Actors : Queued(u)' <=> (Queued(u) \/ u = t)
  <2> SUFFICES ASSUME NEW u \in Actors PROVE Queued(u)' <=> (Queued(u) \/ u = t)
    OBVIOUS
  <2>1. ASSUME NEW k \in DOMAIN transq', transq'[k] = u, u # t PROVE Queued(u)
    <3>1. k \in 1..(Len(transq) + 1) /\ k # n + 1
      BY <1>1, <2>1 DEF Arrives
    <3>2. CASE k <= n
      <4>1. k \in DOMAIN transq /\ transq[k] = u
        BY <1>1, <2>1, <3>1, <3>2 DEF Arrives
      <4>2. QED
        BY <4>1 DEF Queued
    <3>3. CASE k > n + 1
      <4>1. k - 1 \in DOMAIN transq /\ transq[k - 1] = u
        BY <1>1, <2>1, <3>1, <3>3 DEF Arrives
      <4>2. QED
        BY <4>1 DEF Queued
    <3>4. QED
      BY <1>1, <3>1, <3>2, <3>3 DEF Arrives
  <2>2. ASSUME NEW k \in DOMAIN transq, transq[k] = u PROVE Queued(u)'
    <3>1. CASE k <= n
      BY <1>1, <2>2, <3>1 DEF Arrives, Queued
    <3>2. CASE k > n
      <4>1. k + 1 \in DOMAIN transq' /\ transq'[k + 1] = u
        BY <1>1, <2>2, <3>2 DEF Arrives
      <4>2. QED
        BY <4>1 DEF Queued
    <3>3. QED
      BY <1>1, <3>1, <3>2 DEF Arrives
  <2>3. n + 1 \in DOMAIN transq' /\ transq'[n + 1] = t
    BY <1>1 DEF Arrives
  <2>4. QED
    BY <2>1, <2>2, <2>3 DEF Queued
<1>4. QueueHolds'
  BY <1>3 DEF QInv, QueueHolds, Arrives
<1>5. OnlySleepersBlock'
  BY DEF QInv, OnlySleepersBlock, Arrives
<1>6. FlushNotBufcache'
  BY DEF QInv, FlushNotBufcache, Arrives, IsFlush, Bufcache
<1>7. QED
  BY <1>2, <1>4, <1>5, <1>6

\* The arrival of a flush, and of no other transaction, adds one to flushcnt.
LEMMA ArrivalCount ==
  ASSUME TypeOK, QInv, QueueHolds', NEW t \in Actors, NEW n, NEW fl, NEW xid,
         NEW blk \in BOOLEAN, pc[t] \notin {"sleep", "run"},
         Arrives(t, n, fl, xid, blk),
         flushcnt' = IF "ISFLUSH" \in fl THEN flushcnt + 1 ELSE flushcnt
  PROVE  FlushCounted' /\ flushcnt' \in Nat
<1> DEFINE F == {u \in Actors : Queued(u) /\ IsFlush(u)}
           G == {u \in Actors : Queued(u)' /\ IsFlush(u)'}
<1>1. IsFiniteSet(F) /\ Cardinality(F) \in Nat /\ flushcnt = Cardinality(F)
  BY FS_Subset, FS_CardinalityType, ActorsAssumption DEF QInv, FlushCounted
<1>2. t \notin F
  BY DEF QInv, QueueHolds
<1>3. Queued(t)' /\ \A u \in Actors : u # t => (Queued(u)' <=> Queued(u))
  BY DEF QInv, QueueHolds, Arrives
<1>4. G = IF "ISFLUSH" \in fl THEN F \cup {t} ELSE F
  BY <1>2, <1>3 DEF Arrives, IsFlush
<1>5. FlushCounted' <=> flushcnt' = Cardinality(G)
  BY DEF FlushCounted
<1> HIDE DEF F, G
<1>6. CASE "ISFLUSH" \in fl
  <2>1. Cardinality(F \cup {t}) = Cardinality(F) + 1
    BY <1>1, <1>2, FS_AddElement
  <2>2. G = F \cup {t} /\ flushcnt' = flushcnt + 1
    BY <1>4, <1>6
  <2>3. QED
    BY <1>1, <1>5, <2>1, <2>2
<1>7. CASE "ISFLUSH" \notin fl
  BY <1>1, <1>4, <1>5, <1>7
<1>8. QED
  BY <1>6, <1>7

\* flushcnt = 0 means that no flush is queued.
LEMMA NoFlushQueued ==
  ASSUME TypeOK, QInv, flushcnt = 0
  PROVE  \A k \in DOMAIN transq : ~IsFlush(transq[k])
<1> DEFINE F == {u \in Actors : Queued(u) /\ IsFlush(u)}
<1>1. IsFiniteSet(F) /\ Cardinality(F) = 0
  BY FS_Subset, ActorsAssumption DEF QInv, FlushCounted
<1>2. F = {}
  BY <1>1, FS_EmptySet
<1>3. QED
  BY <1>2 DEF TypeOK, Queued

-----------------------------------------------------------------------------
(* hammer2_trans_init *)

\* Below the wrap of hammer2_xid_t the next XID is the successor.
LEMMA NextXidSucc ==
  ASSUME NEW x \in Nat, x + 1 < XidMod
  PROVE  NextXid(x) = x + 1
<1>1. XidMod \in Nat /\ XidMod > 0 /\ x + 1 \in 0..(XidMod - 1)
  BY BoundsAssumption
<1>2. (x + 1) % XidMod = x + 1
  BY <1>1
<1>3. QED
  BY <1>2 DEF NextXid

\* A flush queues at the tail with the newest XID and waits unless it is alone.
LEMMA FlushInitInv ==
  ASSUME IInv, NEW t \in Actors, pc[t] \notin {"sleep", "run"}, NEW p \in Pfs,
         NEW fl \in SUBSET TransFlags, "ISFLUSH" \in fl, "BUFCACHE" \notin fl,
         FlushInit(t, p, fl)
  PROVE  IInv'
<1>0. TypeOK /\ QInv /\ WaitInv /\ XidInv /\ ConcurrentBehindFlush
  BY DEF IInv
<1>1. PICK n \in Nat : n = Len(transq) /\ transq \in Seq(Actors) /\ DOMAIN transq = 1..n
  BY <1>0 DEF TypeOK
<1>21. PICK blk \in BOOLEAN : blk <=> n # 0
  OBVIOUS
<1>2. /\ NewXid = alloc_xid /\ flush_xid' = alloc_xid /\ alloc_xid' = alloc_xid + 1
      /\ alloc_xid \in Nat /\ alloc_xid + 1 <= MaxXid /\ alloc_xid = flush_xid + 1
  <2>1. alloc_xid \in Nat /\ alloc_xid < MaxXid /\ alloc_xid = flush_xid + 1 /\ flush_xid \in Nat
    BY <1>0 DEF FlushInit, XidInv, XidLatest, TypeOK
  <2>2. NextXid(alloc_xid) = alloc_xid + 1
    BY <2>1, BoundsAssumption, NextXidSucc
  <2>3. NewXid = alloc_xid
    BY <2>1 DEF NewXid
  <2>4. QED
    BY <2>1, <2>2, <2>3, BoundsAssumption DEF FlushInit
<1>22. PICK xid \in Nat : xid = alloc_xid
  BY <1>2
<1>3. Arrives(t, n, fl, xid, blk) /\ EnterTypes'
  <2>0. Append(transq, t) \in Seq(Actors)
    BY <1>1
  <2>1. PICK q \in Seq(Actors) : q = Append(transq, t)
    BY <2>0
  <2>2. Behind(q, n, t)
    BY <1>1, <2>1, AppendShape DEF Behind
  <2>3. Enter(t, p, fl, xid, q, blk)
    <3>1. (transq # <<>>) = blk
      BY <1>1, <1>21
    <3>2. Enter(t, p, fl, NewXid, Append(transq, t), transq # <<>>)
      BY DEF FlushInit
    <3>3. QED
      BY <1>2, <1>22, <2>1, <3>1, <3>2
  <2>4. p \in Pmps
    BY DEF Pmps
  <2>5. QED
    BY <1>0, <2>2, <2>3, <2>4, EnterArrives
<1>4. QueueOnce' /\ QueueHolds' /\ OnlySleepersBlock' /\ FlushNotBufcache'
  BY <1>0, <1>3, ArrivalQueue
<1>5. FlushCounted' /\ flushcnt' \in Nat
  BY <1>0, <1>3, <1>4, ArrivalCount DEF FlushInit
<1>6. TypeOK'
  <2>1. own_tid' \in [Actors -> Nat]
    BY <1>0 DEF FlushInit, TypeOK, Pmps
  <2>2. alloc_tid' \in [Pmps -> Nat] /\ flush_tid' \in [Pmps -> Nat]
    BY <1>0 DEF FlushInit, TypeOK, Pmps
  <2>3. flush_xid' \in Nat /\ alloc_xid' \in Nat
    BY <1>2
  <2>4. EnterTypes'
    BY <1>3
  <2>5. flushcnt' \in Nat
    BY <1>5
  <2>6. QED
    BY <2>1, <2>2, <2>3, <2>4, <2>5 DEF TypeOK, EnterTypes
<1>7. /\ DOMAIN transq' = 1..(n + 1) /\ transq'[n + 1] = t
      /\ IsFlush(t)' /\ ~Bufcache(t)' /\ (blocked'[t] <=> n # 0) /\ sync_xid'[t] = alloc_xid
      /\ \A k \in 1..n : /\ transq'[k] = transq[k]
                         /\ flags'[transq[k]] = flags[transq[k]]
                         /\ blocked'[transq[k]] = blocked[transq[k]]
                         /\ sync_xid'[transq[k]] = sync_xid[transq[k]]
                         /\ sync_xid[transq[k]] \in Nat
  <2>1. DOMAIN transq' = 1..(n + 1) /\ transq'[n + 1] = t /\ \A k \in 1..n : transq'[k] = transq[k]
    BY <1>1, <1>3 DEF Arrives
  <2>2. IsFlush(t)' /\ ~Bufcache(t)' /\ (blocked'[t] <=> n # 0) /\ sync_xid'[t] = alloc_xid
    BY <1>1, <1>3, <1>22, <1>21 DEF Arrives, IsFlush, Bufcache
  <2>3. \A k \in 1..n : transq[k] \in Actors /\ transq[k] # t
    BY <1>3 DEF Arrives
  <2>4. \A u \in Actors : u # t => /\ flags'[u] = flags[u]
                                   /\ sync_xid'[u] = sync_xid[u]
                                   /\ blocked'[u] = blocked[u]
    BY <1>3 DEF Arrives
  <2>5. \A u \in Actors : sync_xid[u] \in Nat
    BY <1>0 DEF TypeOK
  <2>6. QED
    BY <2>1, <2>2, <2>3, <2>4, <2>5
<1>8. HeadRuns' /\ FlushesWait'
  BY <1>0, <1>1, <1>7 DEF WaitInv, HeadRuns, FlushesWait, IsFlush
<1>9. FrontendsWait'
  BY <1>0, <1>1, <1>7 DEF WaitInv, FrontendsWait, IsFlush, Bufcache
<1>10. OneFlushAhead'
  BY <1>0, <1>1, <1>7 DEF WaitInv, OneFlushAhead, IsFlush
<1>11. \A k \in 1..n : sync_xid[transq[k]] <= alloc_xid
                      /\ (IsFlush(transq[k]) => sync_xid[transq[k]] <= flush_xid)
  <2>1. \A k \in 1..n : sync_xid[transq[k]] <= (IF IsFlush(transq[k]) THEN flush_xid ELSE alloc_xid)
    BY <1>0, <1>1 DEF XidInv, XidLatest
  <2>2. flush_xid \in Nat
    BY <1>0 DEF TypeOK
  <2>3. QED
    BY <1>2, <1>7, <2>1, <2>2
<1>12. XidLatest'
  <2>1. ASSUME NEW k \in 1..(n + 1)
        PROVE  sync_xid'[transq'[k]] <= (IF IsFlush(transq[k])' THEN flush_xid' ELSE alloc_xid')
    <3>1. CASE k \in 1..n
      BY <1>2, <1>7, <1>11, <3>1
    <3>2. CASE k = n + 1
      BY <1>2, <1>7, <3>2
    <3>3. QED
      BY <1>1, <3>1, <3>2
  <2>2. 1 <= flush_xid'
    BY <1>0, <1>2 DEF XidInv, XidLatest, TypeOK
  <2>3. QED
    BY <1>2, <1>7, <2>1, <2>2 DEF XidLatest, IsFlush
<1>13. XidBehindFlush'
  <2>1. ASSUME NEW i \in 1..n, IsFlush(transq[i]) PROVE sync_xid[transq[i]] < alloc_xid
    BY <1>0, <1>2, <1>7, <1>11, <2>1 DEF TypeOK
  <2>2. QED
    BY <1>0, <1>1, <1>7, <2>1 DEF XidInv, XidBehindFlush, IsFlush, Bufcache
<1>14. XidAheadOfFlush'
  BY <1>0, <1>1, <1>7, <1>11 DEF XidInv, XidAheadOfFlush, IsFlush
<1>15. ConcurrentBehindFlush'
  <2>1. \A k \in 1..n : IsFlush(transq[k])' <=> IsFlush(transq[k])
    BY <1>7 DEF IsFlush
  <2>2. ASSUME NEW j \in 1..n, ~IsFlush(transq[j])'
        PROVE  "CONCURRENT" \in flags'[transq'[j]] <=> \E i \in 1..(j - 1) : IsFlush(transq[i])'
    <3>1. "CONCURRENT" \in flags[transq[j]] <=> \E i \in 1..(j - 1) : IsFlush(transq[i])
      BY <1>0, <1>1, <2>1, <2>2 DEF ConcurrentBehindFlush
    <3>2. \A i \in 1..(j - 1) : i \in 1..n
      BY <1>1
    <3>3. QED
      BY <1>7, <2>1, <3>1, <3>2
  <2>3. \A j \in 1..(n + 1) : j \in 1..n \/ j = n + 1
    BY <1>1
  <2>4. QED
    BY <1>7, <2>2, <2>3 DEF ConcurrentBehindFlush
<1>16. QED
  BY <1>4, <1>5, <1>6, <1>8, <1>9, <1>10, <1>12, <1>13, <1>14, <1>15 DEF IInv, QInv, WaitInv, XidInv

\* Without a flush in the queue the newcomer runs at once.
LEMMA FreeInitInv ==
  ASSUME IInv, NEW t \in Actors, pc[t] \notin {"sleep", "run"}, NEW p \in Pmps,
         NEW fl \in SUBSET TransFlags, "ISFLUSH" \notin fl, "CONCURRENT" \notin fl,
         FreeInit(t, p, fl)
  PROVE  IInv'
<1>1. TypeOK /\ QInv /\ WaitInv /\ XidInv /\ ConcurrentBehindFlush
  BY DEF IInv
<1>2. PICK n \in Nat : n = Len(transq) /\ transq \in Seq(Actors) /\ DOMAIN transq = 1..n
  BY <1>1 DEF TypeOK
<1>3. PICK xid \in Nat : xid = alloc_xid /\ NextXid(flush_xid) = xid
  <2>1. flush_xid \in Nat /\ alloc_xid = flush_xid + 1 /\ flush_xid + 1 < XidMod
    BY <1>1, BoundsAssumption DEF XidInv, XidLatest, TypeOK
  <2>2. QED
    BY <2>1, NextXidSucc
<1>4. Arrives(t, n, fl, xid, FALSE) /\ EnterTypes'
  <2>1. Append(transq, t) \in Seq(Actors)
    BY <1>2
  <2>2. PICK q \in Seq(Actors) : q = Append(transq, t)
    BY <2>1
  <2>3. Behind(q, n, t)
    BY <1>2, <2>2, AppendShape DEF Behind
  <2>4. Enter(t, p, fl, xid, q, FALSE)
    BY <1>3, <2>2 DEF FreeInit
  <2>5. QED
    BY <1>1, <2>3, <2>4, EnterArrives
<1>5. QueueOnce' /\ QueueHolds' /\ OnlySleepersBlock' /\ FlushNotBufcache'
  BY <1>1, <1>4, ArrivalQueue
<1>6. FlushCounted' /\ flushcnt' \in Nat
  BY <1>1, <1>4, <1>5, ArrivalCount DEF FreeInit
<1>7. TypeOK'
  BY <1>1, <1>4, <1>6 DEF FreeInit, TypeOK, EnterTypes
<1>8. /\ DOMAIN transq' = 1..(n + 1) /\ transq'[n + 1] = t
      /\ ~IsFlush(t)' /\ "CONCURRENT" \notin flags'[t] /\ ~blocked'[t] /\ sync_xid'[t] = alloc_xid
      /\ \A k \in 1..n : /\ transq'[k] = transq[k]
                         /\ ~IsFlush(transq[k]) /\ ~IsFlush(transq[k])'
                         /\ flags'[transq[k]] = flags[transq[k]]
                         /\ blocked'[transq[k]] = blocked[transq[k]]
                         /\ sync_xid'[transq[k]] = sync_xid[transq[k]]
  <2>1. DOMAIN transq' = 1..(n + 1) /\ transq'[n + 1] = t
        /\ \A k \in 1..n : transq'[k] = transq[k] /\ transq[k] \in Actors /\ transq[k] # t
    BY <1>2, <1>4 DEF Arrives
  <2>2. ~IsFlush(t)' /\ "CONCURRENT" \notin flags'[t] /\ ~blocked'[t] /\ sync_xid'[t] = alloc_xid
    BY <1>3, <1>4 DEF Arrives, IsFlush
  <2>3. \A u \in Actors : u # t => /\ flags'[u] = flags[u]
                                   /\ sync_xid'[u] = sync_xid[u]
                                   /\ blocked'[u] = blocked[u]
    BY <1>4 DEF Arrives
  <2>4. \A k \in 1..n : ~IsFlush(transq[k])
    BY <1>1, <1>2, NoFlushQueued DEF FreeInit
  <2>5. QED
    BY <2>1, <2>2, <2>3, <2>4 DEF IsFlush
<1>9. \A k \in 1..(n + 1) : ~IsFlush(transq[k])'
  BY <1>2, <1>8 DEF IsFlush
<1>10. WaitInv'
  BY <1>1, <1>2, <1>8, <1>9
     DEF WaitInv, HeadRuns, FlushesWait, FrontendsWait, OneFlushAhead, IsFlush
<1>11. XidInv'
  <2>1. XidBehindFlush' /\ XidAheadOfFlush'
    BY <1>8, <1>9 DEF XidBehindFlush, XidAheadOfFlush, IsFlush
  <2>2. UNCHANGED <<flush_xid, alloc_xid>> /\ alloc_xid \in Nat
    BY <1>1 DEF FreeInit, TypeOK
  <2>3. ASSUME NEW k \in 1..(n + 1) PROVE sync_xid'[transq'[k]] <= alloc_xid
    <3>1. CASE k \in 1..n
      <4>1. sync_xid[transq[k]] <= (IF IsFlush(transq[k]) THEN flush_xid ELSE alloc_xid)
        BY <1>1, <1>2, <3>1 DEF XidInv, XidLatest
      <4>2. QED
        BY <1>8, <3>1, <4>1
    <3>2. CASE k = n + 1
      BY <1>8, <2>2, <3>2
    <3>3. QED
      BY <1>2, <3>1, <3>2
  <2>4. XidLatest'
    <3>1. \A k \in 1..(n + 1) :
            sync_xid'[transq'[k]] <= (IF IsFlush(transq[k])' THEN flush_xid' ELSE alloc_xid')
      BY <1>9, <2>2, <2>3
    <3>2. QED
      BY <1>1, <1>8, <2>2, <3>1 DEF XidInv, XidLatest
  <2>5. QED
    BY <2>1, <2>4 DEF XidInv
<1>12. ConcurrentBehindFlush'
  <2>1. \A k \in 1..n : "CONCURRENT" \notin flags[transq[k]]
    BY <1>1, <1>2, <1>8 DEF ConcurrentBehindFlush
  <2>2. \A k \in 1..(n + 1) : "CONCURRENT" \notin flags'[transq'[k]]
    BY <1>2, <1>8, <2>1
  <2>3. QED
    BY <1>2, <1>8, <1>9, <2>2 DEF ConcurrentBehindFlush
<1>13. QED
  BY <1>5, <1>6, <1>7, <1>10, <1>11, <1>12 DEF IInv, QInv

\* A transaction other than a flush arrives behind the first flush of the queue:
\* a buffer-cache write with the flush's XID, or an operation with the next one
\* that waits as FrontendsWait says.
LEMMA BehindFlushInv ==
  ASSUME IInv, NEW t \in Actors, pc[t] \notin {"sleep", "run"}, NEW p \in Pmps,
         NEW fl \in SUBSET TransFlags, "ISFLUSH" \notin fl, "CONCURRENT" \in fl,
         NEW n \in DOMAIN transq, IsFirstFlush(transq, n),
         NEW xid \in Nat,
         xid = IF "BUFCACHE" \in fl THEN sync_xid[transq[n]] ELSE sync_xid[transq[n]] + 1,
         NEW blk \in BOOLEAN, "BUFCACHE" \notin fl /\ (SyncFlush \/ n > 1) => blk,
         Enter(t, p, fl, xid, InsertAt(transq, n + 1, t), blk),
         UNCHANGED <<flush_xid, alloc_xid, flushcnt, alloc_tid, flush_tid, own_tid>>
  PROVE  IInv'
<1>1. TypeOK /\ QInv /\ WaitInv /\ XidInv /\ ConcurrentBehindFlush
  BY DEF IInv
<1>2. PICK N \in Nat : N = Len(transq) /\ transq \in Seq(Actors) /\ DOMAIN transq = 1..N
  BY <1>1 DEF TypeOK
<1>3. Arrives(t, n, fl, xid, blk) /\ EnterTypes'
  <2>1. n \in 0..Len(transq)
    BY <1>2
  <2>2. InsertAt(transq, n + 1, t) \in Seq(Actors)
    BY <1>2, <2>1, InsertAtShape
  <2>3. PICK q \in Seq(Actors) : q = InsertAt(transq, n + 1, t)
    BY <2>2
  <2>4. Behind(q, n, t)
    <3>1. PICK r \in Seq(Actors) : r = transq
      BY <1>2
    <3>2. n \in 0..Len(r) /\ q = InsertAt(r, n + 1, t)
      BY <2>1, <2>3, <3>1
    <3>3. Len(q) = Len(r) + 1
          /\ \A k \in 1..(Len(r) + 1) :
               q[k] = IF k <= n THEN r[k] ELSE IF k = n + 1 THEN t ELSE r[k - 1]
      BY <3>2, InsertAtShape
    <3>4. QED
      BY <2>1, <3>1, <3>3 DEF Behind
  <2>5. Enter(t, p, fl, xid, q, blk)
    BY <2>3
  <2>6. QED
    BY <1>1, <2>4, <2>5, EnterArrives
<1>4. QueueOnce' /\ QueueHolds' /\ OnlySleepersBlock' /\ FlushNotBufcache'
  BY <1>1, <1>3, ArrivalQueue
<1>5. FlushCounted' /\ flushcnt' \in Nat
  BY <1>1, <1>3, <1>4, ArrivalCount
<1>6. TypeOK'
  BY <1>1, <1>3, <1>5 DEF TypeOK, EnterTypes
<1>7. /\ n \in 1..N /\ DOMAIN transq' = 1..(N + 1) /\ transq'[n + 1] = t
      /\ \A k \in 1..n : transq'[k] = transq[k]
      /\ \A k \in (n + 2)..(N + 1) : transq'[k] = transq[k - 1]
  BY <1>2, <1>3 DEF Arrives
<1>8. /\ ~IsFlush(t)' /\ "CONCURRENT" \in flags'[t] /\ sync_xid'[t] = xid
      /\ (Bufcache(t)' <=> "BUFCACHE" \in fl)
      /\ (~Bufcache(t)' /\ (SyncFlush \/ n > 1) => blocked'[t])
  BY <1>3 DEF Arrives, IsFlush, Bufcache
<1> DEFINE o(k) == IF k <= n THEN k ELSE k - 1
<1>9. \A k \in 1..(N + 1) : k # n + 1 =>
        /\ o(k) \in 1..N /\ transq'[k] = transq[o(k)]
        /\ k < n + 1 => o(k) = k
        /\ k > n + 1 => o(k) > n
        /\ \A j \in 1..(N + 1) : j # n + 1 /\ j < k => o(j) < o(k)
  BY <1>2, <1>7
<1> HIDE DEF o
<1>10. \A k \in 1..(N + 1) : k # n + 1 =>
         /\ IsFlush(transq[k])' <=> IsFlush(transq[o(k)])
         /\ Bufcache(transq[k])' <=> Bufcache(transq[o(k)])
         /\ "CONCURRENT" \in flags'[transq'[k]] <=> "CONCURRENT" \in flags[transq[o(k)]]
         /\ blocked'[transq'[k]] <=> blocked[transq[o(k)]]
         /\ sync_xid'[transq'[k]] = sync_xid[transq[o(k)]]
  <2>1. \A k \in 1..N : transq[k] \in Actors /\ transq[k] # t
    BY <1>2, <1>3 DEF Arrives
  <2>2. \A u \in Actors : u # t => /\ flags'[u] = flags[u]
                                   /\ sync_xid'[u] = sync_xid[u]
                                   /\ blocked'[u] = blocked[u]
    BY <1>3 DEF Arrives
  <2>3. QED
    BY <1>9, <2>1, <2>2 DEF IsFlush, Bufcache
<1>11. IsFlush(transq[n]) /\ \A j \in 1..N : j < n => ~IsFlush(transq[j])
  BY <1>7 DEF IsFirstFlush
<1>12. IsFlush(transq[n])' /\ \A j \in 1..(N + 1) : j < n + 1 /\ IsFlush(transq[j])' => j = n
  <2>1. \A j \in 1..(N + 1) : j < n + 1 =>
          j \in 1..N /\ j # n + 1 /\ o(j) = j /\ (IsFlush(transq[j])' <=> IsFlush(transq[j]))
    BY <1>7, <1>9, <1>10
  <2>2. n \in 1..(N + 1) /\ n < n + 1
    BY <1>7
  <2>3. \A j \in 1..N : j < n + 1 /\ j # n => j < n
    BY <1>7
  <2>4. QED
    BY <1>11, <2>1, <2>2, <2>3
<1>13. sync_xid[transq[n]] \in Nat /\ \A k \in 1..N : sync_xid[transq[k]] \in Nat
  <2>1. \A u \in Actors : sync_xid[u] \in Nat
    BY <1>1 DEF TypeOK
  <2>2. \A k \in 1..N : transq[k] \in Actors
    BY <1>2
  <2>3. QED
    BY <1>7, <2>1, <2>2
<1>14. HeadRuns'
  BY <1>1, <1>2, <1>7, <1>9, <1>10 DEF WaitInv, HeadRuns
<1>15. FlushesWait'
  <2> SUFFICES ASSUME NEW i \in 1..(N + 1), i > 1, IsFlush(transq[i])'
               PROVE  blocked'[transq'[i]]
    BY <1>7 DEF FlushesWait
  <2>1. i # n + 1
    BY <1>7, <1>8 DEF IsFlush
  <2>2. o(i) > 1
    BY <1>7, <1>9, <2>1
  <2>3. QED
    BY <1>1, <1>2, <1>9, <1>10, <2>1, <2>2 DEF WaitInv, FlushesWait
<1>16. FrontendsWait'
  <2> SUFFICES ASSUME NEW i \in 1..(N + 1), NEW j \in 1..(N + 1), i < j,
                      IsFlush(transq[i])', ~Bufcache(transq[j])', SyncFlush \/ i > 1
               PROVE  blocked'[transq'[j]]
    BY <1>7 DEF FrontendsWait
  <2>1. i # n + 1
    BY <1>7, <1>8 DEF IsFlush
  <2>2. CASE j = n + 1
    <3>1. i = n
      BY <1>7, <1>12, <2>2
    <3>2. QED
      BY <1>7, <1>8, <2>2, <3>1 DEF Bufcache
  <2>3. CASE j # n + 1
    <3>1. i > 1 => o(i) > 1
      BY <1>7, <1>9, <2>1
    <3>2. QED
      BY <1>1, <1>2, <1>9, <1>10, <2>1, <2>3, <3>1 DEF WaitInv, FrontendsWait
  <2>4. QED
    BY <2>2, <2>3
<1>17. OneFlushAhead'
  <2> SUFFICES ASSUME NEW i \in 1..(N + 1), NEW j \in 1..(N + 1), NEW k \in 1..(N + 1),
                      i < j, j < k, IsFlush(transq[i])', IsFlush(transq[j])'
               PROVE  IsFlush(transq[k])'
    BY <1>7 DEF OneFlushAhead
  <2>1. i # n + 1 /\ j # n + 1
    BY <1>7, <1>8 DEF IsFlush
  <2>2. k # n + 1
    BY <1>7, <1>12
  <2>3. QED
    BY <1>1, <1>2, <1>9, <1>10, <2>1, <2>2 DEF WaitInv, OneFlushAhead
<1>18. XidLatest'
  <2>1. sync_xid[transq[n]] <= flush_xid /\ flush_xid \in Nat /\ alloc_xid = flush_xid + 1
    BY <1>1, <1>2, <1>7, <1>11 DEF XidInv, XidLatest, TypeOK
  <2>2. xid <= alloc_xid
    BY <1>13, <2>1
  <2>3. ASSUME NEW k \in 1..(N + 1)
        PROVE  sync_xid'[transq'[k]] <= (IF IsFlush(transq[k])' THEN flush_xid ELSE alloc_xid)
    <3>1. CASE k = n + 1
      BY <1>7, <1>8, <2>2, <3>1 DEF IsFlush
    <3>2. CASE k # n + 1
      <4>1. sync_xid[transq[o(k)]] <= (IF IsFlush(transq[o(k)]) THEN flush_xid ELSE alloc_xid)
        BY <1>1, <1>2, <1>9, <3>2 DEF XidInv, XidLatest
      <4>2. QED
        BY <1>10, <3>2, <4>1
    <3>3. QED
      BY <3>1, <3>2
  <2>4. QED
    BY <1>1, <1>7, <2>3 DEF XidInv, XidLatest
<1>19. XidBehindFlush'
  <2> SUFFICES ASSUME NEW i \in 1..(N + 1), NEW j \in 1..(N + 1), i < j, IsFlush(transq[i])'
               PROVE  IF Bufcache(transq[j])' THEN sync_xid'[transq'[j]] = sync_xid'[transq'[i]]
                                              ELSE sync_xid'[transq'[j]] > sync_xid'[transq'[i]]
    BY <1>7 DEF XidBehindFlush
  <2>1. i # n + 1
    BY <1>7, <1>8 DEF IsFlush
  <2>2. CASE j = n + 1
    <3>1. i = n
      BY <1>7, <1>12, <2>2
    <3>2. sync_xid'[transq'[i]] = sync_xid[transq[n]]
      BY <1>7, <1>9, <1>10, <3>1
    <3>3. QED
      BY <1>7, <1>8, <1>13, <2>2, <3>2 DEF Bufcache
  <2>3. CASE j # n + 1
    <3>1. o(i) < o(j) /\ IsFlush(transq[o(i)])
      BY <1>9, <1>10, <2>1, <2>3
    <3>2. IF Bufcache(transq[o(j)]) THEN sync_xid[transq[o(j)]] = sync_xid[transq[o(i)]]
                                    ELSE sync_xid[transq[o(j)]] > sync_xid[transq[o(i)]]
      BY <1>1, <1>2, <1>9, <2>1, <2>3, <3>1 DEF XidInv, XidBehindFlush
    <3>3. QED
      BY <1>10, <2>1, <2>3, <3>2
  <2>4. QED
    BY <2>2, <2>3
<1>20. XidAheadOfFlush'
  <2> SUFFICES ASSUME NEW i \in 1..(N + 1), NEW j \in 1..(N + 1), i < j, IsFlush(transq[j])'
               PROVE  sync_xid'[transq'[i]] <= sync_xid'[transq'[j]]
    BY <1>7 DEF XidAheadOfFlush
  <2>1. j # n + 1
    BY <1>7, <1>8 DEF IsFlush
  <2>2. CASE i = n + 1
    <3>1. n < o(j) /\ o(j) \in 1..N /\ IsFlush(transq[o(j)])
      BY <1>7, <1>9, <1>10, <2>1, <2>2
    <3>2. ~Bufcache(transq[o(j)])
      BY <1>1, <1>2, <3>1 DEF QInv, FlushNotBufcache
    <3>3. sync_xid[transq[n]] < sync_xid[transq[o(j)]]
      BY <1>1, <1>2, <1>7, <1>11, <1>13, <3>1, <3>2 DEF XidInv, XidBehindFlush
    <3>4. QED
      BY <1>7, <1>8, <1>10, <1>13, <2>1, <2>2, <3>1, <3>3
  <2>3. CASE i # n + 1
    <3>1. o(i) \in 1..N /\ o(j) \in 1..N /\ o(i) < o(j)
      BY <1>9, <2>1, <2>3
    <3>2. IsFlush(transq[o(j)])
      BY <1>10, <2>1
    <3>3. sync_xid[transq[o(i)]] <= sync_xid[transq[o(j)]]
      BY <1>1, <1>2, <3>1, <3>2 DEF XidInv, XidAheadOfFlush
    <3>4. QED
      BY <1>10, <2>1, <2>3, <3>3
  <2>4. QED
    BY <2>2, <2>3
<1>21. ConcurrentBehindFlush'
  <2> SUFFICES ASSUME NEW j \in 1..(N + 1), ~IsFlush(transq[j])'
               PROVE  "CONCURRENT" \in flags'[transq'[j]]
                        <=> \E i \in 1..(j - 1) : IsFlush(transq[i])'
    BY <1>7 DEF ConcurrentBehindFlush
  <2>1. CASE j = n + 1
    BY <1>7, <1>8, <1>12, <2>1
  <2>2. CASE j > n + 1
    <3>1. n < o(j) /\ o(j) \in 1..N /\ ~IsFlush(transq[o(j)])
      BY <1>7, <1>9, <1>10, <2>2
    <3>2. "CONCURRENT" \in flags[transq[o(j)]]
      BY <1>1, <1>2, <1>7, <1>11, <3>1 DEF ConcurrentBehindFlush
    <3>3. QED
      BY <1>7, <1>10, <1>12, <2>2, <3>2
  <2>3. CASE j < n + 1
    <3>1. \A i \in 1..j : o(i) = i /\ (IsFlush(transq[i])' <=> IsFlush(transq[i]))
      BY <1>7, <1>9, <1>10, <2>3
    <3>2. j \in 1..N /\ o(j) = j /\ j # n + 1 /\ ~IsFlush(transq[j])
      BY <1>7, <2>3, <3>1
    <3>3. "CONCURRENT" \in flags[transq[j]] <=> \E i \in 1..(j - 1) : IsFlush(transq[i])
      BY <1>1, <1>2, <3>2 DEF ConcurrentBehindFlush
    <3>4. \A i \in 1..(j - 1) : IsFlush(transq[i])' <=> IsFlush(transq[i])
      BY <1>7, <3>1, <3>2
    <3>5. QED
      BY <1>10, <3>2, <3>3, <3>4
  <2>4. QED
    BY <1>7, <2>1, <2>2, <2>3
<1>22. QED
  BY <1>4, <1>5, <1>6, <1>14, <1>15, <1>16, <1>17, <1>18, <1>19, <1>20, <1>21
     DEF IInv, QInv, WaitInv, XidInv

\* A buffer-cache transaction that joins the first flush preserves the invariant.
LEMMA BufcacheInitInv ==
  ASSUME IInv, NEW p \in Pfs, pc[p] \notin {"sleep", "run"}, BufcacheInit(p, p)
  PROVE  IInv'
<1>1. PICK n \in DOMAIN transq :
        /\ IsFirstFlush(transq, n)
        /\ Enter(p, p, {"BUFCACHE", "PREFLUSH", "CONCURRENT"},
                 sync_xid[transq[n]], InsertAt(transq, n + 1, p), FALSE)
  BY DEF BufcacheInit
<1>2. sync_xid[transq[n]] \in Nat
  BY <1>1 DEF IInv, TypeOK
<1>3. PICK xid \in Nat : xid = sync_xid[transq[n]]
  BY <1>2
<1>4. UNCHANGED <<flush_xid, alloc_xid, flushcnt, alloc_tid, flush_tid, own_tid>>
  BY DEF BufcacheInit
<1>5. PICK fl \in SUBSET TransFlags : fl = {"BUFCACHE", "PREFLUSH", "CONCURRENT"}
  BY DEF TransFlags
<1>6. p \in Actors /\ p \in Pmps /\ "ISFLUSH" \notin fl /\ "CONCURRENT" \in fl /\ "BUFCACHE" \in fl
  BY <1>5 DEF Actors, Pmps
<1>7. Enter(p, p, fl, xid, InsertAt(transq, n + 1, p), FALSE)
  BY <1>1, <1>3, <1>5
<1>8. QED
  BY <1>1, <1>3, <1>4, <1>6, <1>7, BehindFlushInv

\* A normal operation that goes behind the first flush, as in the last branch of
\* trans_init, preserves the invariant.
LEMMA FrontInitInv ==
  ASSUME IInv, NEW t \in Actors, pc[t] \notin {"sleep", "run"}, NEW p \in Pmps,
         NEW f \in SUBSET TransFlags, "ISFLUSH" \notin f, "BUFCACHE" \notin f, FrontInit(t, p, f)
  PROVE  IInv'
<1>1. PICK n \in DOMAIN transq :
        /\ IsFirstFlush(transq, n)
        /\ Enter(t, p, f \cup {"CONCURRENT"}, NextXid(sync_xid[transq[n]]),
                 InsertAt(transq, n + 1, t), SyncFlush \/ n # 1)
  BY DEF FrontInit
<1>2. sync_xid[transq[n]] \in Nat /\ sync_xid[transq[n]] + 1 < XidMod
  <2>1. sync_xid[transq[n]] \in Nat
    BY <1>1 DEF IInv, TypeOK
  <2>2. sync_xid[transq[n]] <= flush_xid /\ flush_xid \in Nat /\ flush_xid + 1 <= MaxXid
    BY <1>1, <2>1 DEF IInv, XidInv, XidLatest, TypeOK, IsFirstFlush
  <2>3. QED
    BY <2>1, <2>2, BoundsAssumption
<1>3. PICK xid \in Nat : xid = sync_xid[transq[n]] + 1 /\ NextXid(sync_xid[transq[n]]) = xid
  BY <1>2, NextXidSucc
<1>4. UNCHANGED <<flush_xid, alloc_xid, flushcnt, alloc_tid, flush_tid, own_tid>>
  BY DEF FrontInit
<1>5. PICK fl \in SUBSET TransFlags : fl = f \cup {"CONCURRENT"}
  BY DEF TransFlags
<1>6. "ISFLUSH" \notin fl /\ "CONCURRENT" \in fl /\ "BUFCACHE" \notin fl
  BY <1>5
<1>7. PICK blk \in BOOLEAN : blk = (SyncFlush \/ n # 1)
  OBVIOUS
<1>8. n > 1 => blk
  <2>1. n > 1 => n # 1
    BY <1>1 DEF IInv, TypeOK
  <2>2. n # 1 => blk
    BY <1>7
  <2>3. QED
    BY <2>1, <2>2
<1>9. SyncFlush => blk
  BY <1>7
<1>10. Enter(t, p, fl, xid, InsertAt(transq, n + 1, t), blk)
  BY <1>1, <1>3, <1>5, <1>7
<1>11. QED
  BY <1>1, <1>3, <1>4, <1>6, <1>8, <1>9, <1>10, BehindFlushInv

-----------------------------------------------------------------------------
(* Steps that leave the queue alone *)

\* The queue, who waits in it and which XIDs it holds do not depend on the rest.
LEMMA QueueUnchanged ==
  ASSUME IInv, TypeOK', UNCHANGED <<transq, blocked, sync_xid, flush_xid, alloc_xid, flushcnt>>,
         \A u \in Actors : /\ flags'[u] \ {"PREFLUSH"} = flags[u] \ {"PREFLUSH"}
                           /\ pc'[u] = pc[u] \/ (pc[u] = "sleep" /\ pc'[u] = "run" /\ ~blocked[u])
  PROVE  IInv'
<1>1. \A u \in Actors : /\ IsFlush(u)' <=> IsFlush(u)
                        /\ Bufcache(u)' <=> Bufcache(u)
                        /\ "CONCURRENT" \in flags'[u] <=> "CONCURRENT" \in flags[u]
  BY DEF IsFlush, Bufcache
<1>2. \A i \in DOMAIN transq : transq[i] \in Actors
  BY DEF IInv, TypeOK
<1>3. \A i \in DOMAIN transq : /\ IsFlush(transq[i])' <=> IsFlush(transq[i])
                               /\ Bufcache(transq[i])' <=> Bufcache(transq[i])
  BY <1>1, <1>2 DEF IsFlush, Bufcache
<1>4. QInv'
  <2>1. {u \in Actors : Queued(u)' /\ IsFlush(u)'} = {u \in Actors : Queued(u) /\ IsFlush(u)}
    BY <1>1 DEF Queued
  <2>2. FlushCounted'
    BY <2>1 DEF IInv, QInv, FlushCounted
  <2>3. QueueOnce' /\ QueueHolds' /\ OnlySleepersBlock' /\ FlushNotBufcache'
    BY <1>1 DEF IInv, QInv, QueueOnce, QueueHolds, OnlySleepersBlock, FlushNotBufcache, Queued
  <2>4. QED
    BY <2>2, <2>3 DEF QInv
<1>5. WaitInv'
  BY <1>3 DEF IInv, WaitInv, HeadRuns, FlushesWait, FrontendsWait, OneFlushAhead
<1>6. XidInv'
  BY <1>3 DEF IInv, XidInv, XidLatest, XidBehindFlush, XidAheadOfFlush
<1>7. ConcurrentBehindFlush'
  <2>1. DOMAIN transq = 1..Len(transq) /\ Len(transq) \in Nat
    BY DEF IInv, TypeOK
  <2>2. \A j \in DOMAIN transq : \A i \in 1..(j - 1) : IsFlush(transq[i])' <=> IsFlush(transq[i])
    BY <1>3, <2>1
  <2>3. QED
    BY <1>1, <1>2, <1>3, <2>2 DEF IInv, ConcurrentBehindFlush
<1>8. QED
  BY <1>4, <1>5, <1>6, <1>7 DEF IInv

\* Leaving the lksleep loop of trans_init preserves the invariant.
LEMMA ResumeInv ==
  ASSUME IInv, NEW t \in Actors, Resume(t)
  PROVE  IInv'
<1>1. TypeOK /\ tpmp[t] \in Pmps /\ pc[t] = "sleep" /\ ~blocked[t]
  BY DEF IInv, TypeOK, Resume
<1>2. PICK p \in Pmps : p = tpmp[t]
  BY <1>1
<1>3. PICK fl : fl = flags[t]
  OBVIOUS
<1>4. NewInode(t, p, fl)
  BY <1>2, <1>3 DEF Resume
<1>5. itid' \in [Actors -> Nat] /\ inode_tid' \in [Pmps -> Nat]
  BY <1>1, <1>4, NewInodeType
<1>6. TypeOK'
  BY <1>1, <1>5 DEF Resume, TypeOK, mvars
<1>7. QED
  BY <1>1, <1>6, QueueUnchanged DEF Resume, mvars, TypeOK

\* vfs_sync's clearing of PREFLUSH preserves the invariant.
LEMMA ClearPreflushInv ==
  ASSUME IInv, NEW t \in Actors, ClearPreflush(t)
  PROVE  IInv'
<1>1. TypeOK
  BY DEF IInv
<1>2. \A u \in Actors : flags'[u] \ {"PREFLUSH"} = flags[u] \ {"PREFLUSH"}
  BY <1>1 DEF ClearPreflush, TypeOK
<1>3. flags' \in [Actors -> SUBSET TransFlags]
  BY <1>1 DEF ClearPreflush, TypeOK
<1>4. TypeOK'
  BY <1>1, <1>3 DEF ClearPreflush, TypeOK, mvars, pvars
<1>5. QED
  BY <1>2, <1>4, QueueUnchanged DEF ClearPreflush, mvars

\* hammer2_trans_spmp preserves the invariant: it touches no queue field.
LEMMA TransSpmpInv ==
  ASSUME IInv, NEW t \in Actors, TransSpmp(t)
  PROVE  IInv'
<1>1. TypeOK /\ Spmp \in Pmps /\ Spmp # NULL
  BY ActorsAssumption DEF IInv, Pmps
<1>2. TypeOK'
  <2>1. flush_tid' \in [Pmps -> Nat] /\ alloc_tid' \in [Pmps -> Nat] /\ own_tid' \in [Actors -> Nat]
    <3>1. alloc_tid' \in [Pmps -> Nat]
      BY <1>1 DEF TransSpmp, TypeOK
    <3>2. flush_tid' \in [Pmps -> Nat]
      BY <1>1 DEF TransSpmp, TypeOK
    <3>3. own_tid' \in [Actors -> Nat]
      BY <1>1 DEF TransSpmp, TypeOK
    <3>4. QED
      BY <3>1, <3>2, <3>3
  <2>2. tpmp' \in [Actors -> Pmps \cup {NULL}]
        /\ \A u \in Actors : pc'[u] \in {"sleep", "run"} => tpmp'[u] # NULL
    BY <1>1 DEF TransSpmp, TypeOK
  <2>3. QED
    BY <1>1, <2>1, <2>2 DEF TransSpmp, TypeOK, mvars
<1>3. QED
  BY <1>2, QueueUnchanged DEF TransSpmp, mvars

-----------------------------------------------------------------------------
(* hammer2_trans_done *)

\* What hammer2_trans_done does to the queue: t leaves position n, position k
\* then holds what position o[k] held, and of the others only CONCURRENT and
\* blocked change, blocked as Unblocks says.
Leaves(t, n, N, o) ==
  /\ N \in Nat /\ n \in 1..N
  /\ DOMAIN transq = 1..N /\ transq[n] = t
  /\ DOMAIN transq' = 1..(N - 1)
  /\ \A k \in 1..(N - 1) : /\ o[k] \in 1..N /\ o[k] # n /\ transq'[k] = transq[o[k]]
                           /\ k < n => o[k] = k
                           /\ k >= n => o[k] = k + 1
  /\ \A k \in 1..N : transq[k] \in Actors /\ (k # n => transq[k] # t)
  /\ flags'[t] = {} /\ pc'[t] \notin {"sleep", "run"} /\ ~blocked[t] /\ ~blocked'[t]
  /\ \A u \in Actors : u # t => /\ IsFlush(u)' <=> IsFlush(u)
                                /\ Bufcache(u)' <=> Bufcache(u)
                                /\ sync_xid'[u] = sync_xid[u]
                                /\ pc'[u] = pc[u]
                                /\ blocked'[u] => blocked[u]

\* hammer2_trans_done of t takes position n out of the queue; the flags and the
\* blocked bits of the others change only as UpToFlush of the new queue says.
LEMMA DoneLeaves ==
  ASSUME TypeOK, QInv, NEW t \in Actors, TransDone(t),
         NEW n \in DOMAIN transq, transq[n] = t
  PROVE  /\ transq' = RemoveAt(transq, n)
         /\ transq' \in Seq(Actors)
         /\ flags' = [u \in Actors |->
                       IF u = t THEN {}
                       ELSE IF u \in ClearConcurrent(t, transq') THEN flags[u] \ {"CONCURRENT"}
                       ELSE flags[u]]
         /\ blocked' = [u \in Actors |-> blocked[u] /\ u \notin Unblocks(transq')]
         /\ \E N, o : Leaves(t, n, N, o)
<1>1. PICK m \in DOMAIN transq :
        /\ transq[m] = t
        /\ transq' = RemoveAt(transq, m)
        /\ flags' = [u \in Actors |->
                      IF u = t THEN {}
                      ELSE IF u \in ClearConcurrent(t, RemoveAt(transq, m))
                           THEN flags[u] \ {"CONCURRENT"}
                      ELSE flags[u]]
        /\ blocked' = [u \in Actors |-> blocked[u] /\ u \notin Unblocks(RemoveAt(transq, m))]
  BY Zenon DEF TransDone
<1>2. m = n
  BY <1>1 DEF QInv, QueueOnce
<1>3. /\ transq' = RemoveAt(transq, n)
      /\ flags' = [u \in Actors |->
                    IF u = t THEN {}
                    ELSE IF u \in ClearConcurrent(t, transq') THEN flags[u] \ {"CONCURRENT"}
                    ELSE flags[u]]
      /\ blocked' = [u \in Actors |-> blocked[u] /\ u \notin Unblocks(transq')]
  BY <1>1, <1>2
<1>4. PICK r \in Seq(Actors) : r = transq
  BY DEF TypeOK
<1>5. PICK N \in Nat : N = Len(r) /\ DOMAIN r = 1..N
  BY <1>4
<1>6. /\ RemoveAt(r, n) \in Seq(Actors)
      /\ DOMAIN RemoveAt(r, n) = 1..(N - 1)
      /\ \A k \in 1..(N - 1) : RemoveAt(r, n)[k] = IF k < n THEN r[k] ELSE r[k + 1]
  BY <1>4, <1>5, RemoveAtShape
<1>7. PICK o : o = [k \in 1..(N - 1) |-> IF k < n THEN k ELSE k + 1]
  OBVIOUS
<1>8. Leaves(t, n, N, o)
  <2>1. DOMAIN transq = 1..N /\ n \in 1..N /\ DOMAIN transq' = 1..(N - 1)
    BY <1>3, <1>4, <1>5, <1>6
  <2>2. \A k \in 1..(N - 1) : /\ o[k] \in 1..N /\ o[k] # n /\ transq'[k] = transq[o[k]]
                              /\ k < n => o[k] = k
                              /\ k >= n => o[k] = k + 1
    BY <1>3, <1>4, <1>6, <1>7, <2>1
  <2>3. \A k \in 1..N : transq[k] \in Actors /\ (k # n => transq[k] # t)
    <3>1. \A k \in 1..N : transq[k] \in Actors
      BY <1>4, <2>1
    <3>2. \A k \in 1..N : transq[k] = transq[n] => k = n
      BY <2>1 DEF QInv, QueueOnce
    <3>3. QED
      BY <3>1, <3>2
  <2>4. flags'[t] = {} /\ pc'[t] \notin {"sleep", "run"} /\ ~blocked[t] /\ ~blocked'[t]
    <3>1. flags'[t] = {}
      BY <1>3
    <3>2. ~blocked[t]
      BY DEF TransDone, QInv, OnlySleepersBlock
    <3>3. ~blocked'[t]
      BY <1>3, <3>2
    <3>4. pc'[t] \in {"idle", "synced"}
      BY DEF TransDone, TypeOK
    <3>5. QED
      BY <3>1, <3>2, <3>3, <3>4
  <2>5. \A u \in Actors : u # t => /\ IsFlush(u)' <=> IsFlush(u)
                                   /\ Bufcache(u)' <=> Bufcache(u)
    BY <1>3 DEF IsFlush, Bufcache
  <2>6. \A u \in Actors : u # t => sync_xid'[u] = sync_xid[u] /\ pc'[u] = pc[u]
    BY DEF TransDone, TypeOK
  <2>7. \A u \in Actors : blocked'[u] => blocked[u]
    BY <1>3
  <2>8. QED
    BY <2>1, <2>2, <2>3, <2>4, <2>5, <2>6, <2>7 DEF Leaves
<1>9. QED
  BY <1>3, <1>4, <1>6, <1>8

\* hammer2_trans_done preserves the invariant: whoever gets to the head is
\* unblocked, and those behind the next flush keep waiting.
LEMMA TransDoneInv ==
  ASSUME IInv, NEW t \in Actors, TransDone(t)
  PROVE  IInv'
<1>1. TypeOK /\ QInv /\ WaitInv /\ XidInv /\ ConcurrentBehindFlush
  BY DEF IInv
<1>2. PICK n \in DOMAIN transq : transq[n] = t
  BY <1>1 DEF TransDone
<1>3. PICK N, o : Leaves(t, n, N, o)
  BY <1>1, <1>2, DoneLeaves
<1>4. /\ transq' \in Seq(Actors)
      /\ flags' = [u \in Actors |->
                    IF u = t THEN {}
                    ELSE IF u \in ClearConcurrent(t, transq') THEN flags[u] \ {"CONCURRENT"}
                    ELSE flags[u]]
      /\ blocked' = [u \in Actors |-> blocked[u] /\ u \notin Unblocks(transq')]
  BY <1>1, <1>2, DoneLeaves
<1>5. /\ N \in Nat /\ n \in 1..N /\ DOMAIN transq = 1..N /\ DOMAIN transq' = 1..(N - 1)
      /\ \A k \in 1..(N - 1) :
           /\ o[k] \in 1..N /\ o[k] # n /\ transq'[k] = transq[o[k]]
           /\ k > 1 => o[k] > 1
           /\ \A j \in 1..(N - 1) : j < k => o[j] < o[k]
  <2>1. N \in Nat /\ n \in 1..N /\ DOMAIN transq = 1..N /\ DOMAIN transq' = 1..(N - 1)
    BY <1>3 DEF Leaves
  <2>2. \A k \in 1..(N - 1) : o[k] \in 1..N /\ o[k] # n /\ transq'[k] = transq[o[k]]
    BY <1>3 DEF Leaves
  <2>3. \A k \in 1..(N - 1) : o[k] = IF k < n THEN k ELSE k + 1
    BY <1>3, <2>1 DEF Leaves
  <2>4. \A k, j \in 1..(N - 1) : (k > 1 => o[k] > 1) /\ (j < k => o[j] < o[k])
    BY <2>1, <2>3
  <2>5. QED
    BY <2>1, <2>2, <2>4
<1>6. \A k \in 1..(N - 1) :
        /\ IsFlush(transq[k])' <=> IsFlush(transq[o[k]])
        /\ Bufcache(transq[k])' <=> Bufcache(transq[o[k]])
        /\ sync_xid'[transq'[k]] = sync_xid[transq[o[k]]]
        /\ transq'[k] \in Actors /\ transq'[k] # t
  <2>1. \A k \in 1..(N - 1) : transq'[k] \in Actors /\ transq'[k] # t
    BY <1>3 DEF Leaves
  <2>2. \A u \in Actors : u # t => /\ "ISFLUSH" \in flags'[u] <=> "ISFLUSH" \in flags[u]
                                   /\ "BUFCACHE" \in flags'[u] <=> "BUFCACHE" \in flags[u]
                                   /\ sync_xid'[u] = sync_xid[u]
    BY <1>3 DEF Leaves, IsFlush, Bufcache
  <2>3. QED
    BY <1>5, <2>1, <2>2 DEF IsFlush, Bufcache
<1>7. QueueOnce'
  <2> SUFFICES ASSUME NEW i \in 1..(N - 1), NEW j \in 1..(N - 1), i < j, transq'[i] = transq'[j]
               PROVE  FALSE
    BY <1>5 DEF QueueOnce
  <2>1. o[i] = o[j]
    BY <1>1, <1>5 DEF QInv, QueueOnce
  <2>2. QED
    BY <1>5, <2>1
<1>8. \A u \in Actors : Queued(u)' <=> (Queued(u) /\ u # t)
  <2> SUFFICES ASSUME NEW u \in Actors PROVE Queued(u)' <=> (Queued(u) /\ u # t)
    OBVIOUS
  <2>1. ASSUME NEW k \in 1..(N - 1), transq'[k] = u PROVE Queued(u) /\ u # t
    BY <1>5, <1>6, <2>1 DEF Queued
  <2>2. ASSUME NEW k \in 1..N, transq[k] = u, u # t PROVE Queued(u)'
    <3>1. k # n
      BY <1>2, <2>2
    <3>2. CASE k < n
      <4>1. k \in 1..(N - 1) /\ o[k] = k
        BY <1>3, <3>2 DEF Leaves
      <4>2. QED
        BY <1>5, <2>2, <4>1 DEF Queued
    <3>3. CASE k > n
      <4>1. k - 1 \in 1..(N - 1) /\ o[k - 1] = k
        BY <1>3, <3>3 DEF Leaves
      <4>2. QED
        BY <1>5, <2>2, <4>1 DEF Queued
    <3>4. QED
      BY <1>5, <3>1, <3>2, <3>3
  <2>3. QED
    BY <1>5, <2>1, <2>2 DEF Queued
<1>9. QueueHolds'
  BY <1>1, <1>3, <1>8 DEF QInv, QueueHolds, Leaves
<1>10. OnlySleepersBlock' /\ FlushNotBufcache'
  BY <1>1, <1>3 DEF QInv, OnlySleepersBlock, FlushNotBufcache, Leaves, IsFlush, Bufcache
<1>11. FlushCounted' /\ flushcnt' \in Nat
  <2> DEFINE F == {u \in Actors : Queued(u) /\ IsFlush(u)}
             G == {u \in Actors : Queued(u)' /\ IsFlush(u)'}
  <2>1. IsFiniteSet(F) /\ Cardinality(F) \in Nat /\ flushcnt = Cardinality(F)
    BY <1>1, FS_Subset, FS_CardinalityType, ActorsAssumption DEF QInv, FlushCounted
  <2>2. G = F \ {t} /\ (t \in F <=> IsFlush(t))
    <3>1. Queued(t)
      BY <1>2 DEF Queued
    <3>2. \A u \in Actors : u # t => (IsFlush(u)' <=> IsFlush(u))
      BY <1>3 DEF Leaves
    <3>3. QED
      BY <1>8, <3>1, <3>2
  <2>3. FlushCounted' <=> flushcnt' = Cardinality(G)
    BY DEF FlushCounted
  <2>4. flushcnt' = IF IsFlush(t) THEN flushcnt - 1 ELSE flushcnt
    BY DEF TransDone, DropFlushcnt
  <2> HIDE DEF F, G
  <2>5. Cardinality(G) \in Nat /\ Cardinality(G) = IF t \in F THEN Cardinality(F) - 1 ELSE Cardinality(F)
    BY <2>1, <2>2, FS_RemoveElement, FS_CardinalityType
  <2>6. QED
    BY <2>1, <2>2, <2>3, <2>4, <2>5
<1>12. TypeOK'
  <2>1. flags' \in [Actors -> SUBSET TransFlags]
    BY <1>1, <1>4 DEF TypeOK
  <2>2. blocked' \in [Actors -> BOOLEAN]
    BY <1>4
  <2>3. pc' \in [Actors -> {"idle", "synced", "sleep", "run"}]
    BY <1>1 DEF TransDone, TypeOK
  <2>4. sync_xid' \in [Actors -> Nat] /\ itid' \in [Actors -> Nat] /\ own_tid' \in [Actors -> Nat]
    BY <1>1 DEF TransDone, TypeOK
  <2>5. tpmp' \in [Actors -> Pmps \cup {NULL}]
        /\ \A u \in Actors : pc'[u] \in {"sleep", "run"} => tpmp'[u] # NULL
    <3>1. tpmp' = [tpmp EXCEPT ![t] = NULL]
      BY DEF TransDone
    <3>2. pc'[t] \notin {"sleep", "run"} /\ \A u \in Actors : u # t => pc'[u] = pc[u]
      BY <1>3 DEF Leaves
    <3>3. QED
      BY <1>1, <3>1, <3>2 DEF TypeOK
  <2>6. QED
    BY <1>1, <1>4, <1>11, <2>1, <2>2, <2>3, <2>4, <2>5 DEF TransDone, TypeOK, pvars
<1>13. \A k \in 1..(N - 1) : blocked[transq[o[k]]] /\ transq'[k] \notin Unblocks(transq')
                             => blocked'[transq'[k]]
  BY <1>4, <1>5, <1>6
<1>14. HeadRuns'
  <2> SUFFICES ASSUME transq' # <<>> PROVE ~blocked'[transq'[1]]
    BY DEF HeadRuns
  <2>1. transq'[1] \in Actors
    BY <1>4
  <2>2. blocked[transq'[1]] => transq'[1] \in Unblocks(transq')
    BY Zenon DEF Unblocks
  <2>3. QED
    BY <1>4, <2>1, <2>2
<1>15. \A i, j \in 1..(N - 1) :
         i <= j /\ IsFlush(transq[i])' /\ (SyncFlush \/ i > 1) /\ j > 1
           => transq'[j] \notin Unblocks(transq')
  <2> SUFFICES ASSUME NEW i \in 1..(N - 1), NEW j \in 1..(N - 1), i <= j, j > 1,
                      IsFlush(transq[i])', SyncFlush \/ i > 1,
                      transq'[j] \in Unblocks(transq')
               PROVE  FALSE
    BY <1>5
  <2>1. \A k \in 1..(N - 1) : transq'[k] = transq'[j] => k = j
    BY <1>5, <1>7 DEF QueueOnce
  <2>2. 1 \in 1..(N - 1) /\ transq'[j] # transq'[1]
    BY <1>5, <2>1
  <2>3. PICK s \in {1, 2} : s = IF SyncFlush THEN 1 ELSE 2
    BY BoundsAssumption
  <2>4. transq'[j] \in UpToFlush(transq', s)
    BY <2>2, <2>3 DEF Unblocks
  <2>5. PICK k \in DOMAIN transq' : k >= s /\ transq'[k] = transq'[j]
                                    /\ \A h \in s..k : ~IsFlush(transq'[h])
    BY <2>4 DEF UpToFlush
  <2>6. k = j
    BY <1>5, <2>1, <2>5
  <2>7. i \in s..k
    BY <1>5, <2>3, <2>6
  <2>8. ~IsFlush(transq'[i])
    BY <2>5, <2>7
  <2>9. IsFlush(transq'[i])
    <3>1. IsFlush(transq[o[i]]) /\ transq'[i] = transq[o[i]]
      BY <1>5, <1>6
    <3>2. QED
      BY <3>1 DEF IsFlush
  <2>10. QED
    BY <2>8, <2>9
<1>16. FlushesWait'
  <2> SUFFICES ASSUME NEW i \in 1..(N - 1), i > 1, IsFlush(transq[i])'
               PROVE  blocked'[transq'[i]]
    BY <1>5 DEF FlushesWait
  <2>1. blocked[transq[o[i]]]
    BY <1>1, <1>5, <1>6 DEF WaitInv, FlushesWait
  <2>2. transq'[i] \notin Unblocks(transq')
    BY <1>5, <1>15
  <2>3. QED
    BY <1>13, <2>1, <2>2
<1>17. FrontendsWait'
  <2> SUFFICES ASSUME NEW i \in 1..(N - 1), NEW j \in 1..(N - 1), i < j,
                      IsFlush(transq[i])', ~Bufcache(transq[j])', SyncFlush \/ i > 1
               PROVE  blocked'[transq'[j]]
    BY <1>5 DEF FrontendsWait
  <2>1. blocked[transq[o[j]]]
    BY <1>1, <1>5, <1>6 DEF WaitInv, FrontendsWait
  <2>2. transq'[j] \notin Unblocks(transq')
    BY <1>5, <1>15
  <2>3. QED
    BY <1>13, <2>1, <2>2
<1>18. OneFlushAhead'
  <2> SUFFICES ASSUME NEW i \in 1..(N - 1), NEW j \in 1..(N - 1), NEW k \in 1..(N - 1),
                      i < j, j < k, IsFlush(transq[i])', IsFlush(transq[j])'
               PROVE  IsFlush(transq[k])'
    BY <1>5 DEF OneFlushAhead
  <2>1. QED
    BY <1>1, <1>5, <1>6 DEF WaitInv, OneFlushAhead
<1>19. XidLatest'
  <2>1. UNCHANGED <<flush_xid, alloc_xid>>
    BY DEF TransDone
  <2>2. ASSUME NEW k \in 1..(N - 1)
        PROVE  sync_xid'[transq'[k]] <= (IF IsFlush(transq[k])' THEN flush_xid ELSE alloc_xid)
    <3>1. sync_xid[transq[o[k]]] <= (IF IsFlush(transq[o[k]]) THEN flush_xid ELSE alloc_xid)
      BY <1>1, <1>5 DEF XidInv, XidLatest
    <3>2. QED
      BY <1>6, <3>1
  <2>3. QED
    BY <1>1, <1>5, <2>1, <2>2 DEF XidInv, XidLatest
<1>20. XidBehindFlush'
  <2> SUFFICES ASSUME NEW i \in 1..(N - 1), NEW j \in 1..(N - 1), i < j, IsFlush(transq[i])'
               PROVE  IF Bufcache(transq[j])' THEN sync_xid'[transq'[j]] = sync_xid'[transq'[i]]
                                              ELSE sync_xid'[transq'[j]] > sync_xid'[transq'[i]]
    BY <1>5 DEF XidBehindFlush
  <2>1. o[i] < o[j] /\ IsFlush(transq[o[i]])
    BY <1>5, <1>6
  <2>2. IF Bufcache(transq[o[j]]) THEN sync_xid[transq[o[j]]] = sync_xid[transq[o[i]]]
                                  ELSE sync_xid[transq[o[j]]] > sync_xid[transq[o[i]]]
    BY <1>1, <1>5, <2>1 DEF XidInv, XidBehindFlush
  <2>3. QED
    BY <1>6, <2>2
<1>21. XidAheadOfFlush'
  <2> SUFFICES ASSUME NEW i \in 1..(N - 1), NEW j \in 1..(N - 1), i < j, IsFlush(transq[j])'
               PROVE  sync_xid'[transq'[i]] <= sync_xid'[transq'[j]]
    BY <1>5 DEF XidAheadOfFlush
  <2>1. o[i] < o[j] /\ IsFlush(transq[o[j]])
    BY <1>5, <1>6
  <2>2. sync_xid[transq[o[i]]] <= sync_xid[transq[o[j]]]
    BY <1>1, <1>5, <2>1 DEF XidInv, XidAheadOfFlush
  <2>3. QED
    BY <1>6, <2>2
<1>22. ConcurrentBehindFlush'
  <2> SUFFICES ASSUME NEW j \in 1..(N - 1), ~IsFlush(transq[j])'
               PROVE  "CONCURRENT" \in flags'[transq'[j]]
                        <=> \E i \in 1..(j - 1) : IsFlush(transq[i])'
    BY <1>5 DEF ConcurrentBehindFlush
  <2>1. "CONCURRENT" \in flags[transq[o[j]]] <=> \E i \in 1..(o[j] - 1) : IsFlush(transq[i])
    BY <1>1, <1>5, <1>6 DEF ConcurrentBehindFlush
  <2>2. \A i \in 1..(N - 1) : IsFlush(transq'[i]) <=> IsFlush(transq[i])'
    <3>1. \A i \in 1..(N - 1) : IsFlush(transq'[i]) <=> IsFlush(transq[o[i]])
      BY <1>5 DEF IsFlush
    <3>2. QED
      BY <1>6, <3>1
  <2>3. CASE IsFlush(t)
    <3>1. n = 1
      BY <1>1, <1>2, <1>3, <1>5, <2>3 DEF WaitInv, FlushesWait, Leaves
    <3>2. \A k \in 1..(N - 1) : o[k] = k + 1
      BY <1>3, <3>1 DEF Leaves
    <3>3. "CONCURRENT" \in flags[transq'[j]]
      BY <1>2, <1>5, <2>1, <2>3, <3>1, <3>2
    <3>4. ClearConcurrent(t, transq') = UpToFlush(transq', 1)
      BY <2>3 DEF ClearConcurrent
    <3>5. transq'[j] \in UpToFlush(transq', 1) <=> \A h \in 1..j : ~IsFlush(transq'[h])
      <4>1. \A k \in 1..(N - 1) : transq'[k] = transq'[j] => k = j
        BY <1>5, <1>7 DEF QueueOnce
      <4>2. QED
        BY <1>5, <4>1 DEF UpToFlush
    <3>6. (\A h \in 1..j : ~IsFlush(transq'[h])) <=> ~(\E i \in 1..(j - 1) : IsFlush(transq[i])')
      <4>1. ~IsFlush(transq'[j])
        BY <2>2
      <4>2. \A h \in 1..j : h \in 1..(N - 1) /\ (h = j \/ h \in 1..(j - 1))
        BY <1>5
      <4>3. \A h \in 1..(j - 1) : h \in 1..j
        BY <1>5
      <4>4. QED
        BY <2>2, <4>1, <4>2, <4>3
    <3>7. "CONCURRENT" \in flags'[transq'[j]] <=> transq'[j] \notin UpToFlush(transq', 1)
      BY <1>4, <1>6, <3>3, <3>4
    <3>8. QED
      BY <3>5, <3>6, <3>7
  <2>4. CASE ~IsFlush(t)
    <3>1. flags'[transq'[j]] = flags[transq[o[j]]]
      BY <1>4, <1>5, <1>6, <2>4 DEF ClearConcurrent
    <3>2. ASSUME NEW i \in 1..(j - 1), IsFlush(transq[i])'
          PROVE  \E h \in 1..(o[j] - 1) : IsFlush(transq[h])
      <4>1. i \in 1..(N - 1) /\ o[i] \in 1..(o[j] - 1)
        BY <1>5
      <4>2. QED
        BY <1>6, <3>2, <4>1
    <3>3. ASSUME NEW h \in 1..(o[j] - 1), IsFlush(transq[h])
          PROVE  \E i \in 1..(j - 1) : IsFlush(transq[i])'
      <4>1. h # n
        BY <1>2, <2>4, <3>3
      <4>2. PICK i \in 1..(j - 1) : o[i] = h
        <5>1. CASE h < n
          <6>1. h \in 1..(j - 1) /\ o[h] = h
            BY <1>3, <1>5, <5>1 DEF Leaves
          <6>2. QED
            BY <6>1
        <5>2. CASE h > n
          <6>0. o[j] = (IF j < n THEN j ELSE j + 1)
            BY <1>3, <1>5 DEF Leaves
          <6>1. h - 1 \in 1..(j - 1)
            BY <1>5, <5>2, <6>0
          <6>2. h - 1 \in 1..(N - 1) /\ h - 1 >= n
            BY <1>5, <5>2, <6>1
          <6>3. o[h - 1] = h
            BY <1>3, <1>5, <5>2, <6>2 DEF Leaves
          <6>4. QED
            BY <6>1, <6>3
        <5>3. QED
          BY <1>5, <4>1, <5>1, <5>2
      <4>3. i \in 1..(N - 1)
        BY <1>5
      <4>4. QED
        BY <1>6, <3>3, <4>2, <4>3
    <3>4. QED
      BY <2>1, <3>1, <3>2, <3>3
  <2>5. QED
    BY <2>3, <2>4
<1>23. QED
  BY <1>7, <1>9, <1>10, <1>11, <1>12, <1>14, <1>16, <1>17, <1>18, <1>19, <1>20, <1>21, <1>22
     DEF IInv, QInv, WaitInv, XidInv

-----------------------------------------------------------------------------
(* The invariant and what follows from it *)

\* The invariant holds after hammer2_trans_manage_init and hammer2_pfsalloc.
LEMMA InitInv == Init => IInv
<1> SUFFICES ASSUME Init PROVE IInv
  OBVIOUS
<1>1. transq = <<>> /\ transq \in Seq(Actors) /\ DOMAIN transq = {}
  BY DEF Init
<1>2. TypeOK
  <2>1. /\ alloc_tid \in [Pmps -> Nat] /\ flush_tid \in [Pmps -> Nat]
        /\ inode_tid \in [Pmps -> Nat]
    BY DEF Init, NewfsTid, NewfsInum
  <2>2. /\ flags \in [Actors -> SUBSET TransFlags] /\ blocked \in [Actors -> BOOLEAN]
        /\ pc \in [Actors -> {"idle", "synced", "sleep", "run"}]
        /\ \A t \in Actors : pc[t] \in {"sleep", "run"} => tpmp[t] # NULL
        /\ tpmp \in [Actors -> Pmps \cup {NULL}]
    BY DEF Init
  <2>3. /\ sync_xid \in [Actors -> Nat] /\ itid \in [Actors -> Nat]
        /\ own_tid \in [Actors -> Nat] /\ flush_xid \in Nat /\ alloc_xid \in Nat
        /\ flushcnt \in Nat /\ panicked \in BOOLEAN
    BY DEF Init
  <2>4. QED
    BY <1>1, <2>1, <2>2, <2>3 DEF TypeOK
<1>3. FlushCounted
  <2>1. {u \in Actors : Queued(u) /\ IsFlush(u)} = {}
    BY <1>1 DEF Queued
  <2>2. QED
    BY <2>1, FS_EmptySet DEF Init, FlushCounted
<1>4. QInv
  BY <1>1, <1>3 DEF Init, QInv, QueueOnce, QueueHolds, Queued, OnlySleepersBlock,
                    FlushNotBufcache, IsFlush
<1>5. WaitInv
  BY <1>1 DEF WaitInv, HeadRuns, FlushesWait, FrontendsWait, OneFlushAhead
<1>6. XidInv
  BY <1>1, BoundsAssumption DEF Init, XidInv, XidLatest, XidBehindFlush, XidAheadOfFlush
<1>7. QED
  BY <1>1, <1>2, <1>4, <1>5, <1>6 DEF IInv, ConcurrentBehindFlush

\* Every step of the transaction manager preserves the invariant: one case per
\* disjunct of Step.
LEMMA StepInv == IInv /\ [Next]_vars => IInv'
<1> SUFFICES ASSUME IInv, [Next]_vars PROVE IInv'
  OBVIOUS
<1>1. CASE UNCHANGED vars
  <2>1. UNCHANGED <<transq, blocked, sync_xid, flush_xid, alloc_xid, flushcnt, flags, pc>> /\ TypeOK'
    BY <1>1 DEF vars, tvars, mvars, pvars, IInv, TypeOK
  <2>2. QED
    BY <2>1, QueueUnchanged
<1>2. ASSUME NEW t \in Threads, NEW p \in Pfs, VfsSync(t, p) PROVE IInv'
  <2>1. PICK fl \in SUBSET TransFlags : fl = {"ISFLUSH", "PREFLUSH"}
    BY DEF TransFlags
  <2>2. t \in Actors /\ pc[t] \notin {"sleep", "run"} /\ FlushInit(t, p, fl)
        /\ "ISFLUSH" \in fl /\ "BUFCACHE" \notin fl
    BY <1>2, <2>1 DEF VfsSync, Actors
  <2>3. QED
    BY <2>2, FlushInitInv
<1>3. ASSUME NEW t \in Threads, NEW p \in Pfs, Snapshot(t, p) PROVE IInv'
  <2>1. PICK fl \in SUBSET TransFlags : fl = {"ISFLUSH", "NEWINODE"}
    BY DEF TransFlags
  <2>2. t \in Actors /\ pc[t] \notin {"sleep", "run"} /\ FlushInit(t, p, fl)
        /\ "ISFLUSH" \in fl /\ "BUFCACHE" \notin fl
    BY <1>3, <2>1 DEF Snapshot, Actors
  <2>3. QED
    BY <2>2, FlushInitInv
<1>4. ASSUME NEW t \in Threads, NEW p \in Pmps, NEW fl \in {{}, {"NEWINODE"}}, Frontend(t, p, fl)
      PROVE  IInv'
  <2>1. /\ t \in Actors /\ pc[t] \notin {"sleep", "run"} /\ fl \in SUBSET TransFlags
        /\ "ISFLUSH" \notin fl /\ "BUFCACHE" \notin fl /\ "CONCURRENT" \notin fl
    BY <1>4 DEF Frontend, Actors, TransFlags
  <2>2. CASE FreeInit(t, p, fl)
    BY <2>1, <2>2, FreeInitInv
  <2>3. CASE FrontInit(t, p, fl)
    BY <2>1, <2>3, FrontInitInv
  <2>4. QED
    BY <1>4, <2>2, <2>3 DEF Frontend
<1>5. ASSUME NEW p \in Pfs, WriteThread(p) PROVE IInv'
  <2>1. p \in Actors /\ p \in Pmps /\ pc[p] \notin {"sleep", "run"}
    BY <1>5 DEF WriteThread, Actors, Pmps
  <2>2. CASE FreeInit(p, p, {"BUFCACHE"})
    <3>1. PICK fl \in SUBSET TransFlags : fl = {"BUFCACHE"}
      BY DEF TransFlags
    <3>2. FreeInit(p, p, fl) /\ "ISFLUSH" \notin fl /\ "CONCURRENT" \notin fl
      BY <2>2, <3>1
    <3>3. QED
      BY <2>1, <3>2, FreeInitInv
  <2>3. CASE BufcacheInit(p, p)
    BY <2>1, <2>3, BufcacheInitInv
  <2>4. CASE BufcacheAssert(p, p)
    <3>1. UNCHANGED <<transq, blocked, sync_xid, flush_xid, alloc_xid, flushcnt, flags, pc>> /\ TypeOK'
      BY <2>4 DEF BufcacheAssert, tvars, mvars, pvars, IInv, TypeOK
    <3>2. QED
      BY <3>1, QueueUnchanged
  <2>5. QED
    BY <1>5, <2>2, <2>3, <2>4 DEF WriteThread
<1>6. ASSUME NEW t \in Actors, Resume(t) PROVE IInv'
  BY <1>6, ResumeInv
<1>7. ASSUME NEW t \in Actors, ClearPreflush(t) PROVE IInv'
  BY <1>7, ClearPreflushInv
<1>8. ASSUME NEW t \in Actors, TransSpmp(t) PROVE IInv'
  BY <1>8, TransSpmpInv
<1>9. ASSUME NEW t \in Actors, TransDone(t) PROVE IInv'
  BY <1>9, TransDoneInv
<1>10. CASE Halted
  BY <1>1, <1>10 DEF Halted
<1>11. QED
  BY <1>1, <1>2, <1>3, <1>4, <1>5, <1>6, <1>7, <1>8, <1>9, <1>10 DEF Next, Step

(***************************************************************************)
(* The invariant holds in every behaviour of the transaction manager,      *)
(* whatever the number of threads and PFSs and in both flush modes.        *)
(***************************************************************************)
THEOREM Invariant == Spec => []IInv
  BY InitInv, StepInv, PTL DEF Spec

(***************************************************************************)
(* hammer2_trans_init and hammer2_trans_done keep the types of the         *)
(* transaction manager's state; in particular flushcnt never goes negative.*)
(***************************************************************************)
THEOREM TypeCorrect == Spec => []TypeOK
<1>1. IInv => TypeOK
  BY DEF IInv
<1>2. QED
  BY <1>1, Invariant, PTL

(***************************************************************************)
(* hammer2_trans_done never leaves a blocked transaction at the head of    *)
(* tmanage.transq.                                                         *)
(***************************************************************************)
THEOREM HeadNeverBlocked == Spec => []HeadRuns
<1>1. IInv => HeadRuns
  BY DEF IInv, WaitInv
<1>2. QED
  BY <1>1, Invariant, PTL

(***************************************************************************)
(* tmanage.flushcnt is the number of queued flushes, so KKASSERT(head) in  *)
(* hammer2_trans_init holds.                                               *)
(***************************************************************************)
THEOREM FlushCountExact == Spec => []FlushCounted
<1>1. IInv => FlushCounted
  BY DEF IInv, QInv
<1>2. QED
  BY <1>1, Invariant, PTL

(***************************************************************************)
(* HAMMER2_TRANS_CONCURRENT is set exactly behind a flush.                 *)
(***************************************************************************)
THEOREM ConcurrentExact == Spec => []ConcurrentBehindFlush
<1>1. IInv => ConcurrentBehindFlush
  BY DEF IInv
<1>2. QED
  BY <1>1, Invariant, PTL

\* A running transaction is queued and not blocked; a running flush is the head.
LEMMA RunningQueued ==
  ASSUME IInv, NEW t \in Actors, Running(t)
  PROVE  /\ ~blocked[t]
         /\ \E i \in DOMAIN transq : transq[i] = t /\ (IsFlush(t) => i = 1)
<1>1. ~blocked[t] /\ Queued(t)
  BY DEF IInv, QInv, OnlySleepersBlock, QueueHolds, Running
<1>2. PICK i \in DOMAIN transq : transq[i] = t
  BY <1>1 DEF Queued
<1>3. i \in Nat /\ i >= 1
  BY DEF IInv, TypeOK
<1>4. IsFlush(t) => i = 1
  BY <1>1, <1>2, <1>3 DEF IInv, WaitInv, FlushesWait
<1>5. QED
  BY <1>1, <1>2, <1>4

(***************************************************************************)
(* Flushes are serialized, and with synchronous flushes only buffer-cache  *)
(* transactions run beside one.                                            *)
(***************************************************************************)
THEOREM FlushExclusion == Spec => []FlushAlone
<1>1. IInv => FlushAlone
  <2> SUFFICES ASSUME IInv, NEW f \in Actors, NEW t \in Actors,
                      Running(f), IsFlush(f), Running(t), t # f
               PROVE  ~IsFlush(t) /\ (SyncFlush => Bufcache(t))
    BY DEF FlushAlone
  <2>1. transq[1] = f /\ 1 \in DOMAIN transq
    BY RunningQueued
  <2>2. PICK j \in DOMAIN transq : transq[j] = t /\ (IsFlush(t) => j = 1)
    BY RunningQueued
  <2>3. ~blocked[t] /\ j > 1
    <3>1. ~blocked[t]
      BY RunningQueued
    <3>2. transq \in Seq(Actors)
      BY DEF IInv, TypeOK
    <3>3. j \in 1..Len(transq) /\ Len(transq) \in Nat /\ j # 1
      BY <2>1, <2>2, <3>2
    <3>4. QED
      BY <3>1, <3>3
  <2>4. QED
    BY <2>1, <2>2, <2>3 DEF IInv, WaitInv, FrontendsWait
<1>2. QED
  BY <1>1, Invariant, PTL

(***************************************************************************)
(* XIDs separate what a flush covers from what runs beside it, and newer   *)
(* operations wait until the flush ahead of them may run.                  *)
(***************************************************************************)
THEOREM FlushSeparation == Spec => []FlushSeparates
<1>1. IInv => FlushSeparates
  <2> SUFFICES ASSUME IInv, NEW f \in Actors, NEW t \in Actors,
                      Queued(f), IsFlush(f), Running(t), t # f
               PROVE  /\ Running(f) => \/ sync_xid[t] > sync_xid[f]
                                       \/ Bufcache(t) /\ sync_xid[t] = sync_xid[f]
                      /\ sync_xid[t] > sync_xid[f] => ~blocked[f]
    BY DEF FlushSeparates
  <2>1. PICK i \in DOMAIN transq : transq[i] = f
    BY DEF Queued
  <2>2. PICK j \in DOMAIN transq : transq[j] = t /\ ~blocked[t]
    BY RunningQueued
  <2>3. /\ i \in Nat /\ j \in Nat /\ i >= 1 /\ j >= 1 /\ i # j /\ 1 \in DOMAIN transq
        /\ sync_xid[t] \in Nat /\ sync_xid[f] \in Nat
    <3>1. transq \in Seq(Actors) /\ sync_xid \in [Actors -> Nat]
      BY DEF IInv, TypeOK
    <3>2. i \in 1..Len(transq) /\ j \in 1..Len(transq) /\ Len(transq) \in Nat /\ i # j
      BY <2>1, <2>2, <3>1
    <3>3. QED
      BY <3>1, <3>2
  <2>4. Running(f) => i = 1
    BY <2>1, RunningQueued DEF IInv, QInv, QueueOnce
  <2>5. i < j => IF Bufcache(t) THEN sync_xid[t] = sync_xid[f] ELSE sync_xid[t] > sync_xid[f]
    BY <2>1, <2>2, <2>3 DEF IInv, XidInv, XidBehindFlush
  <2>6. Running(f) => \/ sync_xid[t] > sync_xid[f]
                      \/ Bufcache(t) /\ sync_xid[t] = sync_xid[f]
    BY <2>3, <2>4, <2>5
  <2>7. ASSUME sync_xid[t] > sync_xid[f] PROVE ~blocked[f]
    <3>1. i < j
      BY <2>1, <2>2, <2>3, <2>7 DEF IInv, XidInv, XidAheadOfFlush
    <3>2. ~Bufcache(t)
      BY <2>3, <2>5, <2>7, <3>1
    <3>3. i = 1
      BY <2>1, <2>2, <2>3, <3>1, <3>2 DEF IInv, WaitInv, FrontendsWait
    <3>4. QED
      BY <2>1, <2>3, <3>3 DEF IInv, WaitInv, HeadRuns
  <2>8. QED
    BY <2>6, <2>7
<1>2. QED
  BY <1>1, Invariant, PTL
=============================================================================
