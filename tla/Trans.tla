------------------------------- MODULE Trans -------------------------------
(***************************************************************************)
(* The transaction manager of sys/hammer2/hammer2_flush.c: the global      *)
(* tmanage queue that decides which modifying operations, buffer-cache     *)
(* writes and flushes may run together, and the transaction ids they get.  *)
(*                                                                         *)
(* An actor is a thread that owns one hammer2_trans_t at a time.  The      *)
(* write thread of a PFS is named by the PFS itself; every other thread    *)
(* (vnode operations, the syncer, ioctls, recovery) is in Threads.         *)
(*                                                                         *)
(* tmanage.translk is held across hammer2_trans_init and hammer2_trans_done*)
(* except inside lksleep(), so the part of hammer2_trans_init up to its    *)
(* sleep, the part after it, and hammer2_trans_done are one action each.   *)
(***************************************************************************)
EXTENDS Integers, FiniteSets, SequencesExt

CONSTANTS
  Threads,     \* threads that run vnode operations, syncs, ioctls, recovery
  Pfs,         \* mounted PFSs (hammer2_pfsmount); each has one write thread
  Spmp,        \* the super-root PFS of the device, hmp->spmp
  NULL,        \* trans->pmp of a transaction that does not exist
  SyncFlush,   \* hammer2_synchronous_flush > 0
  XidMod,      \* 2^32 in the code: hammer2_xid_t is a uint32_t
  MaxXid,      \* bound: no flush starts once alloc_xid has reached it
  MaxInum      \* bound: no NEWINODE starts once inode_tid has reached it

Actors == Threads \cup Pfs
Pmps   == Pfs \cup {Spmp}

HAMMER2_INODE_START == 1024

NewfsTid  == 16     \* every mirror_tid that newfs_hammer2 writes
NewfsInum == 16     \* pfs_inum of a PFS root that newfs_hammer2 writes

ASSUME ActorsAssumption ==
  /\ Threads \cap Pfs = {}
  /\ Spmp \notin Actors
  /\ NULL \notin Pmps
  /\ IsFiniteSet(Actors)

ASSUME BoundsAssumption ==
  /\ SyncFlush \in BOOLEAN
  /\ XidMod \in Nat /\ MaxXid \in Nat /\ MaxInum \in Nat
  /\ 2 <= MaxXid /\ MaxXid + 1 < XidMod

VARIABLES
  \* one hammer2_trans_t per actor
  pc,          \* where the actor is: see TypeOK
  flags,       \* trans->flags
  blocked,     \* trans->blocked
  sync_xid,    \* trans->sync_xid
  tpmp,        \* trans->pmp
  itid,        \* trans->inode_tid
  own_tid,     \* history: the flush_tid a flush allocated in trans_init
  \* tmanage
  transq,      \* tmanage.transq, head first
  flush_xid,   \* tmanage.flush_xid
  alloc_xid,   \* tmanage.alloc_xid
  flushcnt,    \* tmanage.flushcnt
  \* one hammer2_pfsmount per PFS and for the super-root
  alloc_tid,   \* pmp->alloc_tid
  flush_tid,   \* pmp->flush_tid
  inode_tid,   \* pmp->inode_tid
  panicked     \* a KKASSERT failed: the kernel is gone

tvars == <<pc, flags, blocked, sync_xid, tpmp, itid, own_tid>>
mvars == <<transq, flush_xid, alloc_xid, flushcnt>>
pvars == <<alloc_tid, flush_tid, inode_tid>>
vars  == <<tvars, mvars, pvars, panicked>>

TransFlags == {"ISFLUSH", "CONCURRENT", "BUFCACHE", "NEWINODE", "PREFLUSH"}

IsFlush(t) == "ISFLUSH" \in flags[t]

(***************************************************************************)
(* idle    no transaction                                                  *)
(* synced  the vfs_sync that the snapshot ioctl makes first has returned   *)
(* sleep   queued, inside the lksleep loop of hammer2_trans_init           *)
(* run     hammer2_trans_init has returned, hammer2_trans_done is to come  *)
(***************************************************************************)
TypeOK ==
  /\ pc \in [Actors -> {"idle", "synced", "sleep", "run"}]
  /\ flags \in [Actors -> SUBSET TransFlags]
  /\ blocked \in [Actors -> BOOLEAN]
  /\ sync_xid \in [Actors -> Nat]
  /\ tpmp \in [Actors -> Pmps \cup {NULL}]
  /\ \A t \in Actors : pc[t] \in {"sleep", "run"} => tpmp[t] # NULL
  /\ itid \in [Actors -> Nat]
  /\ own_tid \in [Actors -> Nat]
  /\ transq \in Seq(Actors)
  /\ flush_xid \in Nat /\ alloc_xid \in Nat
  /\ flushcnt \in Nat
  /\ alloc_tid \in [Pmps -> Nat]
  /\ flush_tid \in [Pmps -> Nat]
  /\ inode_tid \in [Pmps -> Nat]
  /\ panicked \in BOOLEAN

(***************************************************************************)
(* hammer2_trans_manage_init and hammer2_pfsalloc, for a volume that       *)
(* newfs_hammer2 has just made.                                            *)
(***************************************************************************)
Init ==
  /\ pc = [t \in Actors |-> "idle"]
  /\ flags = [t \in Actors |-> {}]
  /\ blocked = [t \in Actors |-> FALSE]
  /\ sync_xid = [t \in Actors |-> 0]
  /\ tpmp = [t \in Actors |-> NULL]
  /\ itid = [t \in Actors |-> 0]
  /\ own_tid = [t \in Actors |-> 0]
  /\ transq = <<>>
  /\ flush_xid = 1
  /\ alloc_xid = 2
  /\ flushcnt = 0
  /\ alloc_tid = [p \in Pmps |-> NewfsTid + 1]
  /\ flush_tid = [p \in Pmps |-> NewfsTid + 1]
  /\ inode_tid = [p \in Pmps |-> IF p = Spmp THEN 1 ELSE NewfsInum + 1]
  /\ panicked = FALSE

-----------------------------------------------------------------------------
(* Helpers *)

\* hammer2_trans_newxid: fetch and add, skipping the value 0.
NewXid == IF alloc_xid = 0 THEN 1 ELSE alloc_xid

\* x + 1 in a hammer2_xid_t
NextXid(x) == (x + 1) % XidMod

\* The TAILQ_FOREACH loops: is i the position of the first flush of q?
IsFirstFlush(q, i) ==
  /\ i \in DOMAIN q
  /\ IsFlush(q[i])
  /\ \A j \in 1..(i - 1) : ~IsFlush(q[j])

\* The transactions of q from position i up to, not including, the next flush.
UpToFlush(q, i) ==
  {q[k] : k \in {n \in DOMAIN q : n >= i /\ \A j \in i..n : ~IsFlush(q[j])}}

\* The NEWINODE tail of hammer2_trans_init.
NewInode(t, p, fl) ==
  LET inum == IF p = Spmp THEN 1
              ELSE IF inode_tid[p] < HAMMER2_INODE_START THEN HAMMER2_INODE_START
              ELSE inode_tid[p]
  IN  IF "NEWINODE" \in fl
      THEN /\ itid' = [itid EXCEPT ![t] = inum]
           /\ inode_tid' = IF p = Spmp THEN inode_tid
                           ELSE [inode_tid EXCEPT ![p] = inum + 1]
      ELSE UNCHANGED <<itid, inode_tid>>

\* What every branch of hammer2_trans_init does with the caller's trans: fill
\* it in, put it in the queue q and either sleep or return.
Enter(t, p, fl, xid, q, blk) ==
  /\ flags' = [flags EXCEPT ![t] = fl]
  /\ tpmp' = [tpmp EXCEPT ![t] = p]
  /\ sync_xid' = [sync_xid EXCEPT ![t] = xid]
  /\ transq' = q
  /\ blocked' = [blocked EXCEPT ![t] = blk]
  /\ pc' = [pc EXCEPT ![t] = IF blk THEN "sleep" ELSE "run"]
  /\ IF blk THEN UNCHANGED <<itid, inode_tid>> ELSE NewInode(t, p, fl)
  /\ UNCHANGED panicked

-----------------------------------------------------------------------------
(* hammer2_trans_init, one action for each of its four branches *)

\* Mutant of FlushInit: a flush waits for other flushes only.
FlushInit_Eager(t, p, fl) ==
  /\ alloc_xid < MaxXid
  /\ flushcnt' = flushcnt + 1
  /\ flush_tid' = [flush_tid EXCEPT ![p] = alloc_tid[p] + 1]
  /\ own_tid' = [own_tid EXCEPT ![t] = alloc_tid[p] + 1]
  /\ alloc_tid' = [alloc_tid EXCEPT ![p] = alloc_tid[p] + 2]
  /\ flush_xid' = NewXid
  /\ alloc_xid' = NextXid(NewXid)
  /\ Enter(t, p, fl, NewXid, Append(transq, t), flushcnt # 0)

\* ISFLUSH: take a new TID and a new XID, queue at the tail, and wait to
\* become the head.
FlushInit(t, p, fl) ==
  /\ alloc_xid < MaxXid
  /\ flushcnt' = flushcnt + 1
  /\ flush_tid' = [flush_tid EXCEPT ![p] = alloc_tid[p] + 1]
  /\ own_tid' = [own_tid EXCEPT ![t] = alloc_tid[p] + 1]
  /\ alloc_tid' = [alloc_tid EXCEPT ![p] = alloc_tid[p] + 2]
  /\ flush_xid' = NewXid
  /\ alloc_xid' = NextXid(NewXid)
  /\ Enter(t, p, fl, NewXid, Append(transq, t), transq # <<>>)

\* No flush is pending: run at once.
FreeInit(t, p, fl) ==
  /\ flushcnt = 0
  /\ Enter(t, p, fl, NextXid(flush_xid), Append(transq, t), FALSE)
  /\ UNCHANGED <<flush_xid, alloc_xid, flushcnt, alloc_tid, flush_tid, own_tid>>

\* BUFCACHE while a flush is pending: join the first flush, never block.
BufcacheInit(t, p) ==
  /\ flushcnt # 0
  /\ \E i \in DOMAIN transq :
       /\ IsFirstFlush(transq, i)
       /\ "PREFLUSH" \in flags[transq[i]]
       /\ Enter(t, p, {"BUFCACHE", "PREFLUSH", "CONCURRENT"},
                sync_xid[transq[i]], InsertAt(transq, i + 1, t), FALSE)
  /\ UNCHANGED <<flush_xid, alloc_xid, flushcnt, alloc_tid, flush_tid, own_tid>>

\* KKASSERT(head->flags & HAMMER2_TRANS_PREFLUSH)
BufcacheAssert(t, p) ==
  /\ flushcnt # 0
  /\ \E i \in DOMAIN transq :
       /\ IsFirstFlush(transq, i)
       /\ "PREFLUSH" \notin flags[transq[i]]
  /\ panicked' = TRUE
  /\ UNCHANGED <<tvars, mvars, pvars>>

\* Mutant of FrontInit: share the flush's XID.
FrontInit_SameXid(t, p, fl) ==
  /\ flushcnt # 0
  /\ \E i \in DOMAIN transq :
       /\ IsFirstFlush(transq, i)
       /\ Enter(t, p, fl \cup {"CONCURRENT"}, sync_xid[transq[i]],
                InsertAt(transq, i + 1, t), SyncFlush \/ i # 1)
  /\ UNCHANGED <<flush_xid, alloc_xid, flushcnt, alloc_tid, flush_tid, own_tid>>

\* Mutant of FrontInit: run at once, ahead of a flush that is still waiting.
FrontInit_Overtake(t, p, fl) ==
  /\ flushcnt # 0
  /\ \E i \in DOMAIN transq :
       /\ IsFirstFlush(transq, i)
       /\ IF i # 1
          THEN Enter(t, p, fl, sync_xid[transq[1]], InsertAt(transq, i, t), FALSE)
          ELSE Enter(t, p, fl \cup {"CONCURRENT"}, NextXid(sync_xid[transq[i]]),
                     InsertAt(transq, i + 1, t), SyncFlush)
  /\ UNCHANGED <<flush_xid, alloc_xid, flushcnt, alloc_tid, flush_tid, own_tid>>

\* Any other transaction while a flush is pending: go behind the first flush.
FrontInit(t, p, fl) ==
  /\ flushcnt # 0
  /\ \E i \in DOMAIN transq :
       /\ IsFirstFlush(transq, i)
       /\ Enter(t, p, fl \cup {"CONCURRENT"}, NextXid(sync_xid[transq[i]]),
                InsertAt(transq, i + 1, t), SyncFlush \/ i # 1)
  /\ UNCHANGED <<flush_xid, alloc_xid, flushcnt, alloc_tid, flush_tid, own_tid>>

-----------------------------------------------------------------------------
(* The callers *)

\* hammer2_vfs_sync, also as the first half of hammer2_ioctl_pfs_snapshot.
VfsSync(t, p) ==
  /\ pc[t] = "idle"
  /\ FlushInit(t, p, {"ISFLUSH", "PREFLUSH"})

\* The second half of hammer2_ioctl_pfs_snapshot.
Snapshot(t, p) ==
  /\ pc[t] = "synced"
  /\ FlushInit(t, p, {"ISFLUSH", "NEWINODE"})

\* A modifying vnode operation or ioctl (on a PFS), which may create an inode,
\* or hammer2_recovery (on the super-root).
Frontend(t, p, fl) ==
  /\ pc[t] = "idle"
  /\ "NEWINODE" \in fl => p # Spmp /\ inode_tid[p] < MaxInum
  /\ FreeInit(t, p, fl) \/ FrontInit(t, p, fl)

\* hammer2_write_thread opens a transaction for a batch of buffers.
WriteThread(p) ==
  /\ pc[p] = "idle"
  /\ FreeInit(p, p, {"BUFCACHE"}) \/ BufcacheInit(p, p) \/ BufcacheAssert(p, p)

\* The sleeper finds trans->blocked clear: after a wakeup, or after the hz
\* timeout of lksleep.
Resume(t) ==
  /\ pc[t] = "sleep"
  /\ ~blocked[t]
  /\ pc' = [pc EXCEPT ![t] = "run"]
  /\ NewInode(t, tpmp[t], flags[t])
  /\ UNCHANGED <<flags, blocked, sync_xid, tpmp, own_tid, mvars,
                 alloc_tid, flush_tid, panicked>>

\* hammer2_vfs_sync has written out the logical buffers.
ClearPreflush(t) ==
  /\ pc[t] = "run" /\ IsFlush(t)
  /\ "PREFLUSH" \in flags[t]
  /\ flags' = [flags EXCEPT ![t] = @ \ {"PREFLUSH"}]
  /\ UNCHANGED <<pc, blocked, sync_xid, tpmp, itid, own_tid, mvars, pvars, panicked>>

\* hammer2_trans_spmp: hammer2_vfs_sync goes on to the volume roots.
TransSpmp(t) ==
  /\ pc[t] = "run" /\ IsFlush(t)
  /\ {"PREFLUSH", "NEWINODE"} \cap flags[t] = {}
  /\ tpmp[t] # Spmp
  /\ flush_tid' = [flush_tid EXCEPT ![Spmp] = alloc_tid[Spmp] + 1]
  /\ own_tid' = [own_tid EXCEPT ![t] = alloc_tid[Spmp] + 1]
  /\ alloc_tid' = [alloc_tid EXCEPT ![Spmp] = alloc_tid[Spmp] + 2]
  /\ tpmp' = [tpmp EXCEPT ![t] = Spmp]
  /\ UNCHANGED <<pc, flags, blocked, sync_xid, itid, mvars, inode_tid, panicked>>

\* Mutant of Unblocks: the scan alone, which stops at a flush.
Unblocks_ScanOnly(q) ==
  IF q # <<>> /\ blocked[q[1]] THEN UpToFlush(q, 1) ELSE {}

\* Whom hammer2_trans_done unblocks once its caller has left the queue q.
Unblocks(q) ==
  IF q # <<>> /\ blocked[q[1]]
  THEN {q[1]} \cup UpToFlush(q, IF SyncFlush THEN 1 ELSE 2)
  ELSE {}

\* Mutant of ClearConcurrent: the flag is left as it is.
ClearConcurrent_Never(t, q) == {}

\* The transactions that no longer run behind a flush once t has left q.
ClearConcurrent(t, q) == IF IsFlush(t) THEN UpToFlush(q, 1) ELSE {}

\* Mutants of DropFlushcnt: for every transaction, and never.
DropFlushcnt_Always(t) == flushcnt - 1
DropFlushcnt_Never(t) == flushcnt

\* tmanage.flushcnt once t is done.
DropFlushcnt(t) == IF IsFlush(t) THEN flushcnt - 1 ELSE flushcnt

\* hammer2_trans_done; hammer2_vfs_sync makes the call after trans_spmp.  Its
\* caller may be the snapshot ioctl, which goes on.
TransDone(t) ==
  /\ pc[t] = "run"
  /\ IsFlush(t) /\ "NEWINODE" \notin flags[t] => tpmp[t] = Spmp
  /\ \E i \in DOMAIN transq :
       /\ transq[i] = t
       /\ LET q == RemoveAt(transq, i)
          IN  /\ transq' = q
              /\ flags' = [u \in Actors |->
                    IF u = t THEN {}
                    ELSE IF u \in ClearConcurrent(t, q) THEN flags[u] \ {"CONCURRENT"}
                    ELSE flags[u]]
              /\ blocked' = [u \in Actors |-> blocked[u] /\ u \notin Unblocks(q)]
  /\ flushcnt' = DropFlushcnt(t)
  /\ \E next \in (IF IsFlush(t) /\ "NEWINODE" \notin flags[t]
                  THEN {"idle", "synced"} ELSE {"idle"}) :
       pc' = [pc EXCEPT ![t] = next]
  /\ sync_xid' = [sync_xid EXCEPT ![t] = 0]
  /\ tpmp' = [tpmp EXCEPT ![t] = NULL]
  /\ itid' = [itid EXCEPT ![t] = 0]
  /\ own_tid' = [own_tid EXCEPT ![t] = 0]
  /\ UNCHANGED <<flush_xid, alloc_xid, pvars, panicked>>

-----------------------------------------------------------------------------
\* A panicked kernel takes no more steps.
Halted == panicked /\ UNCHANGED vars

Step ==
  \/ \E t \in Threads, p \in Pfs : VfsSync(t, p) \/ Snapshot(t, p)
  \/ \E t \in Threads, p \in Pmps, fl \in {{}, {"NEWINODE"}} : Frontend(t, p, fl)
  \/ \E p \in Pfs : WriteThread(p)
  \/ \E t \in Actors : Resume(t) \/ ClearPreflush(t) \/ TransSpmp(t) \/ TransDone(t)

Next == (~panicked /\ Step) \/ Halted

Spec == Init /\ [][Next]_vars

(***************************************************************************)
(* A sleeper polls trans->blocked at least every hz ticks, and the work    *)
(* inside a transaction ends.  Nothing forces an operation to begin.       *)
(***************************************************************************)
Fairness ==
  \A t \in Actors : /\ WF_vars(~panicked /\ Resume(t))
                    /\ WF_vars(~panicked /\ ClearPreflush(t))
                    /\ WF_vars(~panicked /\ TransSpmp(t))
                    /\ WF_vars(~panicked /\ TransDone(t))

FairSpec == Spec /\ Fairness

-----------------------------------------------------------------------------
(* What the transaction manager promises *)

Running(t)  == pc[t] = "run"
Bufcache(t) == "BUFCACHE" \in flags[t]
Queued(t)   == \E i \in DOMAIN transq : transq[i] = t

(***************************************************************************)
(* No wakeup is lost: hammer2_trans_done never leaves a blocked            *)
(* transaction at the head, where nobody is left to unblock it.            *)
(***************************************************************************)
HeadRuns == transq # <<>> => ~blocked[transq[1]]

(***************************************************************************)
(* "All flushes are serialized" (hammer2_trans_init), and with synchronous *)
(* flushes hammer2_vfs_sync's transaction "does not return until all       *)
(* concurrent transactions have completed and will prevent any new         *)
(* transactions from running concurrently, except for the buffer cache     *)
(* transactions".                                                          *)
(***************************************************************************)
FlushAlone ==
  \A f, t \in Actors :
    Running(f) /\ IsFlush(f) /\ Running(t) /\ t # f =>
      ~IsFlush(t) /\ (SyncFlush => Bufcache(t))

(***************************************************************************)
(* The sequencing rules (a)-(c) above struct hammer2_trans in hammer2.h.   *)
(* A running flush sees only what it must cover: every other running       *)
(* operation has a later XID, buffer-cache writes that joined it its own.  *)
(* An operation with a later XID than a pending flush runs only once the   *)
(* flush itself may run.                                                   *)
(***************************************************************************)
FlushSeparates ==
  \A f, t \in Actors :
    Queued(f) /\ IsFlush(f) /\ Running(t) /\ t # f =>
      /\ Running(f) => \/ sync_xid[t] > sync_xid[f]
                       \/ Bufcache(t) /\ sync_xid[t] = sync_xid[f]
      /\ sync_xid[t] > sync_xid[f] => ~blocked[f]

(***************************************************************************)
(* tmanage.flushcnt counts the queued flushes, so the scans that follow    *)
(* flushcnt != 0 in hammer2_trans_init find one: KKASSERT(head) holds.     *)
(***************************************************************************)
FlushCounted == flushcnt = Cardinality({t \in Actors : Queued(t) /\ IsFlush(t)})

(***************************************************************************)
(* HAMMER2_TRANS_CONCURRENT ("concurrent w/flush") is set exactly while a  *)
(* flush is ahead of the transaction in the queue.                         *)
(***************************************************************************)
ConcurrentBehindFlush ==
  \A j \in DOMAIN transq :
    ~IsFlush(transq[j]) =>
      ("CONCURRENT" \in flags[transq[j]] <=> \E i \in 1..(j - 1) : IsFlush(transq[i]))

(***************************************************************************)
(* Every transaction that sleeps in hammer2_trans_init gets to run.        *)
(***************************************************************************)
SleeperRuns == \A t \in Actors : pc[t] = "sleep" ~> Running(t) \/ panicked

(***************************************************************************)
(* "a flush transaction needs its own unique TID for proper block table    *)
(* update accounting": while a flush runs, the pmp->flush_tid it stamps    *)
(* into block references is the one it allocated.                          *)
(***************************************************************************)
FlushOwnsTid ==
  \A f \in Actors :
    Running(f) /\ IsFlush(f) => flush_tid[tpmp[f]] = own_tid[f]

-----------------------------------------------------------------------------
(* The inductive invariant behind these properties *)

\* The queue holds each transaction once, from trans_init to trans_done.
QueueOnce == \A i, j \in DOMAIN transq : transq[i] = transq[j] => i = j
QueueHolds == \A t \in Actors : Queued(t) <=> pc[t] \in {"sleep", "run"}

\* Only a thread in the lksleep loop is blocked.
OnlySleepersBlock == \A t \in Actors : blocked[t] => pc[t] = "sleep"

\* Flush and buffer-cache transactions are different callers.
FlushNotBufcache == \A t \in Actors : IsFlush(t) => ~Bufcache(t)

\* A flush waits until it is the head.
FlushesWait ==
  \A i \in DOMAIN transq : i > 1 /\ IsFlush(transq[i]) => blocked[transq[i]]

\* An operation behind a flush waits for it, or (asynchronous flushes) until
\* it is the head.
FrontendsWait ==
  \A i, j \in DOMAIN transq :
    i < j /\ IsFlush(transq[i]) /\ ~Bufcache(transq[j]) /\ (SyncFlush \/ i > 1) =>
      blocked[transq[j]]

\* Only flushes queue behind two flushes.
OneFlushAhead ==
  \A i, j, k \in DOMAIN transq :
    i < j /\ j < k /\ IsFlush(transq[i]) /\ IsFlush(transq[j]) => IsFlush(transq[k])

\* XIDs rise across each flush; buffer-cache writes behind it share its XID.
XidBehindFlush ==
  \A i, j \in DOMAIN transq :
    i < j /\ IsFlush(transq[i]) =>
      IF Bufcache(transq[j]) THEN sync_xid[transq[j]] = sync_xid[transq[i]]
                             ELSE sync_xid[transq[j]] > sync_xid[transq[i]]

XidAheadOfFlush ==
  \A i, j \in DOMAIN transq :
    i < j /\ IsFlush(transq[j]) => sync_xid[transq[i]] <= sync_xid[transq[j]]

\* tmanage's XIDs are the latest, and below the wrap of hammer2_xid_t.
XidLatest ==
  /\ alloc_xid = flush_xid + 1
  /\ 1 <= flush_xid /\ alloc_xid <= MaxXid
  /\ \A i \in DOMAIN transq :
       sync_xid[transq[i]] <= (IF IsFlush(transq[i]) THEN flush_xid ELSE alloc_xid)

QInv == /\ QueueOnce
        /\ QueueHolds
        /\ OnlySleepersBlock
        /\ FlushNotBufcache
        /\ FlushCounted

WaitInv == HeadRuns /\ FlushesWait /\ FrontendsWait /\ OneFlushAhead

XidInv == XidLatest /\ XidBehindFlush /\ XidAheadOfFlush

(***************************************************************************)
(* The inductive invariant of Spec: who is queued, who waits, which XIDs   *)
(* the queued transactions carry, and which of them carry CONCURRENT.      *)
(***************************************************************************)
IInv == TypeOK /\ QInv /\ WaitInv /\ XidInv /\ ConcurrentBehindFlush
=============================================================================
