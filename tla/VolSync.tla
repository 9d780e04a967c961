------------------------------ MODULE VolSync ------------------------------
(***************************************************************************)
(* The volume header: how hammer2_vfs_sync commits a flush to each device  *)
(* of a cluster mount, how hammer2_install_volume_header picks a header at *)
(* the next mount, and what a crash at any point in between leaves behind. *)
(*                                                                         *)
(* A flush of a device is known by its number, a history value that is     *)
(* never reused (mirror_tid is reused after a crash).  A header carries    *)
(* its mirror_tid, the number of the flush that made it and the numbers of *)
(* all flushes whose blocks its block table reaches: block allocation is   *)
(* copy-on-write, so it needs the blocks of each of them.                  *)
(*                                                                         *)
(* Blocks are delayed writes (bdwrite) that reach the media at any time; a *)
(* header is an asynchronous write (bawrite).  The disk queue sorts writes *)
(* by block number and a drive may hold several, so headers are written in *)
(* any order, one at a time, and a crash tears the one under way.          *)
(*                                                                         *)
(* Before it issues a header hammer2_vfs_sync calls getpbuf, which returns *)
(* an uninitialised pointer, and biowait on that buffer, for which no I/O  *)
(* was started.  What the memory holds decides the outcome: B_DONE is set  *)
(* and the sync goes on (SyncHeader), it is clear and the thread sleeps    *)
(* for ever (SyncHang), or the access faults (Crash).                      *)
(***************************************************************************)
EXTENDS Integers, SequencesExt

CONSTANTS
  Devs,        \* block devices (hammer2_mount)
  Cluster,     \* iroot->cluster.array of the mounted PFS: a sequence of devices
  NULL,        \* an entry of the array that was dropped
  VoluSize,    \* volu_size of every device, in MB
  MaxModify    \* bound: number of modifications

HAMMER2_NUM_VOLHDRS  == 4
HAMMER2_ZONE_BYTES64 == 2048      \* MB
HAMMER2_SEGSIZE      == 2         \* MB
HAMMER2_VOLUME_ALIGN == 8         \* MB
NewfsTid             == 16

Slots   == 0..(HAMMER2_NUM_VOLHDRS - 1)
NChains == Len(Cluster)

ASSUME ClusterAssumption ==
  /\ Cluster \in Seq(Devs) /\ Cluster # <<>>
  /\ NULL \notin Devs

ASSUME SizeAssumption ==
  /\ VoluSize \in Nat \ {0} /\ VoluSize % HAMMER2_VOLUME_ALIGN = 0
  /\ MaxModify \in Nat

VARIABLES
  \* the media
  hdr,         \* the header in each slot of each device
  blk,         \* flushes whose blocks are all on the media
  \* the buffer cache and the disk
  hdrq,        \* header writes issued by bawrite() and not done, oldest first
  torn,        \* the slot the disk is writing, or -1
  dblk,        \* flushes with blocks still in delayed-write buffers
  \* hammer2_mount, per device
  modified,    \* there are modified chains below vchain
  voldirty,    \* vchain itself is MODIFIED (hammer2_voldata_modify)
  fdirty,      \* fchain, the freemap, has something to flush
  volsync,     \* hmp->volsync
  VOLUMESYNC,  \* HAMMER2_CHAIN_VOLUMESYNC of vchain
  volhdrno,    \* hmp->volhdrno
  alloc_tid,   \* hmp->spmp->alloc_tid
  \* the thread in hammer2_vfs_sync or hammer2_vfs_unmount
  pc,          \* see TypeOK
  i,           \* vfs_sync's loop index, an index of Cluster counted from 0
  array,       \* iroot->cluster.array
  u,           \* vfs_unmount's loop index, -1 outside hammer2_vfs_unmount
  passes,      \* vfs_sync calls left in hammer2_vfs_unmount_hmp1
  \* history
  nmod,        \* number of modifications
  nflush,      \* number of the last flush
  want,        \* devices with something to flush when vfs_sync began, not yet committed
  base,        \* flushes the header found by the last mount reaches
  closed       \* devices closed by an unmount since the last mount

media == <<hdr, blk>>
cache == <<hdrq, torn, dblk>>
hmpvars == <<modified, voldirty, fdirty, volsync, VOLUMESYNC, volhdrno, alloc_tid>>
thread == <<pc, i, array, u, passes>>
hist == <<nmod, nflush, want, base, closed>>
vars == <<media, cache, hmpvars, thread, hist>>

Header == [tid : Nat, at : Nat, on : SUBSET Nat]

\* What bread() or the CRCs of sectors 0 and 1 reject.
Bad == [tid |-> 0, at |-> 0, on |-> {}]

(***************************************************************************)
(* down    not mounted                                                     *)
(* idle    mounted, no sync                                                *)
(* flush   vfs_sync, at the head of its loop over the cluster              *)
(* vchain  vfs_sync, the freemap is flushed                                *)
(* header  vfs_sync, the volume root is flushed                            *)
(* biowait vfs_sync, asleep on the buffer of getpbuf for ever              *)
(* inval   unmount_hmp2, about to close the device                         *)
(***************************************************************************)
TypeOK ==
  /\ hdr \in [Devs -> [Slots -> Header]]
  /\ blk \in [Devs -> SUBSET Nat]
  /\ hdrq \in [Devs -> Seq([slot : Slots, h : Header])]
  /\ torn \in [Devs -> Slots \cup {-1}]
  /\ dblk \in [Devs -> SUBSET Nat]
  /\ modified \in [Devs -> BOOLEAN]
  /\ voldirty \in [Devs -> BOOLEAN]
  /\ fdirty \in [Devs -> BOOLEAN]
  /\ volsync \in [Devs -> Header]
  /\ VOLUMESYNC \in [Devs -> BOOLEAN]
  /\ volhdrno \in [Devs -> Slots]
  /\ alloc_tid \in [Devs -> Nat]
  /\ pc \in {"down", "idle", "flush", "vchain", "header", "biowait", "inval"}
  /\ i \in Nat
  /\ pc \in {"vchain", "header", "biowait"} => i < NChains
  /\ array \in [1..NChains -> Devs \cup {NULL}]
  /\ u \in -1..(NChains - 1)
  /\ passes \in 0..3
  /\ nmod \in 0..MaxModify
  /\ nflush \in Nat
  /\ want \in SUBSET Devs
  /\ base \in [Devs -> SUBSET Nat]
  /\ closed \in SUBSET Devs

-----------------------------------------------------------------------------
(* Helpers *)

Valid(h) == h # Bad

\* The slots that lie on the device; newfs_hammer2 fills them all.
OnDevice == {s \in Slots : s * HAMMER2_ZONE_BYTES64 < VoluSize}

NewfsHeader == [tid |-> NewfsTid, at |-> 0, on |-> {}]

\* Mutant of NextSlot: the header just written is written again.
NextSlot_Same(d) == volhdrno[d]

\* The slot hammer2_vfs_sync writes next.
NextSlot(d) ==
  LET s == volhdrno[d] + 1
  IN  IF \/ s >= HAMMER2_NUM_VOLHDRS
         \/ s * HAMMER2_ZONE_BYTES64 + HAMMER2_SEGSIZE > VoluSize
      THEN 0 ELSE s

\* Mutant of Installs: the first valid header.
Installs_First(d, s) ==
  /\ Valid(hdr[d][s])
  /\ \A r \in Slots : r < s => ~Valid(hdr[d][r])

\* hammer2_install_volume_header: the first of the valid headers that have
\* the highest mirror_tid.
Installs(d, s) ==
  /\ Valid(hdr[d][s])
  /\ \A r \in Slots : Valid(hdr[d][r]) =>
       /\ hdr[d][r].tid <= hdr[d][s].tid
       /\ r < s => hdr[d][r].tid < hdr[d][s].tid

\* The loop of vfs_sync over a device it has met already, or that is dropped.
Skips(k) ==
  \/ array[k + 1] = NULL
  \/ \E j \in 0..(k - 1) : array[j + 1] = array[k + 1]

-----------------------------------------------------------------------------
(* newfs_hammer2, then mount *)
Init ==
  /\ hdr = [d \in Devs |-> [s \in Slots |-> IF s \in OnDevice THEN NewfsHeader ELSE Bad]]
  /\ blk = [d \in Devs |-> {}]
  /\ hdrq = [d \in Devs |-> <<>>]
  /\ torn = [d \in Devs |-> -1]
  /\ dblk = [d \in Devs |-> {}]
  /\ modified = [d \in Devs |-> FALSE]
  /\ voldirty = [d \in Devs |-> FALSE]
  /\ fdirty = [d \in Devs |-> FALSE]
  /\ volsync = [d \in Devs |-> NewfsHeader]
  /\ VOLUMESYNC = [d \in Devs |-> FALSE]
  /\ volhdrno = [d \in Devs |-> 0]
  /\ alloc_tid = [d \in Devs |-> 0]
  /\ pc = "down" /\ i = 0 /\ u = -1 /\ passes = 0
  /\ array = [k \in 1..NChains |-> NULL]
  /\ nmod = 0
  /\ nflush = 0
  /\ want = {}
  /\ base = [d \in Devs |-> {}]
  /\ closed = {}

\* hammer2_vfs_mount of the PFS on each device of the cluster.
Mount ==
  /\ pc = "down"
  /\ \E sel \in [Devs -> Slots] :
       /\ \A d \in Devs : Installs(d, sel[d])
       /\ volhdrno' = sel
       /\ volsync' = [d \in Devs |-> hdr[d][sel[d]]]
       /\ alloc_tid' = [d \in Devs |-> hdr[d][sel[d]].tid + 1]
       /\ base' = [d \in Devs |-> hdr[d][sel[d]].on]
  /\ modified' = [d \in Devs |-> FALSE]
  /\ voldirty' = [d \in Devs |-> FALSE]
  /\ fdirty' = [d \in Devs |-> FALSE]
  /\ VOLUMESYNC' = [d \in Devs |-> FALSE]
  /\ array' = [k \in 1..NChains |-> Cluster[k]]
  /\ pc' = "idle"
  /\ closed' = {}
  /\ UNCHANGED <<media, cache, i, u, passes, nmod, nflush, want>>

\* A transaction (or mount-time recovery) modifies the device's topology;
\* copy-on-write allocates the blocks, so the freemap is modified as well.
Modify(d) ==
  /\ pc # "down" /\ u = -1
  /\ ~(modified[d] /\ fdirty[d])
  /\ nmod < MaxModify
  /\ nmod' = nmod + 1
  /\ modified' = [modified EXCEPT ![d] = TRUE]
  /\ fdirty' = [fdirty EXCEPT ![d] = TRUE]
  /\ UNCHANGED <<media, cache, voldirty, volsync, VOLUMESYNC, volhdrno, alloc_tid,
                 thread, nflush, want, base, closed>>

-----------------------------------------------------------------------------
(* hammer2_vfs_sync *)

Dirty(d) == modified[d] \/ voldirty[d] \/ fdirty[d]

SyncBegin ==
  /\ pc' = "flush" /\ i' = 0
  /\ want' = {d \in Devs : Dirty(d) /\ \E k \in 1..NChains : array[k] = d}

VfsSync ==
  /\ pc = "idle"
  /\ SyncBegin
  /\ UNCHANGED <<media, cache, hmpvars, array, u, passes, nmod, nflush, base, closed>>

SyncSkip ==
  /\ pc = "flush" /\ i < NChains
  /\ Skips(i)
  /\ i' = i + 1
  /\ UNCHANGED <<media, cache, hmpvars, pc, array, u, passes, hist>>

\* hammer2_flush of fchain, if it has anything to flush; vchain is marked
\* modified first.  The blocks are counted with the flush of vchain below.
SyncFreemap ==
  /\ pc = "flush" /\ i < NChains
  /\ ~Skips(i)
  /\ LET d == array[i + 1]
     IN  /\ voldirty' = [voldirty EXCEPT ![d] = @ \/ fdirty[d]]
         /\ fdirty' = [fdirty EXCEPT ![d] = FALSE]
  /\ pc' = "vchain"
  /\ UNCHANGED <<media, cache, modified, volsync, VOLUMESYNC, volhdrno, alloc_tid,
                 i, array, u, passes, hist>>

\* hammer2_flush of vchain, if it has anything to flush: flush_core ends in the
\* volume-root case, which fills hmp->volsync.  On the way up it modifies the
\* parents of modified chains, which may allocate and so dirty the freemap again
\* (the second flush of fchain that follows in the code is compiled out).
\* hammer2_trans_spmp takes its TIDs on every pass; TIDs are only ever compared,
\* so the model leaves out the gap that a pass with nothing to flush makes.
SyncFlush ==
  /\ pc = "vchain"
  /\ LET d == array[i + 1]
     IN  IF modified[d] \/ voldirty[d]
         THEN /\ nflush' = nflush + 1
              /\ alloc_tid' = [alloc_tid EXCEPT ![d] = @ + 2]
              /\ dblk' = [dblk EXCEPT ![d] = @ \cup {nflush + 1}]
              /\ volsync' = [volsync EXCEPT ![d] =
                   [tid |-> alloc_tid[d] + 1, at |-> nflush + 1,
                    on |-> volsync[d].on \cup {nflush + 1}]]
              /\ VOLUMESYNC' = [VOLUMESYNC EXCEPT ![d] = TRUE]
              /\ modified' = [modified EXCEPT ![d] = FALSE]
              /\ voldirty' = [voldirty EXCEPT ![d] = FALSE]
              /\ \E allocates \in BOOLEAN :
                   fdirty' = [fdirty EXCEPT ![d] = @ \/ (modified[d] /\ allocates)]
         ELSE UNCHANGED <<nflush, alloc_tid, dblk, volsync, VOLUMESYNC, modified,
                          voldirty, fdirty>>
  /\ pc' = "header"
  /\ UNCHANGED <<media, hdrq, torn, volhdrno, i, array, u, passes, nmod, want, base,
                 closed>>

\* The buffer of getpbuf is not B_DONE and nobody will ever mark it so.
SyncHang ==
  /\ pc = "header"
  /\ VOLUMESYNC[array[i + 1]]
  /\ pc' = "biowait"
  /\ UNCHANGED <<media, cache, hmpvars, i, array, u, passes, hist>>

\* biowait returns; the header goes out to the next slot.  getblk() waits for a
\* write of the slot that is still under way.  The slot number is left in the
\* loop index.
SyncHeader ==
  /\ pc = "header"
  /\ LET d == array[i + 1]
         s == NextSlot(d)
     IN  /\ VOLUMESYNC[d]
         /\ \A k \in DOMAIN hdrq[d] : hdrq[d][k].slot # s
         /\ hdrq' = [hdrq EXCEPT ![d] = Append(@, [slot |-> s, h |-> volsync[d]])]
         /\ VOLUMESYNC' = [VOLUMESYNC EXCEPT ![d] = FALSE]
         /\ volhdrno' = [volhdrno EXCEPT ![d] = s]
         /\ i' = s + 1
         /\ want' = want \ {d}
  /\ pc' = "flush"
  /\ UNCHANGED <<media, torn, dblk, modified, voldirty, fdirty, volsync, alloc_tid,
                 array, u, passes, nmod, nflush, base, closed>>

\* Mutant of SyncNoHeader: the slot number gets into the loop index here too.
SyncNoHeader_Index ==
  /\ pc = "header"
  /\ ~VOLUMESYNC[array[i + 1]]
  /\ pc' = "flush"
  /\ i' = NextSlot(array[i + 1]) + 1
  /\ UNCHANGED <<media, cache, hmpvars, array, u, passes, hist>>

\* Nothing to commit on this device.
SyncNoHeader ==
  /\ pc = "header"
  /\ ~VOLUMESYNC[array[i + 1]]
  /\ pc' = "flush"
  /\ i' = i + 1
  /\ UNCHANGED <<media, cache, hmpvars, array, u, passes, hist>>

\* Mutant of SyncEnd: the passes are counted outside of an unmount too.
SyncEnd_Count ==
  /\ pc = "flush" /\ i >= NChains
  /\ IF passes > 1
     THEN SyncBegin
     ELSE /\ pc' = IF passes = 1 THEN "inval" ELSE "idle"
          /\ i' = 0 /\ want' = {}
  /\ passes' = passes - 1
  /\ UNCHANGED <<media, cache, hmpvars, array, u, nmod, nflush, base, closed>>

\* vfs_sync returns, to its caller or to the next of hmp1's three passes.
SyncEnd ==
  /\ pc = "flush" /\ i >= NChains
  /\ IF passes > 1
     THEN SyncBegin
     ELSE /\ pc' = IF passes = 1 THEN "inval" ELSE "idle"
          /\ i' = 0 /\ want' = {}
  /\ passes' = IF passes = 0 THEN 0 ELSE passes - 1
  /\ UNCHANGED <<media, cache, hmpvars, array, u, nmod, nflush, base, closed>>

-----------------------------------------------------------------------------
(* hammer2_vfs_unmount *)

\* Mutant of Unmount: one pass for the first device.
Unmount_OnePass ==
  /\ pc = "idle"
  /\ u' = 0 /\ passes' = 1
  /\ SyncBegin
  /\ UNCHANGED <<media, cache, hmpvars, array, nmod, nflush, base, closed>>

\* hmp1 for the first device: three passes of vfs_sync.
Unmount ==
  /\ pc = "idle"
  /\ u' = 0 /\ passes' = 3
  /\ SyncBegin
  /\ UNCHANGED <<media, cache, hmpvars, array, nmod, nflush, base, closed>>

\* The device's chain is dropped; hmp2 writes out and waits for all buffers
\* of the device with the last of its mounts, and closes it.  Then hmp1 for
\* the next device.
UnmountDevice ==
  /\ pc = "inval"
  /\ LET d == array[u + 1]
         left == [array EXCEPT ![u + 1] = NULL]
     IN  /\ array' = left
         /\ IF d \in Range(left)
            THEN UNCHANGED closed
            ELSE /\ hdrq[d] = <<>> /\ dblk[d] = {}
                 /\ closed' = closed \cup {d}
         /\ IF u + 1 < NChains
            THEN /\ u' = u + 1 /\ passes' = 3
                 /\ pc' = "flush" /\ i' = 0
                 /\ want' = {e \in Devs : Dirty(e) /\ e \in Range(left)}
            ELSE /\ u' = -1 /\ passes' = 0
                 /\ pc' = "down" /\ i' = 0 /\ want' = {}
  /\ UNCHANGED <<media, cache, hmpvars, nmod, nflush, base>>

-----------------------------------------------------------------------------
(* The buffer cache, the disk and the power supply *)

\* A delayed write of bdwrite() gets to the media.
WriteBlocks(d) ==
  /\ \E n \in dblk[d] :
       /\ dblk' = [dblk EXCEPT ![d] = @ \ {n}]
       /\ blk' = [blk EXCEPT ![d] = @ \cup {n}]
  /\ UNCHANGED <<hdr, hdrq, torn, hmpvars, thread, hist>>

\* The disk takes any header of its queue; while it writes, the slot is torn.
DiskStart(d) ==
  /\ torn[d] = -1
  /\ \E k \in DOMAIN hdrq[d] :
       /\ torn' = [torn EXCEPT ![d] = hdrq[d][k].slot]
       /\ hdr' = [hdr EXCEPT ![d][hdrq[d][k].slot] = Bad]
  /\ UNCHANGED <<blk, hdrq, dblk, hmpvars, thread, hist>>

\* The write is done (biodone).
DiskFinish(d) ==
  /\ \E k \in DOMAIN hdrq[d] :
       /\ hdrq[d][k].slot = torn[d]
       /\ hdr' = [hdr EXCEPT ![d][torn[d]] = IF torn[d] \in OnDevice THEN hdrq[d][k].h ELSE Bad]
       /\ hdrq' = [hdrq EXCEPT ![d] = RemoveAt(@, k)]
  /\ torn' = [torn EXCEPT ![d] = -1]
  /\ UNCHANGED <<blk, dblk, hmpvars, thread, hist>>

\* Power is lost, or a thread faults: what was in memory is gone.
Crash ==
  /\ pc # "down"
  /\ pc' = "down" /\ i' = 0 /\ u' = -1 /\ passes' = 0 /\ want' = {} /\ closed' = {}
  /\ array' = [k \in 1..NChains |-> NULL]
  /\ hdrq' = [d \in Devs |-> <<>>]
  /\ torn' = [d \in Devs |-> -1]
  /\ dblk' = [d \in Devs |-> {}]
  /\ UNCHANGED <<media, hmpvars, nmod, nflush, base>>

Sync ==
  SyncSkip \/ SyncFreemap \/ SyncFlush \/ SyncHang \/ SyncHeader \/ SyncNoHeader \/ SyncEnd

Disk(d) == WriteBlocks(d) \/ DiskStart(d) \/ DiskFinish(d)

Next ==
  \/ Mount \/ Unmount \/ UnmountDevice \/ Crash
  \/ VfsSync \/ Sync
  \/ \E d \in Devs : Modify(d) \/ Disk(d)

Spec == Init /\ [][Next]_vars

(***************************************************************************)
(* The thread in vfs_sync or vfs_unmount keeps running unless it is asleep *)
(* in biowait, and the disk keeps writing.  Nothing forces a mount, a      *)
(* sync, an unmount or a crash, and nothing forces biowait to return.      *)
(***************************************************************************)
Fairness ==
  /\ WF_vars(Sync)
  /\ WF_vars(UnmountDevice)
  /\ \A d \in Devs : WF_vars(Disk(d))

FairSpec == Spec /\ Fairness

-----------------------------------------------------------------------------
(* What the volume header code promises *)

(***************************************************************************)
(* "read four volhdrs and use the one with the highest TID whos CRC        *)
(* matches": at every moment the header a mount would pick is that of the  *)
(* latest flush among the whole ones, though TIDs restart from the header  *)
(* found after a crash and are handed out again.                           *)
(***************************************************************************)
NewestInstalled ==
  \A d \in Devs, s \in Slots :
    Installs(d, s) => \A r \in Slots : Valid(hdr[d][r]) => hdr[d][r].at <= hdr[d][s].at

\* hammer2_install_volume_header finds a header.
Mountable(d) == \E s \in Slots : Valid(hdr[d][s])

(***************************************************************************)
(* "syncs iterate between them so there is no single master": whatever     *)
(* crashes came before, the last whole header of a device is torn only     *)
(* when the disk has two or more headers of the device to write.  (With    *)
(* two it can be: vfs_sync does not wait for the header of the sync before,*)
(* and the disk may write the newer one first.)                            *)
(***************************************************************************)
StaysMountable ==
  [][\A d \in Devs : Mountable(d) /\ Len(hdrq[d]) <= 1 => Mountable(d)']_vars

(***************************************************************************)
(* "we want to leave the filesystem in a 100% clean state on a normal      *)
(* unmount" (hammer2_vfs_unmount_hmp1): once a device is closed nothing is *)
(* left unflushed, freemap included, though each flush may dirty the       *)
(* freemap again; the next mount picks the last flush, and all blocks      *)
(* written since the last mount are on the media.                          *)
(***************************************************************************)
CleanUnmount ==
  \A d \in closed :
    /\ ~Dirty(d)
    /\ volsync[d].on \ base[d] \subseteq blk[d]
    /\ \E s \in Slots : Installs(d, s) /\ hdr[d][s] = volsync[d]

(***************************************************************************)
(* The loop of vfs_sync over the cluster ends, though the header code      *)
(* overwrites its index, and so does each unmount, unless the thread stays *)
(* in biowait.                                                             *)
(***************************************************************************)
SyncEnds ==
  pc \in {"flush", "vchain", "header", "inval"} ~> pc \in {"idle", "down", "biowait"}

(***************************************************************************)
(* "Flush all volume roots to synchronize PFS flushes with the storage     *)
(* media": when vfs_sync returns it has issued the header of every device  *)
(* of the cluster that had modifications when it began.                    *)
(***************************************************************************)
AllVolumesSynced == pc = "flush" /\ i >= NChains => want = {}
=============================================================================
