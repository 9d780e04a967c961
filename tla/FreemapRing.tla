---------------------------- MODULE FreemapRing ----------------------------
(***************************************************************************)
(* The copies of a freemap leaf and the ring of volume headers.  A leaf is *)
(* not allocated but lives in the reserved area of its zone, where         *)
(* hammer2_freemap_reserve moves it on to the next of six blocks at its    *)
(* first modification after a flush.  Old headers of the ring point to the *)
(* blocks it was in before, so the rotation must not come back to a block  *)
(* as long as a mount may need it: two rings of different length, turned   *)
(* by different steps, with the disk behind both.                          *)
(*                                                                         *)
(* One device and one leaf.  Every content of the leaf between two flushes *)
(* has a number of its own, its generation (history).                      *)
(*                                                                         *)
(* Dirty buffers are written at any time.  Header writes are asynchronous  *)
(* (bawrite); the disk queue sorts them, so they are done in any order, and*)
(* a crash tears the one in progress, which then fails the CRC of sector 0 *)
(* or 1.  Nothing but getblk() of the same slot waits for a header, so all *)
(* slots of the ring can have a write outstanding.  A thread that does not *)
(* come back from biowait (see VolSync) is one that stays in pc "header".  *)
(***************************************************************************)
EXTENDS Integers, SequencesExt

CONSTANTS
  VoluSize,    \* volu_size in MB
  MaxFlush,    \* bound: number of flushes of the volume
  MaxIdle      \* bound: number of flushes that find the leaf unmodified

HAMMER2_NUM_VOLHDRS  == 4
HAMMER2_ZONE_BYTES64 == 2048      \* MB
HAMMER2_SEGSIZE      == 2         \* MB
FreemapSections      == 6         \* HAMMER2_ZONE_FREEMAP_00 to _05

Slots  == {s \in 0..(HAMMER2_NUM_VOLHDRS - 1) : s * HAMMER2_ZONE_BYTES64 < VoluSize}
Copies == 0..(FreemapSections - 1)

VARIABLES
  \* the media
  hdr,         \* the header in each slot
  copy,        \* the generation in each block of the reserved area
  \* the buffer cache and the disk
  buf,         \* the generation in the dirty buffer of each block, 0 when clean
  hdrq,        \* header writes issued by bawrite() and not done, oldest first
  torn,        \* the slot the disk is writing, or -1
  \* hammer2_mount
  pc,          \* "down", "up" (mounted) or "header" (vfs_sync, volume root flushed)
  leaf,        \* the reference to the leaf in memory: block and generation
  MODIFIED,    \* HAMMER2_CHAIN_MODIFIED of the leaf
  volsync,     \* hmp->volsync
  volhdrno,    \* hmp->volhdrno
  \* history
  ngen,        \* generations so far
  nflush,      \* flushes so far
  nidle        \* flushes that found the leaf unmodified

media == <<hdr, copy>>
cache == <<buf, hdrq, torn>>
hmpvars == <<pc, leaf, MODIFIED, volsync, volhdrno>>
vars == <<media, cache, hmpvars, ngen, nflush, nidle>>

\* A freemap block table: data_off of the leaf as an index, -1 when it is 0.
Table == [idx : Copies \cup {-1}, gen : Nat]

\* good: the CRCs of sectors 0 and 1 match.
Header == [good : BOOLEAN, tid : Nat, table : Table]

TypeOK ==
  /\ hdr \in [Slots -> Header]
  /\ copy \in [Copies -> 0..ngen]
  /\ buf \in [Copies -> 0..ngen]
  /\ hdrq \in Seq([slot : Slots, h : Header])
  /\ torn \in Slots \cup {-1}
  /\ torn # -1 => \E k \in DOMAIN hdrq : hdrq[k].slot = torn
  /\ pc \in {"down", "up", "header"}
  /\ leaf \in Table
  /\ MODIFIED \in BOOLEAN
  /\ volsync \in Header
  /\ volhdrno \in Slots
  /\ ngen \in Nat
  /\ nflush \in 0..MaxFlush
  /\ nidle \in 0..MaxIdle

-----------------------------------------------------------------------------
(* Helpers *)

\* hammer2_freemap_reserve: index 0 first, then the next of the sections.
Reserve(idx) == IF idx + 1 = FreemapSections THEN 0 ELSE idx + 1

\* The slot hammer2_vfs_sync writes next.
NextSlot ==
  LET s == volhdrno + 1
  IN  IF \/ s >= HAMMER2_NUM_VOLHDRS
         \/ s * HAMMER2_ZONE_BYTES64 + HAMMER2_SEGSIZE > VoluSize
      THEN 0 ELSE s

\* hammer2_install_volume_header: the first of the headers with good sectors
\* 0 and 1 that have the highest mirror_tid.  Nothing else is checked.
Installs(s) ==
  /\ hdr[s].good
  /\ \A r \in Slots : hdr[r].good =>
       /\ hdr[r].tid <= hdr[s].tid
       /\ r < s => hdr[r].tid < hdr[s].tid

-----------------------------------------------------------------------------
NoLeaf == [idx |-> -1, gen |-> 0]

NewfsHeader == [good |-> TRUE, tid |-> 0, table |-> NoLeaf]

Init ==
  /\ hdr = [s \in Slots |-> NewfsHeader]
  /\ copy = [c \in Copies |-> 0]
  /\ buf = [c \in Copies |-> 0]
  /\ hdrq = <<>>
  /\ torn = -1
  /\ pc = "down"
  /\ leaf = NoLeaf
  /\ MODIFIED = FALSE
  /\ volsync = NewfsHeader
  /\ volhdrno = 0
  /\ ngen = 0
  /\ nflush = 0
  /\ nidle = 0

Mount ==
  /\ pc = "down"
  /\ \E s \in Slots :
       /\ Installs(s)
       /\ volhdrno' = s
       /\ volsync' = hdr[s]
       /\ leaf' = hdr[s].table
  /\ MODIFIED' = FALSE
  /\ pc' = "up"
  /\ UNCHANGED <<media, cache, ngen, nflush, nidle>>

\* hammer2_chain_modify of the leaf by an allocation or by recovery, at any
\* time, that of a flush included.  New storage is taken only when MODIFIED is
\* not set.  The buffer is dirty, again if it has been written before, and
\* goes to the buffer cache when the chain is unlocked.
Modify ==
  /\ pc # "down"
  /\ IF MODIFIED
     THEN /\ buf' = [buf EXCEPT ![leaf.idx] = leaf.gen]
          /\ UNCHANGED <<leaf, ngen>>
     ELSE /\ ngen <= MaxFlush
          /\ leaf' = [idx |-> Reserve(leaf.idx), gen |-> ngen + 1]
          /\ ngen' = ngen + 1
          /\ buf' = [buf EXCEPT ![leaf'.idx] = ngen + 1]
  /\ MODIFIED' = TRUE
  /\ UNCHANGED <<media, hdrq, torn, pc, volsync, volhdrno, nflush, nidle>>

\* hammer2_vfs_sync flushes fchain, which puts the reference to the leaf into
\* voldata.freemap_blockset if the leaf was modified, and vchain, which copies
\* voldata to volsync.  The topology may have changed elsewhere.
SyncFlush ==
  /\ pc = "up"
  /\ nflush < MaxFlush
  /\ MODIFIED \/ nidle < MaxIdle
  /\ volsync' = [good |-> TRUE, tid |-> volsync.tid + 1,
                 table |-> IF MODIFIED THEN leaf ELSE volsync.table]
  /\ MODIFIED' = FALSE
  /\ nflush' = nflush + 1
  /\ nidle' = IF MODIFIED THEN nidle ELSE nidle + 1
  /\ pc' = "header"
  /\ UNCHANGED <<media, cache, leaf, volhdrno, ngen>>

\* getblk() waits for a write of the slot that is still under way.
SyncHeader ==
  /\ pc = "header"
  /\ \A k \in DOMAIN hdrq : hdrq[k].slot # NextSlot
  /\ hdrq' = Append(hdrq, [slot |-> NextSlot, h |-> volsync])
  /\ volhdrno' = NextSlot
  /\ pc' = "up"
  /\ UNCHANGED <<media, buf, torn, leaf, MODIFIED, volsync, ngen, nflush, nidle>>

-----------------------------------------------------------------------------
(* The buffer cache, the disk and the power supply *)

\* The dirty buffer of a block of the reserved area gets to the media.
WriteCopy(c) ==
  /\ buf[c] # 0
  /\ copy' = [copy EXCEPT ![c] = buf[c]]
  /\ buf' = [buf EXCEPT ![c] = 0]
  /\ UNCHANGED <<hdr, hdrq, torn, hmpvars, ngen, nflush, nidle>>

\* The disk takes any header of its queue; while it writes, the slot is torn.
DiskStart ==
  /\ torn = -1
  /\ \E k \in DOMAIN hdrq :
       /\ torn' = hdrq[k].slot
       /\ hdr' = [hdr EXCEPT ![hdrq[k].slot].good = FALSE]
  /\ UNCHANGED <<copy, buf, hdrq, hmpvars, ngen, nflush, nidle>>

\* The write is done (biodone).
DiskFinish ==
  /\ \E k \in DOMAIN hdrq :
       /\ hdrq[k].slot = torn
       /\ hdr' = [hdr EXCEPT ![torn] = hdrq[k].h]
       /\ hdrq' = RemoveAt(hdrq, k)
  /\ torn' = -1
  /\ UNCHANGED <<copy, buf, hmpvars, ngen, nflush, nidle>>

\* Power is lost: what was in memory is gone.
Crash ==
  /\ pc # "down"
  /\ pc' = "down"
  /\ buf' = [c \in Copies |-> 0]
  /\ hdrq' = <<>>
  /\ torn' = -1
  /\ leaf' = NoLeaf
  /\ MODIFIED' = FALSE
  /\ volsync' = NewfsHeader
  /\ volhdrno' = 0
  /\ UNCHANGED <<media, ngen, nflush, nidle>>

Next ==
  \/ Mount \/ Modify \/ SyncFlush \/ SyncHeader \/ Crash
  \/ \E c \in Copies : WriteCopy(c)
  \/ DiskStart \/ DiskFinish

Spec == Init /\ [][Next]_vars

-----------------------------------------------------------------------------
(***************************************************************************)
(* "Eight sets exist to prevent live updates from disturbing the state of  *)
(* the freemap were a crash/reboot to occur" (hammer2_disk.h): whatever    *)
(* the moment of a crash, the block that the header picked by the next     *)
(* mount has for the leaf holds no later generation than the one the       *)
(* header means, that is, the rotation has not come round to it again.     *)
(***************************************************************************)
NotOverwritten ==
  \A s \in Slots :
    Installs(s) /\ hdr[s].table.idx # -1 =>
      copy[hdr[s].table.idx] <= hdr[s].table.gen
=============================================================================
