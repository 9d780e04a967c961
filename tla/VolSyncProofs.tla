--------------------------- MODULE VolSyncProofs ---------------------------
(* Proofs about VolSync, for every cluster of devices, every size of the   *)
(* volume and any number of flushes, crashes, mounts and unmounts.         *)
EXTENDS VolSync, SeqShapes, TLAPS

\* The slot that follows s in the ring.
Follows(s) ==
  IF \/ s + 1 >= HAMMER2_NUM_VOLHDRS
     \/ (s + 1) * HAMMER2_ZONE_BYTES64 + HAMMER2_SEGSIZE > VoluSize
  THEN 0 ELSE s + 1

-----------------------------------------------------------------------------
(***************************************************************************)
(* The inductive invariant, one group of conjuncts per concern.            *)
(***************************************************************************)

\* What the thread is doing: the entries of the array before u have been
\* dropped by an unmount, the others are those of the cluster.
ThreadInv ==
  /\ pc \in {"down", "idle"} => u = -1
  /\ pc = "inval" => u >= 0 /\ passes = 0
  /\ passes > 0 => u >= 0
  /\ passes = 0 /\ pc \in {"flush", "vchain", "header"} => u = -1
  /\ pc # "down" => \A k \in 1..NChains : array[k] = IF k <= u THEN NULL ELSE Cluster[k]
  /\ pc = "down" => \A k \in 1..NChains : array[k] = NULL
  /\ pc \in {"vchain", "header", "biowait"} => array[i + 1] # NULL

\* vchain itself is dirty only between the flushes of fchain and vchain, and a
\* header waits to be issued only from there to the end of the loop's body.
FlagInv ==
  \A e \in Devs :
    /\ voldirty[e] => \/ pc = "down"
                      \/ pc = "vchain" /\ array[i + 1] = e
    /\ VOLUMESYNC[e] => \/ pc = "down"
                        \/ pc \in {"header", "biowait"} /\ array[i + 1] = e

\* vfs_sync in a pass of an unmount, behind the device at index u.
Beyond == pc \in {"flush", "vchain", "header"} /\ i > u

\* The first of the three passes cleans the topology of the device at u, and
\* may leave its freemap dirty; the second cleans the freemap and, with a clean
\* topology, dirties nothing.
PassInv ==
  u >= 0 =>
    LET d == Cluster[u + 1]
    IN  /\ \/ passes <= 2
           \/ Beyond
           \/ pc = "header" /\ i = u
           => ~modified[d]
        /\ \/ passes <= 1
           \/ passes = 2 /\ Beyond
           \/ passes = 2 /\ pc \in {"vchain", "header"} /\ i = u
           => ~fdirty[d]

\* Header writes are queued for different slots of the device, and the slot
\* that is being written is one of them.  A device that no mount uses any
\* more has no write under way.
QueueInv(d) ==
  /\ \A k \in DOMAIN hdrq[d] : hdrq[d][k].slot \in OnDevice
  /\ \A r \in Slots : Valid(hdr[d][r]) => r \in OnDevice
  /\ \A j, k \in DOMAIN hdrq[d] : j # k => hdrq[d][j].slot # hdrq[d][k].slot
  /\ torn[d] # -1 => \E k \in DOMAIN hdrq[d] : hdrq[d][k].slot = torn[d]
  /\ (\A k \in 1..NChains : array[k] # d) => hdrq[d] = <<>> /\ dblk[d] = {}

\* The headers of a device that can get or stay on the media.
Known(d) ==
  {hdr[d][s] : s \in {r \in Slots : Valid(hdr[d][r])}}
    \cup {hdrq[d][k].h : k \in DOMAIN hdrq[d]}
    \cup (IF pc = "down" THEN {} ELSE {volsync[d]})

\* Their TIDs are in the order of their flushes, and below the next TID.
Ordered(d) ==
  /\ \A x, y \in Known(d) : x.tid <= y.tid => x.at <= y.at
  /\ \A x \in Known(d) : x.at <= nflush /\ (pc # "down" => x.tid <= alloc_tid[d])

\* volsync is newer than all other headers; once its header was issued it is
\* in slot volhdrno or on its way there.
TopInv(d) ==
  pc # "down" =>
    /\ Valid(volsync[d]) /\ volhdrno[d] \in OnDevice
    /\ \A k \in DOMAIN hdrq[d] :
         VOLUMESYNC[d] \/ hdrq[d][k].slot # volhdrno[d] => hdrq[d][k].h.tid < volsync[d].tid
    /\ \A r \in Slots : Valid(hdr[d][r]) =>
         /\ hdr[d][r].tid <= volsync[d].tid
         /\ VOLUMESYNC[d] \/ r < volhdrno[d] => hdr[d][r].tid < volsync[d].tid
    /\ ~VOLUMESYNC[d] =>
         IF \E k \in DOMAIN hdrq[d] : hdrq[d][k].slot = volhdrno[d]
         THEN \A k \in DOMAIN hdrq[d] :
                hdrq[d][k].slot = volhdrno[d] => hdrq[d][k].h = volsync[d]
         ELSE hdr[d][volhdrno[d]] = volsync[d]

\* The blocks of every flush since the mount are on the media or buffered.
BlocksInv(d) == pc # "down" => volsync[d].on \ base[d] \subseteq blk[d] \cup dblk[d]

\* A device that was closed is left alone.
ClosedInv ==
  /\ closed # {} => pc = "down" \/ u >= 0
  /\ \A d \in closed : \A k \in 1..NChains : array[k] # d
  /\ CleanUnmount

DevInv(d) == QueueInv(d) /\ Ordered(d) /\ TopInv(d) /\ BlocksInv(d)

IInv ==
  /\ TypeOK /\ ThreadInv /\ FlagInv /\ PassInv /\ ClosedInv
  /\ \A d \in Devs : DevInv(d)

\* Slot volhdrno is whole unless it is still to be written; when one header
\* is to be written another slot is whole.
SpareInv(d) ==
  /\ \A k \in DOMAIN hdrq[d] : Valid(hdrq[d][k].h)
  /\ \/ pc = "down"
     \/ Valid(hdr[d][volhdrno[d]])
     \/ \E k \in DOMAIN hdrq[d] : hdrq[d][k].slot = volhdrno[d]
  /\ Len(hdrq[d]) = 1 => \E r \in Slots : r # hdrq[d][1].slot /\ Valid(hdr[d][r])

SInv == IInv /\ \A d \in Devs : SpareInv(d)

-----------------------------------------------------------------------------
(* What an action leaves alone *)

\* An entry of the queue of header writes.
LEMMA QueueEntry ==
  ASSUME TypeOK, NEW d \in Devs, NEW k \in DOMAIN hdrq[d]
  PROVE  /\ hdrq[d][k] \in [slot : Slots, h : Header]
         /\ hdrq[d][k].slot \in Slots /\ hdrq[d][k].h \in Header
<1>1. hdrq[d] \in Seq([slot : Slots, h : Header])
  BY DEF TypeOK
<1>2. hdrq[d] \in Seq([slot : Slots, h : Header]) /\ k \in 1..Len(hdrq[d])
  BY <1>1
<1>3. hdrq[d][k] \in [slot : Slots, h : Header]
  BY <1>2, ElementOfSeq, Zenon
<1>4. QED
  BY <1>3

LEMMA KnownType ==
  ASSUME TypeOK, NEW d \in Devs, NEW x \in Known(d)
  PROVE  x \in Header /\ x.tid \in Nat /\ x.at \in Nat
<1>1. \A s \in Slots : hdr[d][s] \in Header
  BY DEF TypeOK
<1>2. \A k \in DOMAIN hdrq[d] : hdrq[d][k].h \in Header
  BY QueueEntry
<1>3. volsync[d] \in Header
  BY DEF TypeOK
<1>4. x \in Header
  BY <1>1, <1>2, <1>3 DEF Known
<1>5. QED
  BY <1>4 DEF Header

\* A device whose own state an action does not change keeps its part of the
\* invariant; other devices may have been flushed, and the mount may be gone.
LEMMA DevSame ==
  ASSUME TypeOK, NEW d \in Devs, DevInv(d),
         hdr'[d] = hdr[d], blk'[d] = blk[d], hdrq'[d] = hdrq[d], torn'[d] = torn[d],
         dblk'[d] = dblk[d], volsync'[d] = volsync[d], VOLUMESYNC'[d] = VOLUMESYNC[d],
         volhdrno'[d] = volhdrno[d], alloc_tid'[d] = alloc_tid[d], base'[d] = base[d],
         nflush' \in Nat, nflush <= nflush',
         pc = "down" => pc' = "down",
         (\A k \in 1..NChains : array'[k] # d) =>
           \/ \A k \in 1..NChains : array[k] # d
           \/ hdrq[d] = <<>> /\ dblk[d] = {}
  PROVE  DevInv(d)'
<1>1. QueueInv(d)'
  BY DEF DevInv, QueueInv
<1>2. Known(d)' \subseteq Known(d)
  BY DEF Known
<1>3. ASSUME NEW x \in Known(d) PROVE x.at \in Nat
  BY KnownType
<1>4. Ordered(d)'
  <2>1. \A x, y \in Known(d)' : x.tid <= y.tid => x.at <= y.at
    BY <1>2 DEF DevInv, Ordered
  <2>2. ASSUME NEW x \in Known(d)'
        PROVE  x.at <= nflush' /\ (pc' # "down" => x.tid <= alloc_tid'[d])
    <3>1. x \in Known(d)
      BY <1>2
    <3>2. x.at <= nflush /\ x.at \in Nat /\ (pc # "down" => x.tid <= alloc_tid[d])
      BY <3>1, <1>3 DEF DevInv, Ordered
    <3>3. nflush \in Nat
      BY DEF TypeOK
    <3>4. QED
      BY <3>2, <3>3
  <2>3. QED
    BY <2>1, <2>2 DEF Ordered
<1>5. TopInv(d)'
  BY DEF DevInv, TopInv
<1>6. BlocksInv(d)'
  BY DEF DevInv, BlocksInv
<1>7. QED
  BY <1>1, <1>4, <1>5, <1>6 DEF DevInv

\* A device that was closed stays clean as long as nobody touches it.
LEMMA ClosedSame ==
  ASSUME ClosedInv, closed' = closed,
         closed # {} => pc' = "down" \/ u' >= 0,
         \A d \in closed :
           /\ \A k \in 1..NChains : array'[k] # d
           /\ modified'[d] = modified[d] /\ voldirty'[d] = voldirty[d] /\ fdirty'[d] = fdirty[d]
           /\ volsync'[d] = volsync[d]
           /\ base'[d] = base[d] /\ blk[d] \subseteq blk'[d] /\ hdr'[d] = hdr[d]
  PROVE  ClosedInv'
<1>1. ASSUME NEW d \in closed
      PROVE  /\ ~Dirty(d)'
             /\ volsync'[d].on \ base'[d] \subseteq blk'[d]
             /\ \E s \in Slots : Installs(d, s)' /\ hdr'[d][s] = volsync'[d]
  <2>1. ~Dirty(d)'
    BY DEF ClosedInv, CleanUnmount, Dirty
  <2>2. volsync'[d].on \ base'[d] \subseteq blk'[d]
    BY DEF ClosedInv, CleanUnmount
  <2>3. \E s \in Slots : Installs(d, s)' /\ hdr'[d][s] = volsync'[d]
    BY DEF ClosedInv, CleanUnmount, Installs
  <2>4. QED
    BY <2>1, <2>2, <2>3
<1>2. CleanUnmount'
  BY <1>1 DEF CleanUnmount
<1>3. QED
  BY <1>2 DEF ClosedInv

-----------------------------------------------------------------------------
(* Facts about the ring of slots and the cluster *)

LEMMA FollowsSlot ==
  ASSUME NEW s \in Slots
  PROVE  /\ Follows(s) \in OnDevice
         /\ VoluSize > HAMMER2_ZONE_BYTES64 => Follows(s) # s
         /\ OnDevice \subseteq Slots /\ 0 \in OnDevice /\ s \in Nat
<1>1. s \in 0..3 /\ OnDevice \subseteq Slots
  BY DEF Slots, OnDevice, HAMMER2_NUM_VOLHDRS
<1>2. 0 \in OnDevice
  BY SizeAssumption DEF Slots, OnDevice, HAMMER2_NUM_VOLHDRS, HAMMER2_ZONE_BYTES64
<1>3. Follows(s) \in OnDevice
  BY <1>1, <1>2, SizeAssumption
     DEF Follows, Slots, OnDevice, HAMMER2_NUM_VOLHDRS, HAMMER2_ZONE_BYTES64, HAMMER2_SEGSIZE
<1>4. ASSUME VoluSize > HAMMER2_ZONE_BYTES64, Follows(s) = s PROVE FALSE
  <2>1. s = 0
    BY <1>1, <1>4 DEF Follows
  <2>2. 2050 > VoluSize /\ VoluSize > 2048
    BY <1>4, <2>1 DEF Follows, HAMMER2_NUM_VOLHDRS, HAMMER2_ZONE_BYTES64, HAMMER2_SEGSIZE
  <2>3. QED
    BY <2>2, SizeAssumption DEF HAMMER2_VOLUME_ALIGN
<1>5. QED
  BY <1>1, <1>2, <1>3, <1>4

\* The slot hammer2_vfs_sync writes is the one that follows volhdrno.
LEMMA NextSlotFollows ==
  ASSUME NEW d PROVE NextSlot(d) = Follows(volhdrno[d])
BY DEF NextSlot, Follows

\* The entry vfs_sync works on is a device of the cluster that the unmount
\* under way has not dropped.
LEMMA EntryIsDevice ==
  ASSUME TypeOK, ThreadInv, pc # "down", NEW k \in 0..(NChains - 1), array[k + 1] # NULL
  PROVE  /\ array[k + 1] \in Devs /\ array[k + 1] = Cluster[k + 1] /\ k >= u
         /\ k + 1 \in 1..NChains
<1>1. NChains \in Nat /\ k + 1 \in 1..NChains
  BY ClusterAssumption DEF NChains
<1>2. array[k + 1] = IF k + 1 <= u THEN NULL ELSE Cluster[k + 1]
  BY <1>1 DEF ThreadInv
<1>3. Cluster[k + 1] \in Devs
  BY <1>1, ClusterAssumption DEF NChains
<1>4. u \in Int
  BY <1>1 DEF TypeOK
<1>5. QED
  BY <1>1, <1>2, <1>3, <1>4

-----------------------------------------------------------------------------
(* newfs_hammer2, mount and modifications *)

LEMMA InitInv ==
  ASSUME Init PROVE IInv
<1>0. NChains \in Nat \ {0}
  BY ClusterAssumption DEF NChains
<1>1. TypeOK
  <2>1. NewfsHeader \in Header /\ Bad \in Header
    BY DEF NewfsHeader, Bad, Header, NewfsTid
  <2>2. hdr \in [Devs -> [Slots -> Header]]
    BY <2>1 DEF Init
  <2>3. 0 \in Slots
    BY DEF Slots, HAMMER2_NUM_VOLHDRS
  <2>4. hdrq \in [Devs -> Seq([slot : Slots, h : Header])]
    BY DEF Init
  <2>5. QED
    BY <2>1, <2>2, <2>3, <2>4, <1>0, SizeAssumption DEF Init, TypeOK
<1>3. ThreadInv /\ FlagInv /\ PassInv /\ ClosedInv
  BY <1>0 DEF Init, ThreadInv, FlagInv, PassInv, ClosedInv, CleanUnmount
<1>4. ASSUME NEW d \in Devs PROVE DevInv(d)
  <2>1. \A s \in Slots : hdr[d][s] = IF s \in OnDevice THEN NewfsHeader ELSE Bad
    BY DEF Init
  <2>2. QueueInv(d)
    BY <2>1 DEF Init, QueueInv, Valid
  <2>3. \A x \in Known(d) : x = NewfsHeader
    BY <2>1 DEF Init, Known, Valid
  <2>4. Ordered(d)
    BY <2>3 DEF Init, Ordered, NewfsHeader
  <2>5. QED
    BY <2>2, <2>4 DEF Init, DevInv, TopInv, BlocksInv
<1>5. QED
  BY <1>1, <1>3, <1>4 DEF IInv

\* While the volume is not mounted no write is under way.
LEMMA DownQuiet ==
  ASSUME IInv, pc = "down", NEW d \in Devs
  PROVE  hdrq[d] = <<>> /\ dblk[d] = {} /\ torn[d] = -1
<1>1. \A k \in 1..NChains : array[k] # d
  BY ClusterAssumption DEF IInv, ThreadInv
<1>2. hdrq[d] = <<>> /\ dblk[d] = {}
  BY <1>1 DEF IInv, DevInv, QueueInv
<1>3. DOMAIN hdrq[d] = {}
  BY <1>2
<1>4. QED
  BY <1>2, <1>3 DEF IInv, DevInv, QueueInv

LEMMA MountStep ==
  ASSUME IInv, Mount PROVE IInv'
<1>0. TypeOK
  BY DEF IInv
<1>1. PICK sel \in [Devs -> Slots] :
        /\ \A d \in Devs : Installs(d, sel[d])
        /\ volhdrno' = sel
        /\ volsync' = [d \in Devs |-> hdr[d][sel[d]]]
        /\ alloc_tid' = [d \in Devs |-> hdr[d][sel[d]].tid + 1]
        /\ base' = [d \in Devs |-> hdr[d][sel[d]].on]
  BY DEF Mount
<1>2. /\ pc = "down" /\ pc' = "idle" /\ closed' = {}
      /\ modified' = [d \in Devs |-> FALSE]
      /\ voldirty' = [d \in Devs |-> FALSE] /\ fdirty' = [d \in Devs |-> FALSE]
      /\ VOLUMESYNC' = [d \in Devs |-> FALSE]
      /\ array' = [k \in 1..NChains |-> Cluster[k]]
      /\ UNCHANGED <<hdr, blk, hdrq, torn, dblk, i, u, passes, nmod, nflush, want>>
  BY DEF Mount, media, cache
<1>3. u = -1 /\ passes = 0
  <2>1. u = -1 /\ passes \in 0..3 /\ ~(passes > 0)
    BY <1>2 DEF IInv, ThreadInv, TypeOK
  <2>2. QED
    BY <2>1
<1>4. ASSUME NEW d \in Devs
      PROVE  /\ hdr[d][sel[d]] \in Header /\ hdr[d][sel[d]].tid \in Nat
             /\ hdr[d][sel[d]].on \in SUBSET Nat
  BY <1>0, <1>1 DEF TypeOK, Header
<1>5. NChains \in Nat /\ \A k \in 1..NChains : Cluster[k] \in Devs
  BY ClusterAssumption DEF NChains
<1>6. TypeOK'
  <2>1. /\ volsync' \in [Devs -> Header] /\ alloc_tid' \in [Devs -> Nat]
        /\ base' \in [Devs -> SUBSET Nat] /\ volhdrno' \in [Devs -> Slots]
    BY <1>1, <1>4
  <2>2. array' \in [1..NChains -> Devs \cup {NULL}]
    BY <1>2, <1>5
  <2>3. /\ modified' \in [Devs -> BOOLEAN] /\ VOLUMESYNC' \in [Devs -> BOOLEAN]
        /\ voldirty' \in [Devs -> BOOLEAN] /\ fdirty' \in [Devs -> BOOLEAN]
    BY <1>2
  <2>4. QED
    BY <1>0, <1>2, <2>1, <2>2, <2>3 DEF TypeOK
<1>8. ThreadInv' /\ FlagInv' /\ PassInv' /\ ClosedInv'
  BY <1>2, <1>3, <1>5 DEF ThreadInv, FlagInv, PassInv, ClosedInv, CleanUnmount
<1>9. ASSUME NEW d \in Devs PROVE DevInv(d)'
  <2>1. hdrq'[d] = <<>> /\ dblk'[d] = {} /\ torn'[d] = -1 /\ DOMAIN hdrq'[d] = {}
    BY <1>2, DownQuiet
  <2>2. /\ volsync'[d] = hdr[d][sel[d]] /\ volhdrno'[d] = sel[d]
        /\ alloc_tid'[d] = hdr[d][sel[d]].tid + 1 /\ base'[d] = hdr[d][sel[d]].on
        /\ ~VOLUMESYNC'[d] /\ sel[d] \in Slots
    BY <1>1, <1>2
  <2>3. Installs(d, sel[d])
    BY <1>1
  <2>4. DevInv(d)
    BY DEF IInv
  <2>5. QueueInv(d)'
    BY <1>2, <2>1, <2>4 DEF DevInv, QueueInv
  <2>6. Known(d)' \subseteq {hdr[d][s] : s \in {r \in Slots : Valid(hdr[d][r])}}
    BY <1>2, <2>1, <2>2, <2>3 DEF Known, Installs
  <2>7. Ordered(d)'
    <3>1. Known(d)' \subseteq Known(d)
      BY <2>6 DEF Known
    <3>2. ASSUME NEW x \in Known(d)'
          PROVE  x.at <= nflush' /\ x.tid <= alloc_tid'[d]
      <4>1. x.at <= nflush'
        BY <1>2, <2>4, <3>1 DEF DevInv, Ordered
      <4>2. x.tid \in Nat /\ x.tid <= hdr[d][sel[d]].tid
        BY <1>0, <2>3, <2>6, <3>1, KnownType DEF Installs
      <4>3. QED
        BY <1>4, <2>2, <4>1, <4>2
    <3>3. QED
      BY <2>4, <3>1, <3>2 DEF DevInv, Ordered
  <2>8. TopInv(d)'
    <3>1. Valid(volsync'[d]) /\ volhdrno'[d] \in OnDevice
      BY <2>2, <2>3, <2>4 DEF Installs, DevInv, QueueInv
    <3>2. QED
      BY <1>2, <2>1, <2>2, <2>3, <3>1 DEF TopInv, Installs
  <2>9. BlocksInv(d)'
    BY <2>2 DEF BlocksInv
  <2>10. QED
    BY <2>5, <2>7, <2>8, <2>9 DEF DevInv
<1>10. QED
  BY <1>6, <1>8, <1>9 DEF IInv

LEMMA ModifyStep ==
  ASSUME IInv, NEW d \in Devs, Modify(d) PROVE IInv'
<1>0. TypeOK
  BY DEF IInv
<1>1. /\ pc # "down" /\ u = -1
      /\ modified' = [modified EXCEPT ![d] = TRUE] /\ fdirty' = [fdirty EXCEPT ![d] = TRUE]
      /\ nmod < MaxModify /\ nmod' = nmod + 1
      /\ UNCHANGED <<hdr, blk, hdrq, torn, dblk, voldirty, volsync, VOLUMESYNC, volhdrno,
                     alloc_tid, pc, i, array, u, passes, nflush, want, base, closed>>
  BY DEF Modify, media, cache, thread
<1>2. nmod' \in 0..MaxModify
  BY <1>0, <1>1, SizeAssumption DEF TypeOK
<1>3. TypeOK'
  BY <1>0, <1>1, <1>2 DEF TypeOK
<1>5. ThreadInv' /\ FlagInv'
  BY <1>1 DEF IInv, ThreadInv, FlagInv
<1>6. PassInv'
  BY <1>1 DEF PassInv
<1>7. ClosedInv'
  <2>1. closed' = {}
    BY <1>1 DEF IInv, ClosedInv
  <2>2. QED
    BY <2>1 DEF ClosedInv, CleanUnmount
<1>8. ASSUME NEW e \in Devs PROVE DevInv(e)'
  <2>1. nflush' \in Nat /\ nflush <= nflush'
    BY <1>0, <1>1 DEF TypeOK
  <2>2. QED
    BY <1>0, <1>1, <2>1, DevSame DEF IInv
<1>9. QED
  BY <1>3, <1>5, <1>6, <1>7, <1>8 DEF IInv

-----------------------------------------------------------------------------
(* Steps that move the thread only *)

LEMMA ThreadTypes ==
  ASSUME IInv
  PROVE  /\ TypeOK /\ ThreadInv
         /\ NChains \in Nat \ {0} /\ i \in Nat /\ u \in -1..(NChains - 1)
         /\ passes \in 0..3 /\ nflush \in Nat
<1>1. TypeOK /\ ThreadInv
  BY DEF IInv
<1>2. NChains \in Nat \ {0}
  BY ClusterAssumption DEF NChains
<1>3. i \in Nat /\ u \in -1..(NChains - 1) /\ passes \in 0..3 /\ nflush \in Nat
  BY <1>1 DEF TypeOK
<1>4. QED
  BY <1>1, <1>2, <1>3

LEMMA ThreadStepType ==
  ASSUME TypeOK, UNCHANGED <<media, cache, hmpvars, array, nmod, nflush, base, closed>>,
         pc' \in {"down", "idle", "flush", "inval"}, i' \in Nat,
         u' \in -1..(NChains - 1), passes' \in 0..3, want' \in SUBSET Devs
  PROVE  TypeOK'
BY DEF TypeOK, media, cache, hmpvars

\* A step that changes neither the media nor the buffer cache nor the state
\* of a device keeps what is said of them.
LEMMA ThreadStep ==
  ASSUME IInv, pc # "down", pc' # "down",
         UNCHANGED <<media, cache, hmpvars, array, nmod, nflush, base, closed>>,
         closed # {} => u' >= 0
  PROVE  ClosedInv' /\ \A d \in Devs : DevInv(d)'
<1>0. /\ TypeOK
      /\ UNCHANGED <<hdr, blk, hdrq, torn, dblk, modified, voldirty, fdirty, volsync, VOLUMESYNC, volhdrno,
                     alloc_tid>>
  BY DEF IInv, media, cache, hmpvars
<1>2. ClosedInv'
  BY <1>0, ClosedSame DEF IInv, ClosedInv
<1>3. ASSUME NEW d \in Devs PROVE DevInv(d)'
  <2>1. nflush' \in Nat /\ nflush <= nflush'
    BY <1>0 DEF TypeOK
  <2>2. QED
    BY <1>0, <2>1, DevSame DEF IInv
<1>4. QED
  BY <1>2, <1>3

\* hammer2_vfs_sync or hammer2_vfs_unmount begins a pass.
LEMMA VfsSyncStep ==
  ASSUME IInv, VfsSync PROVE IInv'
<1>0. TypeOK /\ u = -1
  BY DEF IInv, VfsSync, ThreadInv
<1>1. /\ pc = "idle" /\ pc' = "flush" /\ i' = 0 /\ want' \in SUBSET Devs
      /\ UNCHANGED <<media, cache, hmpvars, array, u, passes, nmod, nflush, base, closed>>
  BY DEF VfsSync, SyncBegin
<1>2. TypeOK'
  <2>1. i' \in Nat /\ want' \in SUBSET Devs
    BY <1>0, <1>1 DEF TypeOK
  <2>2. QED
    BY <1>0, <1>1, <2>1, ThreadTypes, ThreadStepType
<1>3. closed = {}
  BY <1>0, <1>1 DEF IInv, ClosedInv
<1>4. ClosedInv' /\ \A d \in Devs : DevInv(d)'
  BY <1>1, <1>3, ThreadStep
<1>5. ThreadInv' /\ FlagInv' /\ PassInv'
  BY <1>0, <1>1 DEF IInv, ThreadInv, FlagInv, PassInv, hmpvars
<1>6. QED
  BY <1>2, <1>4, <1>5 DEF IInv

LEMMA UnmountStep ==
  ASSUME IInv, Unmount PROVE IInv'
<1>0. TypeOK /\ u = -1
  BY DEF IInv, Unmount, ThreadInv
<1>1. /\ pc = "idle" /\ pc' = "flush" /\ i' = 0 /\ want' \in SUBSET Devs
      /\ u' = 0 /\ passes' = 3
      /\ UNCHANGED <<media, cache, hmpvars, array, nmod, nflush, base, closed>>
  BY DEF Unmount, SyncBegin
<1>2. NChains \in Nat \ {0}
  BY ClusterAssumption DEF NChains
<1>3. TypeOK'
  BY <1>0, <1>1, <1>2, ThreadStepType
<1>4. ClosedInv' /\ \A d \in Devs : DevInv(d)'
  BY <1>1, ThreadStep
<1>5. ThreadInv' /\ FlagInv' /\ PassInv'
  BY <1>0, <1>1, <1>2 DEF IInv, ThreadInv, FlagInv, PassInv, Beyond, hmpvars
<1>6. QED
  BY <1>3, <1>4, <1>5 DEF IInv

\* The loop over the cluster does not pass by the device that the unmount
\* under way is about: the entries before it have been dropped.
LEMMA SyncSkipStep ==
  ASSUME IInv, SyncSkip PROVE IInv'
<1>0. TypeOK /\ i \in Nat /\ NChains \in Nat
  BY ThreadTypes
<1>1. /\ pc = "flush" /\ i < NChains /\ i' = i + 1
      /\ UNCHANGED <<media, cache, hmpvars, pc, array, u, passes, nmod, nflush, want, base, closed>>
  BY DEF SyncSkip, hist
<1>2. TypeOK'
  <2>1. i' \in Nat /\ want' \in SUBSET Devs
    BY <1>0, <1>1 DEF TypeOK
  <2>2. QED
    BY <1>0, <1>1, <2>1, ThreadTypes, ThreadStepType
<1>3. ClosedInv' /\ \A d \in Devs : DevInv(d)'
  <2>1. closed # {} => u' >= 0
    BY <1>1 DEF IInv, ClosedInv
  <2>2. QED
    BY <1>1, <2>1, ThreadStep
<1>4. ThreadInv' /\ FlagInv'
  BY <1>1 DEF IInv, ThreadInv, FlagInv, hmpvars
<1>5. ASSUME u >= 0 PROVE i # u
  <2>1. u + 1 \in 1..NChains /\ u \in 0..NChains /\ ~(u + 1 <= u)
    BY <1>0, <1>5, ThreadTypes
  <2>2. array[u + 1] = Cluster[u + 1] /\ Cluster[u + 1] \in Devs
    BY <1>1, <2>1, ClusterAssumption DEF IInv, ThreadInv, NChains
  <2>3. ASSUME NEW j \in 0..(u - 1) PROVE array[j + 1] = NULL
    <3>1. j + 1 \in 1..NChains /\ j + 1 <= u
      BY <1>0, <2>1
    <3>2. QED
      BY <1>1, <3>1 DEF IInv, ThreadInv
  <2>4. ~Skips(u)
    BY <2>2, <2>3, ClusterAssumption DEF Skips
  <2>5. QED
    BY <2>4 DEF SyncSkip
<1>6. PassInv'
  <2>1. ASSUME u >= 0, i + 1 > u PROVE i > u
    BY <1>0, <1>5, <2>1 DEF TypeOK
  <2>2. UNCHANGED <<modified, fdirty>>
    BY <1>1 DEF hmpvars
  <2>3. u >= 0 /\ Beyond' => Beyond
    BY <1>1, <2>1 DEF Beyond
  <2>4. QED
    BY <1>1, <2>2, <2>3 DEF IInv, PassInv
<1>7. QED
  BY <1>2, <1>3, <1>4, <1>6 DEF IInv

\* From the header of a device at or behind index u, wherever the loop goes on.
LEMMA CleanBehind ==
  ASSUME IInv, pc = "header", i >= u, pc' = "flush",
         UNCHANGED <<modified, fdirty, u, passes>>
  PROVE  PassInv'
<1>1. SUFFICES ASSUME u >= 0
               PROVE  /\ ~modified[Cluster[u + 1]]
                      /\ passes <= 2 => ~fdirty[Cluster[u + 1]]
  <2>1. passes' = 2 => passes <= 2
    OBVIOUS
  <2>2. passes \in 0..3
    BY ThreadTypes
  <2>3. passes <= 1 => passes <= 2
    BY <2>2
  <2>4. QED
    BY <1>1, <2>1, <2>3 DEF PassInv, IInv
<1>2. i = u \/ i > u
  BY ThreadTypes
<1>3. passes <= 2 => passes <= 1 \/ passes = 2
  BY ThreadTypes
<1>4. Beyond \/ i = u
  BY <1>2 DEF Beyond
<1>5. QED
  BY <1>1, <1>3, <1>4 DEF IInv, PassInv

LEMMA SyncNoHeaderStep ==
  ASSUME IInv, SyncNoHeader PROVE IInv'
<1>0. TypeOK /\ ThreadInv /\ i \in Nat /\ NChains \in Nat
  BY ThreadTypes
<1>1. /\ pc = "header" /\ pc' = "flush" /\ i' = i + 1 /\ ~VOLUMESYNC[array[i + 1]]
      /\ UNCHANGED <<media, cache, hmpvars, array, u, passes, nmod, nflush, want, base, closed>>
  BY DEF SyncNoHeader, hist
<1>2. TypeOK'
  <2>1. i' \in Nat /\ want' \in SUBSET Devs
    BY <1>0, <1>1 DEF TypeOK
  <2>2. QED
    BY <1>0, <1>1, <2>1, ThreadTypes, ThreadStepType
<1>3. ClosedInv' /\ \A d \in Devs : DevInv(d)'
  <2>1. closed # {} => u' >= 0
    BY <1>1 DEF IInv, ClosedInv
  <2>2. QED
    BY <1>1, <2>1, ThreadStep
<1>4. ThreadInv'
  BY <1>1 DEF IInv, ThreadInv
<1>5. i \in 0..(NChains - 1) /\ array[i + 1] # NULL
  BY <1>0, <1>1 DEF TypeOK, ThreadInv
<1>6. array[i + 1] = Cluster[i + 1] /\ i >= u
  BY <1>0, <1>1, <1>5, EntryIsDevice
<1>7. FlagInv'
  <2>1. UNCHANGED <<voldirty, VOLUMESYNC>>
    BY <1>1 DEF hmpvars
  <2>2. ASSUME NEW e \in Devs PROVE ~voldirty[e] /\ ~VOLUMESYNC[e]
    BY <1>1 DEF IInv, FlagInv
  <2>3. QED
    BY <2>1, <2>2 DEF FlagInv
<1>8. PassInv'
  BY <1>0, <1>1, <1>6, CleanBehind DEF hmpvars
<1>9. QED
  BY <1>2, <1>3, <1>4, <1>7, <1>8 DEF IInv

LEMMA SyncEndStep ==
  ASSUME IInv, SyncEnd PROVE IInv'
<1>0. TypeOK /\ i \in Nat /\ NChains \in Nat /\ passes \in 0..3 /\ u \in -1..(NChains - 1)
  BY ThreadTypes
<1>1. /\ pc = "flush" /\ i >= NChains /\ i' = 0 /\ want' \in SUBSET Devs
      /\ pc' = IF passes > 1 THEN "flush" ELSE IF passes = 1 THEN "inval" ELSE "idle"
      /\ passes' = IF passes = 0 THEN 0 ELSE passes - 1
      /\ UNCHANGED <<media, cache, hmpvars, array, u, nmod, nflush, base, closed>>
  BY DEF SyncEnd, SyncBegin
<1>2. TypeOK'
  <2>1. passes' \in 0..3
    BY <1>0, <1>1
  <2>2. pc' \in {"flush", "inval", "idle"}
    BY <1>1
  <2>3. QED
    BY <1>0, <1>1, <2>1, <2>2 DEF TypeOK, media, cache, hmpvars
<1>3. ClosedInv' /\ \A d \in Devs : DevInv(d)'
  <2>1. closed # {} => u' >= 0
    BY <1>1 DEF IInv, ClosedInv
  <2>2. pc' # "down"
    BY <1>1
  <2>3. QED
    BY <1>1, <2>1, <2>2, ThreadStep
<1>7. FlagInv'
  BY <1>1 DEF IInv, FlagInv, hmpvars
<1>4. ThreadInv'
  <2>1. CASE passes > 1
    BY <1>0, <1>1, <2>1 DEF IInv, ThreadInv
  <2>2. CASE passes = 1
    BY <1>0, <1>1, <2>2 DEF IInv, ThreadInv
  <2>3. CASE passes = 0
    BY <1>0, <1>1, <2>3 DEF IInv, ThreadInv
  <2>4. QED
    BY <1>0, <2>1, <2>2, <2>3
<1>5. PassInv'
  <2>2. Beyond
    BY <1>0, <1>1 DEF Beyond
  <2>3. SUFFICES ASSUME u >= 0 PROVE PassInv'
    BY <1>1 DEF PassInv
  <2>4. /\ ~modified[Cluster[u + 1]]
        /\ passes <= 2 => ~fdirty[Cluster[u + 1]]
    <3>1. passes <= 2 => passes <= 1 \/ passes = 2
      BY <1>0
    <3>2. QED
      BY <2>2, <2>3, <3>1 DEF IInv, PassInv
  <2>5. ~Beyond' /\ ~(pc' \in {"vchain", "header"}) /\ (passes' <= 1 => passes <= 2)
    BY <1>0, <1>1, <2>3 DEF Beyond
  <2>6. UNCHANGED <<modified, fdirty, u>>
    BY <1>1 DEF hmpvars
  <2>7. QED
    BY <2>4, <2>5, <2>6 DEF PassInv
<1>6. QED
  BY <1>2, <1>3, <1>4, <1>5, <1>7 DEF IInv

\* The thread stays asleep in biowait.
LEMMA SyncHangStep ==
  ASSUME IInv, SyncHang PROVE IInv'
<1>0. TypeOK /\ ThreadInv
  BY ThreadTypes
<1>1. /\ pc = "header" /\ pc' = "biowait"
      /\ UNCHANGED <<media, cache, hmpvars, i, array, u, passes, nmod, nflush, want, base,
                     closed>>
  BY DEF SyncHang, hist
<1>2. TypeOK'
  BY <1>0, <1>1 DEF TypeOK, media, cache, hmpvars
<1>3. ClosedInv' /\ \A d \in Devs : DevInv(d)'
  <2>1. closed # {} => u' >= 0
    BY <1>1 DEF IInv, ClosedInv
  <2>2. QED
    BY <1>1, <2>1, ThreadStep
<1>4. ThreadInv' /\ FlagInv'
  BY <1>0, <1>1 DEF IInv, ThreadInv, FlagInv, hmpvars
<1>5. PassInv'
  BY <1>1 DEF IInv, PassInv, Beyond, hmpvars
<1>6. QED
  BY <1>2, <1>3, <1>4, <1>5 DEF IInv

-----------------------------------------------------------------------------
(* vfs_sync commits a device *)

\* The device that a pass works on, and what is left of its own and of the
\* other devices' flags.
LEMMA SyncFreemapStep ==
  ASSUME IInv, SyncFreemap PROVE IInv'
<1>0. TypeOK /\ ThreadInv /\ i \in Nat /\ NChains \in Nat /\ nflush \in Nat
  BY ThreadTypes
<1>1. /\ pc = "flush" /\ pc' = "vchain" /\ i < NChains /\ array[i + 1] # NULL
      /\ UNCHANGED <<hdr, blk, hdrq, torn, dblk, modified, volsync, VOLUMESYNC, volhdrno,
                     alloc_tid, i, array, u, passes, nmod, nflush, want, base, closed>>
  BY DEF SyncFreemap, Skips, media, cache, hist
<1>2. PICK d \in Devs : /\ array[i + 1] = d /\ d = Cluster[i + 1]
                        /\ i >= u /\ i + 1 \in 1..NChains
  <2>1. i \in 0..(NChains - 1)
    BY <1>0, <1>1
  <2>2. QED
    BY <1>0, <1>1, <2>1, EntryIsDevice
<1>3. d \notin closed
  BY <1>2 DEF IInv, ClosedInv
<1>4. /\ voldirty' = [voldirty EXCEPT ![d] = voldirty[d] \/ fdirty[d]]
      /\ fdirty' = [fdirty EXCEPT ![d] = FALSE]
  BY <1>2 DEF SyncFreemap
<1>5. /\ ~fdirty'[d]
      /\ \A e \in Devs : e # d => voldirty'[e] = voldirty[e] /\ fdirty'[e] = fdirty[e]
  BY <1>0, <1>4 DEF TypeOK
<1>6. TypeOK'
  <2>1. voldirty' \in [Devs -> BOOLEAN] /\ fdirty' \in [Devs -> BOOLEAN]
    BY <1>0, <1>4 DEF TypeOK
  <2>2. QED
    BY <1>0, <1>1, <2>1 DEF TypeOK
<1>7. ThreadInv'
  BY <1>0, <1>1 DEF ThreadInv
<1>8. FlagInv'
  <2>1. \A e \in Devs : ~voldirty[e] /\ ~VOLUMESYNC[e]
    BY <1>1 DEF IInv, FlagInv
  <2>2. QED
    BY <1>1, <1>2, <1>5, <2>1 DEF FlagInv
<1>9. PassInv'
  <2>1. SUFFICES ASSUME u >= 0 PROVE PassInv'
    BY <1>1 DEF PassInv
  <2>2. Cluster[u + 1] \in Devs /\ (Beyond' => Beyond)
    <3>1. u + 1 \in 1..NChains
      BY <1>0, <2>1, ThreadTypes
    <3>2. QED
      BY <1>1, <3>1, ClusterAssumption DEF NChains, Beyond
  <2>3. fdirty'[Cluster[u + 1]] => fdirty[Cluster[u + 1]] /\ i # u
    BY <1>2, <1>5, <2>2
  <2>4. QED
    BY <1>1, <2>1, <2>2, <2>3 DEF IInv, PassInv
<1>10. ClosedInv'
  <2>1. closed # {} => pc' = "down" \/ u' >= 0
    BY <1>1 DEF IInv, ClosedInv
  <2>2. ASSUME NEW e \in closed
        PROVE  /\ \A k \in 1..NChains : array'[k] # e
               /\ voldirty'[e] = voldirty[e] /\ fdirty'[e] = fdirty[e]
    <3>1. e \in Devs /\ e # d
      BY <1>0, <1>3 DEF TypeOK
    <3>2. QED
      BY <1>1, <1>5, <3>1 DEF IInv, ClosedInv
  <2>3. ClosedInv
    BY DEF IInv
  <2>4. QED
    BY <1>1, <2>1, <2>2, <2>3, ClosedSame
<1>11. ASSUME NEW e \in Devs PROVE DevInv(e)'
  <2>1. DevInv(e) /\ nflush' \in Nat /\ nflush <= nflush'
    BY <1>0, <1>1 DEF IInv
  <2>2. QED
    BY <1>0, <1>1, <2>1, DevSame
<1>12. QED
  BY <1>6, <1>7, <1>8, <1>9, <1>10, <1>11 DEF IInv

LEMMA SyncFlushStep ==
  ASSUME IInv, SyncFlush PROVE IInv'
<1>0. TypeOK /\ ThreadInv /\ i \in Nat /\ NChains \in Nat /\ nflush \in Nat
  BY ThreadTypes
<1>1. /\ pc = "vchain" /\ pc' = "header" /\ i < NChains /\ array[i + 1] # NULL
      /\ UNCHANGED <<hdr, blk, hdrq, torn, volhdrno, i, array, u, passes, nmod, want, base,
                     closed>>
  BY <1>0 DEF SyncFlush, TypeOK, ThreadInv, media
<1>2. PICK d \in Devs : /\ array[i + 1] = d /\ d = Cluster[i + 1]
                        /\ i >= u /\ i + 1 \in 1..NChains
  <2>1. i \in 0..(NChains - 1)
    BY <1>0, <1>1
  <2>2. QED
    BY <1>0, <1>1, <2>1, EntryIsDevice
<1> DEFINE new == [tid |-> alloc_tid[d] + 1, at |-> nflush + 1,
                   on |-> volsync[d].on \cup {nflush + 1}]
<1>3. d \notin closed
  BY <1>2 DEF IInv, ClosedInv
<1>4. ThreadInv'
  BY <1>0, <1>1 DEF ThreadInv
\* What every case gives for PassInv and FlagInv.
<1> DEFINE Flags ==
      /\ ~modified'[d] /\ ~voldirty'[d] /\ (~modified[d] => fdirty'[d] = fdirty[d])
      /\ \A e \in Devs : e # d =>
           /\ modified'[e] = modified[e] /\ voldirty'[e] = voldirty[e]
           /\ fdirty'[e] = fdirty[e] /\ VOLUMESYNC'[e] = VOLUMESYNC[e]
<1>8. ASSUME Flags PROVE PassInv' /\ FlagInv'
  <2>1. FlagInv'
    <3>1. ASSUME NEW e \in Devs, e # d PROVE ~voldirty'[e] /\ ~VOLUMESYNC'[e]
      BY <1>1, <1>2, <1>8, <3>1 DEF IInv, FlagInv
    <3>2. ~voldirty'[d]
      BY <1>8
    <3>3. QED
      BY <1>1, <1>2, <3>1, <3>2 DEF FlagInv
  <2>2. PassInv'
    <3>1. SUFFICES ASSUME u >= 0 PROVE PassInv'
      BY <1>1 DEF PassInv
    <3>2. Cluster[u + 1] \in Devs /\ (Beyond' => Beyond) /\ passes \in 0..3
      <4>1. u + 1 \in 1..NChains
        BY <1>0, <3>1, ThreadTypes
      <4>2. QED
        BY <1>1, <4>1, ClusterAssumption, ThreadTypes DEF NChains, Beyond
    <3>3. /\ modified'[Cluster[u + 1]] => modified[Cluster[u + 1]] /\ i # u
          /\ ~modified[Cluster[u + 1]] => fdirty'[Cluster[u + 1]] = fdirty[Cluster[u + 1]]
      BY <1>2, <1>8, <3>2
    <3>4. passes <= 1 \/ passes = 2 => passes <= 2
      BY <3>2
    <3>5. QED
      BY <1>1, <3>1, <3>2, <3>3, <3>4 DEF IInv, PassInv
  <2>3. QED
    BY <2>1, <2>2
<1>5. CASE ~(modified[d] \/ voldirty[d])
  <2>1. UNCHANGED <<nflush, alloc_tid, dblk, volsync, VOLUMESYNC, modified, voldirty, fdirty>>
    BY <1>2, <1>5 DEF SyncFlush
  <2>2. TypeOK'
    BY <1>0, <1>1, <2>1 DEF TypeOK
  <2>3. ClosedInv' /\ \A e \in Devs : DevInv(e)'
    <3>1. UNCHANGED <<media, cache, hmpvars>>
      BY <1>1, <2>1 DEF media, cache, hmpvars
    <3>2. closed # {} => u' >= 0
      BY <1>1 DEF IInv, ClosedInv
    <3>3. QED
      BY <1>1, <2>1, <3>1, <3>2, ThreadStep
  <2>4. PassInv' /\ FlagInv'
    <3>1. Flags
      BY <1>5, <2>1
    <3>2. QED
      BY <3>1, <1>8
  <2>5. QED
    BY <1>4, <2>2, <2>3, <2>4 DEF IInv
<1>6. CASE modified[d] \/ voldirty[d]
  <2>1. /\ nflush' = nflush + 1
        /\ alloc_tid' = [alloc_tid EXCEPT ![d] = @ + 2]
        /\ dblk' = [dblk EXCEPT ![d] = @ \cup {nflush + 1}]
        /\ volsync' = [volsync EXCEPT ![d] = new]
        /\ VOLUMESYNC' = [VOLUMESYNC EXCEPT ![d] = TRUE]
        /\ modified' = [modified EXCEPT ![d] = FALSE]
        /\ voldirty' = [voldirty EXCEPT ![d] = FALSE]
    BY <1>2, <1>6 DEF SyncFlush
  <2>0. PICK a \in BOOLEAN : fdirty' = [fdirty EXCEPT ![d] = fdirty[d] \/ (modified[d] /\ a)]
    BY <1>2, <1>6 DEF SyncFlush
  <2>2. nflush + 1 \in Nat
    BY <1>0
  <2>3. new \in Header /\ volsync[d] \in Header
    <3>1. volsync[d] \in Header /\ alloc_tid[d] \in Nat
      BY <1>0, <1>2 DEF TypeOK
    <3>2. volsync[d].on \in SUBSET Nat
      BY <3>1 DEF Header
    <3>3. QED
      BY <1>0, <2>2, <3>1, <3>2 DEF Header
  <2>4. TypeOK'
    <3>1. volsync' \in [Devs -> Header]
      BY <1>0, <1>2, <2>1, <2>3 DEF TypeOK
    <3>2. dblk' \in [Devs -> SUBSET Nat]
      BY <1>0, <1>2, <2>1, <2>2 DEF TypeOK
    <3>3. alloc_tid' \in [Devs -> Nat]
      BY <1>0, <1>2, <2>1 DEF TypeOK
    <3>4. /\ modified' \in [Devs -> BOOLEAN] /\ VOLUMESYNC' \in [Devs -> BOOLEAN]
          /\ voldirty' \in [Devs -> BOOLEAN] /\ fdirty' \in [Devs -> BOOLEAN]
      BY <1>0, <1>2, <2>0, <2>1 DEF TypeOK
    <3>5. nflush' \in Nat
      BY <2>1, <2>2
    <3>6. QED
      BY <1>0, <1>1, <3>1, <3>2, <3>3, <3>4, <3>5 DEF TypeOK
  <2>5. /\ alloc_tid'[d] = alloc_tid[d] + 2 /\ dblk'[d] = dblk[d] \cup {nflush + 1}
        /\ volsync'[d] = new /\ VOLUMESYNC'[d] /\ ~modified'[d]
        /\ alloc_tid[d] \in Nat
    BY <1>0, <1>2, <2>1 DEF TypeOK
  <2>6. ASSUME NEW e \in Devs, e # d
        PROVE  /\ alloc_tid'[e] = alloc_tid[e] /\ dblk'[e] = dblk[e]
               /\ volsync'[e] = volsync[e] /\ VOLUMESYNC'[e] = VOLUMESYNC[e]
               /\ modified'[e] = modified[e] /\ voldirty'[e] = voldirty[e]
               /\ fdirty'[e] = fdirty[e]
    BY <1>0, <1>2, <2>0, <2>1, <2>6 DEF TypeOK
  <2>7. PassInv' /\ FlagInv'
    <3>1. ~modified'[d] /\ ~voldirty'[d]
      BY <1>0, <2>1 DEF TypeOK
    <3>2. ~modified[d] => fdirty'[d] = fdirty[d]
      BY <1>0, <2>0 DEF TypeOK
    <3>3. Flags
      BY <2>6, <3>1, <3>2
    <3>4. QED
      BY <3>3, <1>8
  <2>8. ClosedInv'
    <3>1. closed # {} => pc' = "down" \/ u' >= 0
      BY <1>1 DEF IInv, ClosedInv
    <3>2. ASSUME NEW e \in closed
          PROVE  /\ \A k \in 1..NChains : array'[k] # e
                 /\ modified'[e] = modified[e] /\ volsync'[e] = volsync[e]
                 /\ voldirty'[e] = voldirty[e] /\ fdirty'[e] = fdirty[e]
      <4>1. e \in Devs /\ e # d
        BY <1>0, <1>3 DEF TypeOK
      <4>2. QED
        BY <1>1, <2>6, <4>1 DEF IInv, ClosedInv
    <3>3. ClosedInv
      BY DEF IInv
    <3>4. QED
      BY <1>1, <3>1, <3>2, <3>3, ClosedSame
  <2>9. ASSUME NEW e \in Devs, e # d PROVE DevInv(e)'
    <3>1. nflush' \in Nat /\ nflush <= nflush' /\ pc # "down"
      BY <1>0, <1>1, <2>1
    <3>2. DevInv(e)
      BY DEF IInv
    <3>3. QED
      BY <1>0, <1>1, <2>6, <2>9, <3>1, <3>2, DevSame
  <2>10. DevInv(d)'
    <3>0. DevInv(d)
      BY <1>2 DEF IInv
    <3>1. QueueInv(d)'
      BY <1>1, <1>2, <3>0 DEF DevInv, QueueInv
    <3>2. Known(d)' \subseteq Known(d) \cup {new}
      BY <1>1, <2>5 DEF Known
    <3>3. ASSUME NEW x \in Known(d)
          PROVE  x.tid <= alloc_tid[d] /\ x.at <= nflush /\ x.tid \in Nat /\ x.at \in Nat
      <4>1. x.tid <= alloc_tid[d] /\ x.at <= nflush
        BY <1>1, <3>0 DEF DevInv, Ordered
      <4>2. QED
        BY <1>0, <1>2, <4>1, KnownType
    <3>4. new.tid = alloc_tid[d] + 1 /\ new.at = nflush + 1
          /\ new.on = volsync[d].on \cup {nflush + 1}
      OBVIOUS
    <3> HIDE DEF new
    <3>5. Ordered(d)'
      <4>1. ASSUME NEW x \in Known(d)', NEW y \in Known(d)', x.tid <= y.tid
            PROVE  x.at <= y.at
        <5>1. CASE x = new /\ y = new
          BY <1>0, <3>4, <5>1
        <5>2. CASE x \in Known(d) /\ y = new
          BY <1>0, <3>3, <3>4, <5>2
        <5>3. CASE x = new /\ y \in Known(d)
          BY <2>5, <3>3, <3>4, <4>1, <5>3
        <5>4. CASE x \in Known(d) /\ y \in Known(d)
          BY <3>0, <4>1, <5>4 DEF DevInv, Ordered
        <5>5. QED
          BY <3>2, <5>1, <5>2, <5>3, <5>4
      <4>2. ASSUME NEW x \in Known(d)'
            PROVE  x.at <= nflush' /\ x.tid <= alloc_tid'[d]
        <5>1. CASE x = new
          BY <1>0, <2>1, <2>5, <3>4, <5>1
        <5>2. CASE x \in Known(d)
          BY <1>0, <2>1, <2>5, <3>3, <5>2
        <5>3. QED
          BY <3>2, <5>1, <5>2
      <4>3. \A x, y \in Known(d)' : x.tid <= y.tid => x.at <= y.at
        BY <4>1
      <4>4. QED
        BY <4>2, <4>3 DEF Ordered
    <3>6. TopInv(d)'
      <4>1. Valid(new)
        BY <1>0, <3>4 DEF Valid, Bad
      <4>2. ASSUME NEW k \in DOMAIN hdrq[d] PROVE hdrq[d][k].h.tid < new.tid
        <5>1. hdrq[d][k].h \in Known(d)
          BY DEF Known
        <5>2. QED
          BY <2>5, <3>3, <3>4, <5>1
      <4>3. ASSUME NEW r \in Slots, Valid(hdr[d][r])
            PROVE  hdr[d][r].tid < new.tid /\ hdr[d][r].tid <= new.tid
        <5>1. hdr[d][r] \in Known(d)
          BY <4>3 DEF Known
        <5>2. QED
          BY <2>5, <3>3, <3>4, <5>1
      <4>4. volhdrno[d] \in OnDevice
        BY <1>1, <3>0 DEF DevInv, TopInv
      <4>5. QED
        BY <1>1, <2>5, <4>1, <4>2, <4>3, <4>4 DEF TopInv
    <3>7. BlocksInv(d)'
      BY <1>1, <2>5, <3>0, <3>4 DEF DevInv, BlocksInv
    <3>8. QED
      BY <3>1, <3>5, <3>6, <3>7 DEF DevInv
  <2>11. \A e \in Devs : DevInv(e)'
    BY <2>9, <2>10
  <2>12. QED
    BY <1>4, <2>4, <2>7, <2>8, <2>11 DEF IInv
<1>7. QED
  BY <1>5, <1>6

LEMMA SyncHeaderStep ==
  ASSUME IInv, SyncHeader PROVE IInv'
<1>0. TypeOK /\ ThreadInv /\ i \in Nat /\ NChains \in Nat /\ nflush \in Nat
  BY ThreadTypes
<1>1. /\ pc = "header" /\ pc' = "flush"
      /\ UNCHANGED <<hdr, blk, torn, dblk, modified, voldirty, fdirty, volsync, alloc_tid,
                     array, u, passes, nmod, nflush, base, closed>>
  BY DEF SyncHeader, media
<1>2. PICK d \in Devs : /\ array[i + 1] = d /\ d = Cluster[i + 1]
                        /\ i >= u /\ i + 1 \in 1..NChains
  <2>1. i \in 0..(NChains - 1) /\ array[i + 1] # NULL
    BY <1>0, <1>1 DEF TypeOK, ThreadInv
  <2>2. QED
    BY <1>0, <1>1, <2>1, EntryIsDevice
<1>3. PICK s \in OnDevice : s = NextSlot(d) /\ s \in Slots /\ s \in Nat
  <2>1. volhdrno[d] \in Slots
    BY <1>0 DEF TypeOK
  <2>2. NextSlot(d) \in OnDevice
    BY <2>1, FollowsSlot, NextSlotFollows
  <2>3. QED
    BY <2>1, <2>2, FollowsSlot
<1> DEFINE w == [slot |-> s, h |-> volsync[d]]
<1>4. /\ VOLUMESYNC[d]
      /\ \A k \in DOMAIN hdrq[d] : hdrq[d][k].slot # s
      /\ hdrq' = [hdrq EXCEPT ![d] = Append(hdrq[d], w)]
      /\ VOLUMESYNC' = [VOLUMESYNC EXCEPT ![d] = FALSE]
      /\ volhdrno' = [volhdrno EXCEPT ![d] = s]
      /\ i' = s + 1
      /\ want' = want \ {d}
  BY <1>2, <1>3 DEF SyncHeader
<1>5. w \in [slot : Slots, h : Header] /\ hdrq[d] \in Seq([slot : Slots, h : Header])
  BY <1>0, <1>3 DEF TypeOK
<1>6. /\ Append(hdrq[d], w) \in Seq([slot : Slots, h : Header])
      /\ DOMAIN Append(hdrq[d], w) = 1..(Len(hdrq[d]) + 1)
      /\ Len(hdrq[d]) \in Nat /\ DOMAIN hdrq[d] = 1..Len(hdrq[d])
      /\ \A k \in 1..(Len(hdrq[d]) + 1) :
           Append(hdrq[d], w)[k] = IF k <= Len(hdrq[d]) THEN hdrq[d][k] ELSE w
  BY <1>5, AppendShape
<1>7. TypeOK'
  <2>1. hdrq' \in [Devs -> Seq([slot : Slots, h : Header])]
    BY <1>0, <1>4, <1>6 DEF TypeOK
  <2>2. volhdrno' \in [Devs -> Slots] /\ VOLUMESYNC' \in [Devs -> BOOLEAN]
    BY <1>0, <1>3, <1>4 DEF TypeOK
  <2>3. i' \in Nat /\ want' \in SUBSET Devs
    BY <1>0, <1>3, <1>4 DEF TypeOK
  <2>4. QED
    BY <1>0, <1>1, <2>1, <2>2, <2>3 DEF TypeOK
<1>8. hdrq'[d] = Append(hdrq[d], w) /\ ~VOLUMESYNC'[d] /\ volhdrno'[d] = s
  BY <1>0, <1>4 DEF TypeOK
<1>9. ASSUME NEW e \in Devs, e # d
      PROVE  hdrq'[e] = hdrq[e] /\ VOLUMESYNC'[e] = VOLUMESYNC[e] /\ volhdrno'[e] = volhdrno[e]
  BY <1>0, <1>4, <1>9 DEF TypeOK
<1>11. ThreadInv'
  BY <1>1 DEF IInv, ThreadInv
<1>10. FlagInv'
  <2>1. ASSUME NEW e \in Devs PROVE ~voldirty[e] /\ (VOLUMESYNC[e] => e = d)
    BY <1>1, <1>2 DEF IInv, FlagInv
  <2>2. ASSUME NEW e \in Devs PROVE ~voldirty'[e] /\ ~VOLUMESYNC'[e]
    BY <1>1, <1>8, <1>9, <2>1
  <2>3. QED
    BY <2>2 DEF FlagInv
<1>12. PassInv'
  BY <1>1, <1>2, CleanBehind
<1>13. ClosedInv'
  <2>1. closed # {} => pc' = "down" \/ u' >= 0
    BY <1>1 DEF IInv, ClosedInv
  <2>2. ClosedInv
    BY DEF IInv
  <2>3. \A e \in closed : \A k \in 1..NChains : array'[k] # e
    BY <1>1, <2>2 DEF ClosedInv
  <2>4. QED
    BY <1>1, <2>1, <2>2, <2>3, ClosedSame
<1>14. ASSUME NEW e \in Devs, e # d PROVE DevInv(e)'
  <2>1. nflush' \in Nat /\ nflush <= nflush' /\ pc # "down"
    BY <1>0, <1>1
  <2>2. DevInv(e)
    BY DEF IInv
  <2>3. QED
    BY <1>0, <1>1, <1>9, <1>14, <2>1, <2>2, DevSame
<1>15. DevInv(d)'
  <2>0. DevInv(d)
    BY DEF IInv
  <2> DEFINE n == Len(hdrq[d])
             q == hdrq'[d]
  <2>1. /\ n \in Nat /\ DOMAIN q = 1..(n + 1) /\ DOMAIN hdrq[d] = 1..n
        /\ \A k \in 1..n : q[k] = hdrq[d][k]
        /\ q[n + 1] = w
    <3>1. n \in Nat /\ ~(n + 1 <= n) /\ n + 1 \in 1..(n + 1)
      BY <1>6
    <3>2. QED
      BY <1>6, <1>8, <3>1
  <2> HIDE DEF n, q
  <2>2. w.slot = s /\ w.h = volsync[d]
    OBVIOUS
  <2> HIDE DEF w
  <2>3. \A k \in 1..(n + 1) : k \in 1..n \/ k = n + 1
    BY <2>1
  <2>4. QueueInv(d)'
    <3>1. \A k \in DOMAIN q : q[k].slot \in OnDevice
      BY <1>3, <2>0, <2>1, <2>2, <2>3 DEF DevInv, QueueInv
    <3>2. ASSUME NEW j \in DOMAIN q, NEW k \in DOMAIN q, j # k PROVE q[j].slot # q[k].slot
      <4>1. CASE j \in 1..n /\ k \in 1..n
        BY <2>0, <2>1, <3>2, <4>1 DEF DevInv, QueueInv
      <4>2. CASE j \in 1..n /\ k = n + 1
        BY <1>4, <2>1, <2>2, <4>2
      <4>3. CASE j = n + 1 /\ k \in 1..n
        BY <1>4, <2>1, <2>2, <4>3
      <4>4. QED
        BY <2>1, <2>3, <3>2, <4>1, <4>2, <4>3
    <3>3. torn[d] # -1 => \E k \in DOMAIN q : q[k].slot = torn[d]
      <4>1. 1..n \subseteq 1..(n + 1)
        BY <2>1
      <4>2. QED
        BY <2>0, <2>1, <4>1 DEF DevInv, QueueInv
    <3>4. \E k \in 1..NChains : array'[k] = d
      BY <1>1, <1>2
    <3>5. \A r \in Slots : Valid(hdr[d][r]) => r \in OnDevice
      BY <2>0 DEF DevInv, QueueInv
    <3>6. QED
      BY <1>1, <3>1, <3>2, <3>3, <3>4, <3>5 DEF QueueInv, q
  <2>5. Ordered(d)'
    <3>1. Known(d)' \subseteq Known(d)
      <4>1. {q[k].h : k \in DOMAIN q} \subseteq {hdrq[d][k].h : k \in DOMAIN hdrq[d]} \cup {volsync[d]}
        BY <2>1, <2>2, <2>3
      <4>2. QED
        BY <1>1, <4>1 DEF Known, q
    <3>2. QED
      BY <1>1, <2>0, <3>1 DEF DevInv, Ordered
  <2>6. TopInv(d)'
    <3>1. /\ Valid(volsync[d])
          /\ \A k \in DOMAIN hdrq[d] : hdrq[d][k].h.tid < volsync[d].tid
          /\ \A r \in Slots : Valid(hdr[d][r]) =>
               /\ hdr[d][r].tid <= volsync[d].tid /\ hdr[d][r].tid < volsync[d].tid
      BY <1>1, <1>4, <2>0 DEF DevInv, TopInv
    <3>2. \A k \in DOMAIN q : q[k].slot # s => q[k].h.tid < volsync[d].tid
      BY <2>1, <2>2, <2>3, <3>1
    <3>3. \A k \in DOMAIN q : q[k].slot = s => q[k].h = volsync[d]
      BY <1>4, <2>1, <2>2, <2>3
    <3>4. n + 1 \in DOMAIN q /\ q[n + 1].slot = s
      BY <2>1, <2>2
    <3>5. QED
      BY <1>1, <1>3, <1>8, <3>1, <3>2, <3>3, <3>4 DEF TopInv, q
  <2>7. BlocksInv(d)'
    BY <1>1, <2>0 DEF DevInv, BlocksInv
  <2>8. QED
    BY <2>4, <2>5, <2>6, <2>7 DEF DevInv
<1>16. \A e \in Devs : DevInv(e)'
  BY <1>14, <1>15
<1>17. QED
  BY <1>7, <1>10, <1>11, <1>12, <1>13, <1>16 DEF IInv

-----------------------------------------------------------------------------
(* Unmount drops a device; a crash *)

LEMMA UnmountDeviceStep ==
  ASSUME IInv, UnmountDevice PROVE IInv'
<1>0. TypeOK /\ ThreadInv /\ NChains \in Nat /\ nflush \in Nat
  BY ThreadTypes
<1>1. /\ pc = "inval" /\ u \in 0..(NChains - 1)
      /\ UNCHANGED <<hdr, blk, hdrq, torn, dblk, modified, voldirty, fdirty, volsync, VOLUMESYNC, volhdrno,
                     alloc_tid, nmod, nflush, base>>
  <2>1. pc = "inval" /\ u >= 0
    BY <1>0 DEF UnmountDevice, ThreadInv
  <2>2. u \in 0..(NChains - 1)
    BY <2>1, ThreadTypes
  <2>3. QED
    BY <2>1, <2>2 DEF UnmountDevice, media, cache, hmpvars
<1>2. u + 1 \in 1..NChains /\ DOMAIN array = 1..NChains /\ u \in Nat
  BY <1>0, <1>1 DEF TypeOK
<1>3. PICK d \in Devs : d = array[u + 1] /\ d = Cluster[u + 1]
  <2>1. ~(u + 1 <= u) /\ array[u + 1] = IF u + 1 <= u THEN NULL ELSE Cluster[u + 1]
    BY <1>0, <1>1, <1>2 DEF ThreadInv
  <2>2. Cluster[u + 1] \in Devs
    BY <1>2, ClusterAssumption DEF NChains
  <2>3. QED
    BY <2>1, <2>2
<1>4. /\ array' \in [1..NChains -> Devs \cup {NULL}] /\ array'[u + 1] = NULL
      /\ \A k \in 1..NChains : k # u + 1 => array'[k] = array[k]
  BY <1>0, <1>2 DEF UnmountDevice, TypeOK
<1>5. \/ closed' = closed /\ \E k \in 1..NChains : array'[k] = d
      \/ hdrq[d] = <<>> /\ dblk[d] = {} /\ closed' = closed \cup {d}
         /\ \A k \in 1..NChains : array'[k] # d
  BY <1>3, <1>4 DEF UnmountDevice, Range
<1>6. /\ i' = 0 /\ want' \in SUBSET Devs
      /\ \/ u + 1 < NChains /\ u' = u + 1 /\ passes' = 3 /\ pc' = "flush"
         \/ u + 1 = NChains /\ u' = -1 /\ passes' = 0 /\ pc' = "down"
  BY <1>0, <1>1 DEF UnmountDevice
<1>7. TypeOK'
  <2>1. closed' \in SUBSET Devs
    BY <1>0, <1>5 DEF TypeOK
  <2>2. /\ u' \in -1..(NChains - 1) /\ passes' \in 0..3
        /\ pc' \in {"down", "idle", "flush", "inval"} /\ i' \in Nat
    BY <1>0, <1>1, <1>6
  <2>3. QED
    BY <1>0, <1>1, <1>4, <1>6, <2>1, <2>2 DEF TypeOK
<1>8. FlagInv'
  BY <1>1 DEF IInv, FlagInv
<1>9. ThreadInv'
  <2>1. ASSUME NEW k \in 1..NChains PROVE array'[k] = IF k <= u + 1 THEN NULL ELSE Cluster[k]
    <3>1. array[k] = IF k <= u THEN NULL ELSE Cluster[k]
      BY <1>0, <1>1 DEF ThreadInv
    <3>2. QED
      BY <1>2, <1>4, <3>1
  <2>2. QED
    BY <1>0, <1>1, <1>6, <2>1 DEF ThreadInv
<1>10. PassInv'
  BY <1>0, <1>1, <1>6 DEF PassInv, Beyond
<1>11. ASSUME NEW e \in Devs PROVE DevInv(e)'
  <2>1. DevInv(e) /\ nflush <= nflush' /\ nflush' \in Nat
    BY <1>0, <1>1 DEF IInv
  <2>2. ASSUME \A k \in 1..NChains : array'[k] # e
        PROVE  \/ \A k \in 1..NChains : array[k] # e
               \/ hdrq[e] = <<>> /\ dblk[e] = {}
    <3>1. CASE e = d
      BY <1>5, <2>2, <3>1
    <3>2. CASE e # d
      BY <1>3, <1>4, <2>2, <3>2
    <3>3. QED
      BY <3>1, <3>2
  <2>3. QED
    BY <1>0, <1>1, <2>1, <2>2, DevSame
<1>12. ClosedInv'
  <2>0. ClosedInv /\ DevInv(d)
    BY DEF IInv
  <2>1. closed' # {} => pc' = "down" \/ u' >= 0
    BY <1>0, <1>1, <1>6
  <2>2. \A e \in closed' : \A k \in 1..NChains : array'[k] # e
    <3>1. ASSUME NEW e \in closed, NEW k \in 1..NChains PROVE array'[k] # e
      <4>1. e # NULL /\ array[k] # e
        BY <1>0, <2>0, ClusterAssumption DEF TypeOK, ClosedInv
      <4>2. QED
        BY <1>4, <4>1
    <3>2. QED
      BY <1>5, <3>1
  <2>3. ASSUME NEW e \in closed'
        PROVE  /\ ~Dirty(e)
               /\ volsync[e].on \ base[e] \subseteq blk[e]
               /\ \E s \in Slots : Installs(e, s) /\ hdr[e][s] = volsync[e]
    <3>1. CASE e \in closed
      BY <2>0, <3>1 DEF ClosedInv, CleanUnmount
    <3>2. CASE e \notin closed
      <4>1. e = d /\ hdrq[d] = <<>> /\ dblk[d] = {}
        BY <1>5, <2>3, <3>2
      <4>2. ~Dirty(d) /\ ~VOLUMESYNC[d]
        <5>1. ~voldirty[d] /\ ~VOLUMESYNC[d]
          BY <1>1 DEF IInv, FlagInv
        <5>2. passes <= 1 /\ passes <= 2
          BY <1>1 DEF IInv, ThreadInv
        <5>3. ~modified[d] /\ ~fdirty[d]
          BY <1>1, <1>3, <5>2 DEF IInv, PassInv
        <5>4. QED
          BY <5>1, <5>3 DEF Dirty
      <4>3. volsync[d].on \ base[d] \subseteq blk[d]
        BY <1>1, <2>0, <4>1 DEF DevInv, BlocksInv
      <4>4. DOMAIN hdrq[d] = {}
        BY <4>1
      <4>5. volhdrno[d] \in Slots /\ hdr[d][volhdrno[d]] = volsync[d]
        BY <1>0, <1>1, <2>0, <4>2, <4>4 DEF TypeOK, DevInv, TopInv
      <4>6. Installs(d, volhdrno[d])
        BY <1>1, <2>0, <4>2, <4>5 DEF DevInv, TopInv, Installs
      <4>7. QED
        BY <4>1, <4>2, <4>3, <4>5, <4>6
    <3>3. QED
      BY <3>1, <3>2
  <2>4. CleanUnmount'
    BY <1>1, <2>3 DEF CleanUnmount, Installs, Dirty
  <2>5. QED
    BY <2>1, <2>2, <2>4 DEF ClosedInv
<1>13. QED
  BY <1>7, <1>8, <1>9, <1>10, <1>11, <1>12 DEF IInv

LEMMA CrashStep ==
  ASSUME IInv, Crash PROVE IInv'
<1>0. TypeOK /\ NChains \in Nat /\ nflush \in Nat
  BY ThreadTypes
<1>1. /\ pc' = "down" /\ i' = 0 /\ u' = -1 /\ passes' = 0 /\ want' = {} /\ closed' = {}
      /\ array' = [k \in 1..NChains |-> NULL]
      /\ hdrq' = [d \in Devs |-> <<>>] /\ torn' = [d \in Devs |-> -1]
      /\ dblk' = [d \in Devs |-> {}]
      /\ UNCHANGED <<hdr, blk, modified, voldirty, fdirty, volsync, VOLUMESYNC, volhdrno, alloc_tid, nmod, nflush, base>>
  BY DEF Crash, media, hmpvars
<1>2. TypeOK'
  <2>1. hdrq' \in [Devs -> Seq([slot : Slots, h : Header])]
    BY <1>1
  <2>2. torn' \in [Devs -> Slots \cup {-1}] /\ dblk' \in [Devs -> SUBSET Nat]
    BY <1>1
  <2>3. QED
    BY <1>0, <1>1, <2>1, <2>2 DEF TypeOK
<1>4. ThreadInv' /\ FlagInv' /\ PassInv' /\ ClosedInv'
  BY <1>1 DEF ThreadInv, FlagInv, PassInv, ClosedInv, CleanUnmount
<1>5. ASSUME NEW d \in Devs PROVE DevInv(d)'
  <2>1. DevInv(d)
    BY DEF IInv
  <2>2. hdrq'[d] = <<>> /\ DOMAIN hdrq'[d] = {} /\ torn'[d] = -1 /\ dblk'[d] = {}
    BY <1>1
  <2>3. QueueInv(d)'
    BY <1>1, <2>1, <2>2 DEF DevInv, QueueInv
  <2>4. Known(d)' \subseteq Known(d)
    BY <1>1, <2>2 DEF Known
  <2>5. Ordered(d)'
    BY <1>1, <2>1, <2>4 DEF DevInv, Ordered
  <2>6. QED
    BY <1>1, <2>3, <2>5 DEF DevInv, TopInv, BlocksInv
<1>6. QED
  BY <1>2, <1>4, <1>5 DEF IInv

-----------------------------------------------------------------------------
(* The buffer cache and the disk *)

\* A write for device d: the mount and the other devices see nothing of it,
\* and d is not closed.
LEMMA DiskStepOthers ==
  ASSUME IInv, NEW d \in Devs, hdrq[d] # <<>> \/ dblk[d] # {},
         UNCHANGED <<hmpvars, thread, hist>>,
         \A e \in Devs : e # d =>
           /\ hdr'[e] = hdr[e] /\ blk'[e] = blk[e] /\ hdrq'[e] = hdrq[e]
           /\ torn'[e] = torn[e] /\ dblk'[e] = dblk[e]
  PROVE  /\ ThreadInv' /\ FlagInv' /\ PassInv' /\ ClosedInv'
         /\ \A e \in Devs : e # d => DevInv(e)'
         /\ \E k \in 1..NChains : array[k] = d
<1>0. TypeOK /\ nflush \in Nat
  BY ThreadTypes
<1>1. UNCHANGED <<modified, voldirty, fdirty, volsync, VOLUMESYNC, volhdrno, alloc_tid, pc, i, array, u, passes,
                  nmod, nflush, want, base, closed>>
  BY DEF hmpvars, thread, hist
<1>2. \E k \in 1..NChains : array[k] = d
  BY DEF IInv, DevInv, QueueInv
<1>4. ThreadInv' /\ FlagInv' /\ PassInv'
  BY <1>1 DEF IInv, ThreadInv, FlagInv, PassInv, Beyond
<1>5. ClosedInv'
  <2>1. ClosedInv
    BY DEF IInv
  <2>2. \A e \in closed : e \in Devs /\ e # d
    BY <1>0, <1>2, <2>1 DEF TypeOK, ClosedInv
  <2>3. closed # {} => pc' = "down" \/ u' >= 0
    BY <1>1, <2>1 DEF ClosedInv
  <2>4. \A e \in closed : \A k \in 1..NChains : array'[k] # e
    BY <1>1, <2>1 DEF ClosedInv
  <2>5. QED
    BY <1>1, <2>1, <2>2, <2>3, <2>4, ClosedSame
<1>6. ASSUME NEW e \in Devs, e # d PROVE DevInv(e)'
  <2>1. DevInv(e) /\ nflush' \in Nat /\ nflush <= nflush'
    BY <1>0, <1>1 DEF IInv
  <2>2. QED
    BY <1>0, <1>1, <1>6, <2>1, DevSame
<1>7. QED
  BY <1>2, <1>4, <1>5, <1>6

LEMMA WriteBlocksStep ==
  ASSUME IInv, NEW d \in Devs, WriteBlocks(d) PROVE IInv'
<1>0. TypeOK /\ DevInv(d)
  BY DEF IInv
<1>1. PICK n \in dblk[d] : /\ dblk' = [dblk EXCEPT ![d] = @ \ {n}]
                           /\ blk' = [blk EXCEPT ![d] = @ \cup {n}]
  BY DEF WriteBlocks
<1>2. UNCHANGED <<hdr, hdrq, torn, hmpvars, thread, hist>>
  BY DEF WriteBlocks
<1>3. UNCHANGED <<modified, voldirty, fdirty, volsync, VOLUMESYNC, volhdrno, alloc_tid, pc, i, array, u, passes,
                  nmod, nflush, want, base, closed>>
  BY <1>2 DEF hmpvars, thread, hist
<1>4. dblk'[d] = dblk[d] \ {n} /\ blk'[d] = blk[d] \cup {n}
  BY <1>0, <1>1 DEF TypeOK
<1>5. TypeOK'
  <2>1. dblk[d] \in SUBSET Nat /\ n \in Nat
    BY <1>0, <1>1 DEF TypeOK
  <2>2. /\ dblk' \in [Devs -> SUBSET Nat]
        /\ blk' \in [Devs -> SUBSET Nat]
    BY <1>0, <1>1, <2>1 DEF TypeOK
  <2>3. QED
    BY <1>0, <1>2, <1>3, <2>2 DEF TypeOK
<1>6. /\ ThreadInv' /\ FlagInv' /\ PassInv' /\ ClosedInv'
      /\ \A e \in Devs : e # d => DevInv(e)'
      /\ \E k \in 1..NChains : array[k] = d
  <2>1. \A e \in Devs : e # d => blk'[e] = blk[e] /\ dblk'[e] = dblk[e]
    BY <1>0, <1>1 DEF TypeOK
  <2>2. dblk[d] # {}
    BY <1>1
  <2>3. QED
    BY <1>2, <2>1, <2>2, DiskStepOthers
<1>7. DevInv(d)'
  <2>1. QueueInv(d)'
    BY <1>0, <1>2, <1>3, <1>6 DEF DevInv, QueueInv
  <2>2. Known(d)' = Known(d)
    BY <1>2, <1>3 DEF Known
  <2>3. Ordered(d)'
    BY <1>0, <1>3, <2>2 DEF DevInv, Ordered
  <2>4. TopInv(d)'
    BY <1>0, <1>2, <1>3 DEF DevInv, TopInv
  <2>5. BlocksInv(d)'
    BY <1>0, <1>3, <1>4 DEF DevInv, BlocksInv
  <2>6. QED
    BY <2>1, <2>3, <2>4, <2>5 DEF DevInv
<1>8. \A e \in Devs : DevInv(e)'
  BY <1>6, <1>7
<1>9. QED
  BY <1>5, <1>6, <1>8 DEF IInv

LEMMA DiskStartStep ==
  ASSUME IInv, NEW d \in Devs, DiskStart(d) PROVE IInv'
<1>0. TypeOK /\ DevInv(d) /\ Bad \in Header
  BY DEF IInv, Bad, Header
<1>1. PICK k \in DOMAIN hdrq[d] :
        /\ torn' = [torn EXCEPT ![d] = hdrq[d][k].slot]
        /\ hdr' = [hdr EXCEPT ![d][hdrq[d][k].slot] = Bad]
  BY DEF DiskStart
<1>2. UNCHANGED <<blk, hdrq, dblk, hmpvars, thread, hist>>
  BY DEF DiskStart
<1>3. UNCHANGED <<modified, voldirty, fdirty, volsync, VOLUMESYNC, volhdrno, alloc_tid, pc, i, array, u, passes,
                  nmod, nflush, want, base, closed>>
  BY <1>2 DEF hmpvars, thread, hist
<1>4. PICK s \in Slots : s = hdrq[d][k].slot
  BY <1>0, <1>1, QueueEntry
<1>5. /\ torn'[d] = s /\ hdr'[d] \in [Slots -> Header] /\ hdr'[d][s] = Bad
      /\ \A r \in Slots : r # s => hdr'[d][r] = hdr[d][r]
  BY <1>0, <1>1, <1>4 DEF TypeOK
<1>6. TypeOK'
  <2>1. torn' \in [Devs -> Slots \cup {-1}] /\ hdr' \in [Devs -> [Slots -> Header]]
    BY <1>0, <1>1, <1>4 DEF TypeOK
  <2>2. QED
    BY <1>0, <1>2, <1>3, <2>1 DEF TypeOK
<1>7. /\ ThreadInv' /\ FlagInv' /\ PassInv' /\ ClosedInv'
      /\ \A e \in Devs : e # d => DevInv(e)'
      /\ \E j \in 1..NChains : array[j] = d
  <2>1. \A e \in Devs : e # d => hdr'[e] = hdr[e] /\ torn'[e] = torn[e]
    BY <1>0, <1>1 DEF TypeOK
  <2>2. hdrq[d] # <<>>
    BY <1>1
  <2>3. QED
    BY <1>2, <2>1, <2>2, DiskStepOthers
<1>8. DevInv(d)'
  <2>1. \A r \in Slots : Valid(hdr'[d][r]) => Valid(hdr[d][r]) /\ hdr'[d][r] = hdr[d][r]
    BY <1>5 DEF Valid
  <2>2. QueueInv(d)'
    <3>1. \E j \in DOMAIN hdrq[d] : hdrq[d][j].slot = torn'[d]
      BY <1>1, <1>4, <1>5
    <3>2. QED
      BY <1>0, <1>2, <1>3, <1>7, <2>1, <3>1 DEF DevInv, QueueInv
  <2>3. Known(d)' \subseteq Known(d)
    BY <1>2, <1>3, <2>1 DEF Known
  <2>4. Ordered(d)'
    BY <1>0, <1>3, <2>3 DEF DevInv, Ordered
  <2>5. TopInv(d)'
    <3>1. SUFFICES ASSUME pc # "down" PROVE TopInv(d)'
      BY <1>3 DEF TopInv
    <3>2. volhdrno[d] = s => \E j \in DOMAIN hdrq[d] : hdrq[d][j].slot = volhdrno[d]
      BY <1>1, <1>4
    <3>3. volhdrno[d] \in Slots
      BY <1>0 DEF TypeOK
    <3>4. ~VOLUMESYNC[d] =>
            IF \E j \in DOMAIN hdrq[d] : hdrq[d][j].slot = volhdrno[d]
            THEN \A j \in DOMAIN hdrq[d] :
                   hdrq[d][j].slot = volhdrno[d] => hdrq[d][j].h = volsync[d]
            ELSE hdr'[d][volhdrno[d]] = volsync[d]
      BY <1>0, <1>5, <3>1, <3>2, <3>3 DEF DevInv, TopInv
    <3>5. \A r \in Slots : Valid(hdr'[d][r]) =>
            /\ hdr'[d][r].tid <= volsync[d].tid
            /\ VOLUMESYNC[d] \/ r < volhdrno[d] => hdr'[d][r].tid < volsync[d].tid
      BY <1>0, <2>1, <3>1 DEF DevInv, TopInv
    <3>6. QED
      BY <1>0, <1>2, <1>3, <3>1, <3>4, <3>5 DEF DevInv, TopInv
  <2>6. BlocksInv(d)'
    BY <1>0, <1>2, <1>3 DEF DevInv, BlocksInv
  <2>7. QED
    BY <2>2, <2>4, <2>5, <2>6 DEF DevInv
<1>9. \A e \in Devs : DevInv(e)'
  BY <1>7, <1>8
<1>10. QED
  BY <1>6, <1>7, <1>9 DEF IInv

LEMMA DiskFinishStep ==
  ASSUME IInv, NEW d \in Devs, DiskFinish(d) PROVE IInv'
<1>0. TypeOK /\ DevInv(d)
  BY DEF IInv
<1>1. PICK k \in DOMAIN hdrq[d] :
        /\ hdrq[d][k].slot = torn[d]
        /\ hdr' = [hdr EXCEPT ![d][torn[d]] =
                     IF torn[d] \in OnDevice THEN hdrq[d][k].h ELSE Bad]
        /\ hdrq' = [hdrq EXCEPT ![d] = RemoveAt(hdrq[d], k)]
  BY DEF DiskFinish
<1>2. torn' = [torn EXCEPT ![d] = -1] /\ UNCHANGED <<blk, dblk, hmpvars, thread, hist>>
  BY DEF DiskFinish
<1>3. UNCHANGED <<modified, voldirty, fdirty, volsync, VOLUMESYNC, volhdrno, alloc_tid, pc, i, array, u, passes,
                  nmod, nflush, want, base, closed>>
  BY <1>2 DEF hmpvars, thread, hist
<1>4. PICK s \in Slots : s = torn[d] /\ s = hdrq[d][k].slot /\ s \in OnDevice
  <2>1. hdrq[d][k].slot \in Slots
    BY <1>0, QueueEntry
  <2>2. hdrq[d][k].slot \in OnDevice
    BY <1>0 DEF DevInv, QueueInv
  <2>3. QED
    BY <1>1, <2>1, <2>2
<1>5. PICK h \in Header : h = hdrq[d][k].h
  BY <1>0, QueueEntry
<1>6. hdr' = [hdr EXCEPT ![d][s] = h]
  BY <1>1, <1>4, <1>5
<1>7. /\ torn'[d] = -1 /\ hdr'[d] \in [Slots -> Header] /\ hdr'[d][s] = h
      /\ \A r \in Slots : r # s => hdr'[d][r] = hdr[d][r]
  BY <1>0, <1>2, <1>6 DEF TypeOK
<1> DEFINE q == hdrq[d]
           p == RemoveAt(hdrq[d], k)
<1>8. q \in Seq([slot : Slots, h : Header])
  BY <1>0 DEF TypeOK
<1>9. /\ p \in Seq([slot : Slots, h : Header])
      /\ Len(q) \in Nat /\ DOMAIN q = 1..Len(q) /\ DOMAIN p = 1..(Len(q) - 1)
      /\ \A j \in 1..(Len(q) - 1) : p[j] = IF j < k THEN q[j] ELSE q[j + 1]
  BY <1>8, RemoveAtShape
<1>10. hdrq'[d] = p
  BY <1>0, <1>1 DEF TypeOK
<1> HIDE DEF p
<1>11. TypeOK'
  <2>1. /\ torn' \in [Devs -> Slots \cup {-1}] /\ hdr' \in [Devs -> [Slots -> Header]]
    BY <1>0, <1>2, <1>6 DEF TypeOK
  <2>2. hdrq' \in [Devs -> Seq([slot : Slots, h : Header])]
    BY <1>0, <1>1, <1>9 DEF TypeOK, p
  <2>3. QED
    BY <1>0, <1>2, <1>3, <2>1, <2>2 DEF TypeOK
<1>12. /\ ThreadInv' /\ FlagInv' /\ PassInv' /\ ClosedInv'
       /\ \A e \in Devs : e # d => DevInv(e)'
       /\ \E j \in 1..NChains : array[j] = d
  <2>1. \A e \in Devs : e # d => /\ hdr'[e] = hdr[e] /\ torn'[e] = torn[e]
                                 /\ hdrq'[e] = hdrq[e]
    BY <1>0, <1>1, <1>2, <1>6 DEF TypeOK
  <2>2. hdrq[d] # <<>>
    BY <1>1
  <2>3. QED
    BY <1>2, <2>1, <2>2, DiskStepOthers
\* The entries that stay, each at its position f before the removal.
<1> DEFINE f(j) == IF j < k THEN j ELSE j + 1
<1>13. ASSUME NEW j \in DOMAIN p
       PROVE  f(j) \in DOMAIN q /\ f(j) # k /\ p[j] = q[f(j)]
  <2>1. k \in 1..Len(q) /\ j \in 1..(Len(q) - 1)
    BY <1>9
  <2>2. p[j] = IF j < k THEN q[j] ELSE q[j + 1]
    BY <1>9, <2>1
  <2>3. CASE j < k
    BY <1>9, <2>1, <2>2, <2>3
  <2>4. CASE ~(j < k)
    BY <1>9, <2>1, <2>2, <2>4
  <2>5. QED
    BY <2>3, <2>4
<1>14. ASSUME NEW m \in DOMAIN q, m # k
       PROVE  \E j \in DOMAIN p : p[j] = q[m]
  <2>1. k \in 1..Len(q) /\ m \in 1..Len(q) /\ Len(q) \in Nat
    BY <1>9
  <2>2. CASE m < k
    <3>1. m \in 1..(Len(q) - 1)
      BY <2>1, <2>2
    <3>2. QED
      BY <1>9, <2>2, <3>1
  <2>3. CASE m > k
    <3>1. m - 1 \in 1..(Len(q) - 1) /\ ~(m - 1 < k) /\ (m - 1) + 1 = m
      BY <2>1, <2>3
    <3>2. QED
      BY <1>9, <3>1
  <2>4. QED
    BY <1>14, <2>1, <2>2, <2>3
<1>15. ASSUME NEW j \in DOMAIN p, NEW m \in DOMAIN p, j # m PROVE f(j) # f(m)
  <2>1. k \in Nat /\ j \in Nat /\ m \in Nat
    BY <1>9
  <2>2. QED
    BY <2>1, <1>15
<1> HIDE DEF f, q
<1>16. DevInv(d)'
  <2>1. QueueInv(d)'
    <3>1. \A j \in DOMAIN p : p[j].slot \in OnDevice
      BY <1>0, <1>13 DEF DevInv, QueueInv, q
    <3>2. ASSUME NEW j \in DOMAIN p, NEW m \in DOMAIN p, j # m PROVE p[j].slot # p[m].slot
      <4>1. f(j) \in DOMAIN q /\ f(m) \in DOMAIN q /\ f(j) # f(m)
        BY <1>13, <1>15, <3>2
      <4>2. q[f(j)].slot # q[f(m)].slot
        BY <1>0, <4>1 DEF DevInv, QueueInv, q
      <4>3. QED
        BY <1>13, <4>2
    <3>3. \A r \in Slots : Valid(hdr'[d][r]) => r \in OnDevice
      BY <1>0, <1>4, <1>7 DEF DevInv, QueueInv
    <3>4. QED
      BY <1>3, <1>7, <1>10, <1>12, <3>1, <3>2, <3>3 DEF QueueInv
  <2>2. Known(d)' \subseteq Known(d)
    <3>1. {p[j].h : j \in DOMAIN p} \subseteq {q[j].h : j \in DOMAIN q}
      BY <1>13
    <3>2. {hdr'[d][r] : r \in {x \in Slots : Valid(hdr'[d][x])}}
            \subseteq {hdr[d][r] : r \in {x \in Slots : Valid(hdr[d][x])}} \cup {h}
      BY <1>7
    <3>3. h \in {q[j].h : j \in DOMAIN q}
      BY <1>5 DEF q
    <3>4. QED
      BY <1>3, <1>10, <3>1, <3>2, <3>3 DEF Known, q
  <2>3. Ordered(d)'
    BY <1>0, <1>3, <2>2 DEF DevInv, Ordered
  <2>4. TopInv(d)'
    <3>1. SUFFICES ASSUME pc # "down" PROVE TopInv(d)'
      BY <1>3 DEF TopInv
    <3>2. TopInv(d)
      BY <1>0 DEF DevInv
    <3>3. \A j \in DOMAIN p :
            VOLUMESYNC[d] \/ p[j].slot # volhdrno[d] => p[j].h.tid < volsync[d].tid
      BY <1>13, <3>1, <3>2 DEF TopInv, q
    <3>4. /\ VOLUMESYNC[d] \/ s # volhdrno[d] => h.tid < volsync[d].tid
          /\ ~VOLUMESYNC[d] /\ s = volhdrno[d] => h = volsync[d]
      BY <1>4, <1>5, <3>1, <3>2 DEF TopInv
    <3>5. h.tid \in Nat /\ volsync[d].tid \in Nat /\ volhdrno[d] \in Slots /\ Slots \subseteq Nat
      <4>1. h.tid \in Nat /\ volhdrno[d] \in Slots /\ volsync[d] \in Header
        BY <1>0 DEF TypeOK, Header
      <4>2. QED
        BY <4>1 DEF Header, Slots, HAMMER2_NUM_VOLHDRS
    <3>6. h.tid <= volsync[d].tid /\ (VOLUMESYNC[d] \/ s < volhdrno[d] => h.tid < volsync[d].tid)
      BY <3>4, <3>5
    <3>7. \A r \in Slots : Valid(hdr'[d][r]) =>
            /\ hdr'[d][r].tid <= volsync[d].tid
            /\ VOLUMESYNC[d] \/ r < volhdrno[d] => hdr'[d][r].tid < volsync[d].tid
      BY <1>7, <3>1, <3>2, <3>6 DEF TopInv
    <3>8. ASSUME ~VOLUMESYNC[d], s = volhdrno[d]
          PROVE  /\ ~\E j \in DOMAIN p : p[j].slot = volhdrno[d]
                 /\ hdr'[d][volhdrno[d]] = volsync[d]
      <4>1. \A j \in DOMAIN p : q[f(j)].slot # q[k].slot
        BY <1>0, <1>13 DEF DevInv, QueueInv, q
      <4>2. QED
        BY <1>4, <1>7, <1>13, <3>4, <3>8, <4>1 DEF q
    <3>9. ASSUME ~VOLUMESYNC[d], s # volhdrno[d]
          PROVE  IF \E j \in DOMAIN p : p[j].slot = volhdrno[d]
                 THEN \A j \in DOMAIN p :
                        p[j].slot = volhdrno[d] => p[j].h = volsync[d]
                 ELSE hdr'[d][volhdrno[d]] = volsync[d]
      <4>1. CASE \E j \in DOMAIN q : q[j].slot = volhdrno[d]
        <5>1. \A j \in DOMAIN q : q[j].slot = volhdrno[d] => q[j].h = volsync[d]
          BY <3>1, <3>2, <3>9, <4>1 DEF TopInv, q
        <5>2. PICK m \in DOMAIN q : q[m].slot = volhdrno[d]
          BY <4>1
        <5>3. m # k
          BY <1>4, <3>9, <5>2 DEF q
        <5>4. \E j \in DOMAIN p : p[j].slot = volhdrno[d]
          BY <1>14, <5>2, <5>3
        <5>5. QED
          BY <1>13, <5>1, <5>4
      <4>2. CASE ~\E j \in DOMAIN q : q[j].slot = volhdrno[d]
        <5>1. hdr[d][volhdrno[d]] = volsync[d]
          BY <3>1, <3>2, <3>9, <4>2 DEF TopInv, q
        <5>2. hdr'[d][volhdrno[d]] = volsync[d]
          BY <1>7, <3>5, <3>9, <5>1
        <5>3. QED
          BY <1>13, <4>2, <5>2
      <4>3. QED
        BY <4>1, <4>2
    <3>10. Valid(volsync[d]) /\ volhdrno[d] \in OnDevice
      BY <3>1, <3>2 DEF TopInv
    <3>11. QED
      BY <1>3, <1>10, <3>1, <3>3, <3>7, <3>8, <3>9, <3>10 DEF TopInv
  <2>5. BlocksInv(d)'
    BY <1>0, <1>2, <1>3 DEF DevInv, BlocksInv
  <2>6. QED
    BY <2>1, <2>3, <2>4, <2>5 DEF DevInv
<1>17. \A e \in Devs : DevInv(e)'
  BY <1>12, <1>16
<1>18. QED
  BY <1>11, <1>12, <1>17 DEF IInv

-----------------------------------------------------------------------------
(* The theorems *)

LEMMA NextStep ==
  ASSUME IInv, [Next]_vars PROVE IInv'
<1>1. ASSUME NEW d \in Devs, Modify(d) \/ Disk(d) PROVE IInv'
  BY <1>1, ModifyStep, WriteBlocksStep, DiskStartStep, DiskFinishStep DEF Disk
<1>2. CASE Sync
  BY <1>2, SyncSkipStep, SyncFreemapStep, SyncFlushStep, SyncHangStep, SyncHeaderStep,
     SyncNoHeaderStep, SyncEndStep DEF Sync
<1>3. CASE Mount \/ Unmount \/ UnmountDevice \/ Crash \/ VfsSync
  BY <1>3, MountStep, UnmountStep, UnmountDeviceStep, CrashStep, VfsSyncStep
<1>4. CASE UNCHANGED vars
  <2>1. /\ UNCHANGED <<hdr, blk, hdrq, torn, dblk, modified, voldirty, fdirty, volsync, VOLUMESYNC, volhdrno,
                       alloc_tid>>
        /\ UNCHANGED <<pc, i, array, u, passes, nmod, nflush, want, base, closed>>
    BY <1>4 DEF vars, media, cache, hmpvars, thread, hist
  <2>2. TypeOK'
    BY <2>1 DEF IInv, TypeOK
  <2>3. ThreadInv' /\ FlagInv' /\ PassInv'
    BY <2>1 DEF IInv, ThreadInv, FlagInv, PassInv, Beyond
  <2>4. ClosedInv'
    BY <2>1, ClosedSame DEF IInv, ClosedInv
  <2>5. ASSUME NEW d \in Devs PROVE DevInv(d)'
    <3>1. nflush' \in Nat /\ nflush <= nflush' /\ TypeOK
      BY <2>1, ThreadTypes
    <3>2. QED
      BY <2>1, <3>1, DevSame DEF IInv
  <2>6. QED
    BY <2>2, <2>3, <2>4, <2>5 DEF IInv
<1>5. QED
  BY <1>1, <1>2, <1>3, <1>4 DEF Next

(***************************************************************************)
(* The invariant holds for every cluster of devices, every volume size,    *)
(* any number of flushes and header writes in any order of completion.     *)
(***************************************************************************)
THEOREM Invariant == Spec => []IInv
<1>1. Init => IInv
  BY InitInv
<1>2. IInv /\ [Next]_vars => IInv'
  BY NextStep
<1>3. QED
  BY <1>1, <1>2, PTL DEF Spec

\* Type correctness.
THEOREM TypeCorrect == Spec => []TypeOK
BY Invariant, PTL DEF IInv

(***************************************************************************)
(* hammer2_install_volume_header picks the header of the latest flush of   *)
(* those that are whole on the media, in whatever order the disk performs  *)
(* the writes and however many crashes there were.                         *)
(***************************************************************************)
THEOREM NewestFirst == Spec => []NewestInstalled
<1>1. ASSUME IInv PROVE NewestInstalled
  <2>1. SUFFICES ASSUME NEW d \in Devs, NEW s \in Slots, Installs(d, s),
                        NEW r \in Slots, Valid(hdr[d][r])
                 PROVE  hdr[d][r].at <= hdr[d][s].at
    BY DEF NewestInstalled
  <2>2. hdr[d][r] \in Known(d) /\ hdr[d][s] \in Known(d) /\ hdr[d][r].tid <= hdr[d][s].tid
    BY <2>1 DEF Installs, Known
  <2>3. QED
    BY <1>1, <2>2 DEF IInv, DevInv, Ordered
<1>2. QED
  BY <1>1, Invariant, PTL

(***************************************************************************)
(* A device that an unmount closed is clean: nothing is unflushed, the     *)
(* next mount picks the header of the last flush, and its blocks are on    *)
(* the media.                                                              *)
(***************************************************************************)
THEOREM CleanAfterUnmount == Spec => []CleanUnmount
BY Invariant, PTL DEF IInv, ClosedInv

-----------------------------------------------------------------------------
(* A whole header is left as long as no two are to be written *)

LEMMA SpareInit ==
  ASSUME Init, NEW d \in Devs PROVE SpareInv(d)
<1>1. hdrq[d] = <<>> /\ pc = "down"
  BY DEF Init
<1>2. DOMAIN hdrq[d] = {} /\ Len(hdrq[d]) = 0
  BY <1>1
<1>3. QED
  BY <1>1, <1>2 DEF SpareInv

\* A step that leaves the headers of the device alone.
LEMMA SpareSame ==
  ASSUME NEW d \in Devs, SpareInv(d),
         hdr'[d] = hdr[d], hdrq'[d] = hdrq[d], volhdrno'[d] = volhdrno[d],
         pc = "down" => pc' = "down"
  PROVE  SpareInv(d)'
BY DEF SpareInv

\* A step that empties the queue of header writes.
LEMMA SpareMount ==
  ASSUME IInv, Mount, NEW d \in Devs PROVE SpareInv(d)'
<1>1. /\ pc = "down" /\ UNCHANGED <<hdr, hdrq>>
      /\ volhdrno'[d] \in Slots /\ Installs(d, volhdrno'[d])
  BY DEF Mount, media, cache
<1>2. hdrq'[d] = <<>>
  BY <1>1, DownQuiet
<1>3. DOMAIN hdrq'[d] = {} /\ Len(hdrq'[d]) = 0
  BY <1>2
<1>4. Valid(hdr'[d][volhdrno'[d]])
  BY <1>1 DEF Installs
<1>5. QED
  BY <1>3, <1>4 DEF SpareInv

LEMMA SpareCrash ==
  ASSUME Crash, NEW d \in Devs PROVE SpareInv(d)'
<1>1. pc' = "down" /\ hdrq'[d] = <<>>
  BY DEF Crash
<1>2. DOMAIN hdrq'[d] = {} /\ Len(hdrq'[d]) = 0
  BY <1>1
<1>3. QED
  BY <1>1, <1>2 DEF SpareInv

\* The first header to be written goes to a slot other than volhdrno, and that
\* one is whole.
LEMMA SpareSyncHeader ==
  ASSUME VoluSize > HAMMER2_ZONE_BYTES64, IInv, SyncHeader, NEW d \in Devs, SpareInv(d)
  PROVE  SpareInv(d)'
<1>0. TypeOK /\ DevInv(d)
  BY DEF IInv
<1>1. pc = "header" /\ pc' = "flush" /\ UNCHANGED <<hdr, volsync>>
  BY DEF SyncHeader, media
<1>2. CASE d # array[i + 1]
  <2>1. hdrq'[d] = hdrq[d] /\ volhdrno'[d] = volhdrno[d]
    BY <1>0, <1>2 DEF SyncHeader, TypeOK
  <2>2. QED
    BY <1>1, <2>1, SpareSame
<1>3. CASE d = array[i + 1]
  <2>1. PICK s : s = NextSlot(d)
    OBVIOUS
  <2> DEFINE w == [slot |-> s, h |-> volsync[d]]
             n == Len(hdrq[d])
             q == hdrq'[d]
  <2>2. hdrq'[d] = Append(hdrq[d], w) /\ volhdrno'[d] = s
    BY <1>0, <1>3, <2>1 DEF SyncHeader, TypeOK
  <2>3. volhdrno[d] \in Slots /\ s \in Slots /\ s # volhdrno[d]
    BY <1>0, <2>1, NextSlotFollows, FollowsSlot DEF TypeOK
  <2>4. w \in [slot : Slots, h : Header] /\ hdrq[d] \in Seq([slot : Slots, h : Header])
    BY <1>0, <2>3 DEF TypeOK
  <2>5. /\ n \in Nat /\ Len(q) = n + 1 /\ DOMAIN q = 1..(n + 1) /\ DOMAIN hdrq[d] = 1..n
        /\ \A k \in 1..n : q[k] = hdrq[d][k]
        /\ q[n + 1] = w
    <3>1. /\ Append(hdrq[d], w) \in Seq([slot : Slots, h : Header])
          /\ Len(Append(hdrq[d], w)) = Len(hdrq[d]) + 1
          /\ DOMAIN Append(hdrq[d], w) = 1..(Len(hdrq[d]) + 1)
          /\ Len(hdrq[d]) \in Nat /\ DOMAIN hdrq[d] = 1..Len(hdrq[d])
          /\ \A k \in 1..(Len(hdrq[d]) + 1) :
               Append(hdrq[d], w)[k] = IF k <= Len(hdrq[d]) THEN hdrq[d][k] ELSE w
      BY <2>4, AppendShape
    <3>2. n \in Nat /\ ~(n + 1 <= n) /\ n + 1 \in 1..(n + 1)
      BY <3>1
    <3>3. QED
      BY <2>2, <3>1, <3>2
  <2>6. w.slot = s /\ w.h = volsync[d] /\ Valid(volsync[d])
    BY <1>0, <1>1 DEF DevInv, TopInv
  <2> HIDE DEF w, n, q
  <2>7. \A k \in 1..(n + 1) : k \in 1..n \/ k = n + 1
    BY <2>5
  <2>8. \A k \in DOMAIN q : Valid(q[k].h)
    BY <2>5, <2>6, <2>7 DEF SpareInv
  <2>9. n + 1 \in DOMAIN q /\ q[n + 1].slot = s
    BY <2>5, <2>6
  <2>10. ASSUME Len(q) = 1 PROVE \E r \in Slots : r # q[1].slot /\ Valid(hdr[d][r])
    <3>0. n \in Nat /\ n + 1 = 1
      BY <2>5, <2>10, Zenon
    <3>1. n = 0 /\ 1..n = {} /\ q[1].slot = s
      BY <2>9, <3>0
    <3>2. Valid(hdr[d][volhdrno[d]])
      BY <1>1, <2>5, <3>1 DEF SpareInv
    <3>3. QED
      BY <2>3, <3>1, <3>2
  <2>11. QED
    BY <1>1, <2>2, <2>8, <2>9, <2>10 DEF SpareInv, q
<1>4. QED
  BY <1>2, <1>3

\* The disk tears a slot of its queue; with one in the queue the spare one stays.
LEMMA SpareDiskStart ==
  ASSUME IInv, NEW d \in Devs, DiskStart(d), SpareInv(d)
  PROVE  SpareInv(d)' /\ (Len(hdrq[d]) <= 1 => Mountable(d)')
<1>0. TypeOK
  BY DEF IInv
<1>1. PICK k \in DOMAIN hdrq[d] : hdr' = [hdr EXCEPT ![d][hdrq[d][k].slot] = Bad]
  BY DEF DiskStart
<1>2. UNCHANGED <<hdrq, volhdrno, pc>>
  BY DEF DiskStart, hmpvars, thread
<1>3. PICK s \in Slots : s = hdrq[d][k].slot
  BY <1>0, QueueEntry
<1>4. \A r \in Slots : r # s => hdr'[d][r] = hdr[d][r]
  BY <1>0, <1>1, <1>3 DEF TypeOK
<1>5. \/ pc = "down"
      \/ Valid(hdr'[d][volhdrno[d]])
      \/ \E j \in DOMAIN hdrq[d] : hdrq[d][j].slot = volhdrno[d]
  <2>1. volhdrno[d] \in Slots
    BY <1>0 DEF TypeOK
  <2>2. CASE volhdrno[d] = s
    BY <1>3, <2>2
  <2>3. CASE volhdrno[d] # s
    BY <1>4, <2>1, <2>3 DEF SpareInv
  <2>4. QED
    BY <2>2, <2>3
<1>6. hdrq[d] \in Seq([slot : Slots, h : Header])
  BY <1>0 DEF TypeOK
<1>7. Len(hdrq[d]) \in Nat /\ k \in Nat /\ 1 <= k /\ k <= Len(hdrq[d])
  BY <1>6
<1>8. ASSUME Len(hdrq[d]) <= 1
      PROVE  \E r \in Slots : r # hdrq[d][1].slot /\ Valid(hdr'[d][r])
  <2>1. PICK n \in Nat : n = Len(hdrq[d]) /\ n <= 1 /\ k <= n
    BY <1>7, <1>8, Zenon
  <2>2. k \in Nat /\ 1 <= k
    BY <1>7, Zenon
  <2>3. \A x, y \in Nat : 1 <= x /\ x <= y /\ y <= 1 => x = 1 /\ y = 1
    OBVIOUS
  <2>4. n = 1 /\ k = 1
    BY <2>1, <2>2, <2>3, Zenon
  <2>5. Len(hdrq[d]) = 1 /\ k = 1
    BY <2>1, <2>4, Zenon
  <2>6. QED
    BY <1>3, <1>4, <2>5 DEF SpareInv
<1>9. Len(hdrq[d]) = 1 => Len(hdrq[d]) <= 1
  OBVIOUS
<1>10. SpareInv(d)'
  BY <1>2, <1>5, <1>8, <1>9 DEF SpareInv
<1>11. QED
  BY <1>8, <1>10 DEF Mountable

\* The slot that was written is whole; if one is left to be written it is
\* another.
LEMMA SpareDiskFinish ==
  ASSUME IInv, NEW d \in Devs, DiskFinish(d), SpareInv(d)
  PROVE  SpareInv(d)' /\ Mountable(d)'
<1>0. TypeOK /\ DevInv(d)
  BY DEF IInv
<1>1. PICK k \in DOMAIN hdrq[d] :
        /\ hdrq[d][k].slot = torn[d]
        /\ hdr' = [hdr EXCEPT ![d][torn[d]] =
                     IF torn[d] \in OnDevice THEN hdrq[d][k].h ELSE Bad]
        /\ hdrq' = [hdrq EXCEPT ![d] = RemoveAt(hdrq[d], k)]
  BY DEF DiskFinish
<1>2. UNCHANGED <<volhdrno, pc>>
  BY DEF DiskFinish, hmpvars, thread
<1>3. PICK s \in Slots : s = torn[d] /\ s = hdrq[d][k].slot /\ s \in OnDevice
  <2>1. hdrq[d][k].slot \in Slots
    BY <1>0, QueueEntry
  <2>2. hdrq[d][k].slot \in OnDevice
    BY <1>0 DEF DevInv, QueueInv
  <2>3. QED
    BY <1>1, <2>1, <2>2
<1>4. /\ Valid(hdr'[d][s])
      /\ \A r \in Slots : r # s => hdr'[d][r] = hdr[d][r]
  <2>1. Valid(hdrq[d][k].h)
    BY DEF SpareInv
  <2>2. hdr'[d][s] = hdrq[d][k].h /\ \A r \in Slots : r # s => hdr'[d][r] = hdr[d][r]
    BY <1>0, <1>1, <1>3 DEF TypeOK
  <2>3. QED
    BY <2>1, <2>2
<1> DEFINE q == hdrq[d]
           p == RemoveAt(hdrq[d], k)
<1>5. q \in Seq([slot : Slots, h : Header])
  BY <1>0 DEF TypeOK
<1>6. /\ p \in Seq([slot : Slots, h : Header])
      /\ Len(q) \in Nat /\ DOMAIN q = 1..Len(q) /\ DOMAIN p = 1..(Len(q) - 1)
      /\ Len(p) = Len(q) - 1
      /\ \A j \in 1..(Len(q) - 1) : p[j] = IF j < k THEN q[j] ELSE q[j + 1]
  <2>1. q \in Seq([slot : Slots, h : Header]) /\ Len(q) \in Nat /\ DOMAIN q = 1..Len(q)
    BY <1>5
  <2>2. k \in 1..Len(q)
    BY <2>1
  <2>3. QED
    BY <2>1, <2>2, RemoveAtShape
<1>7. hdrq'[d] = p /\ k \in DOMAIN q
  BY <1>0, <1>1 DEF TypeOK
<1> HIDE DEF p
<1>8. ASSUME NEW j \in DOMAIN p
      PROVE  \E m \in DOMAIN q : m # k /\ p[j] = q[m]
  <2>1. k \in 1..Len(q) /\ j \in 1..(Len(q) - 1) /\ Len(q) \in Nat
    BY <1>6, <1>7
  <2>2. CASE j < k
    <3>1. j \in 1..Len(q) /\ j # k /\ p[j] = q[j]
      BY <1>6, <2>1, <2>2
    <3>2. QED
      BY <1>6, <3>1
  <2>3. CASE ~(j < k)
    <3>1. j + 1 \in 1..Len(q) /\ j + 1 # k /\ p[j] = q[j + 1]
      BY <1>6, <2>1, <2>3
    <3>2. QED
      BY <1>6, <3>1
  <2>4. QED
    BY <2>2, <2>3
<1>9. ASSUME NEW m \in DOMAIN q, m # k
      PROVE  \E j \in DOMAIN p : p[j] = q[m]
  <2>1. k \in 1..Len(q) /\ m \in 1..Len(q) /\ Len(q) \in Nat
    BY <1>6, <1>7
  <2>2. CASE m < k
    <3>1. m \in 1..(Len(q) - 1)
      BY <2>1, <2>2
    <3>2. QED
      BY <1>6, <2>2, <3>1
  <2>3. CASE m > k
    <3>1. m - 1 \in 1..(Len(q) - 1) /\ ~(m - 1 < k) /\ (m - 1) + 1 = m
      BY <2>1, <2>3
    <3>2. QED
      BY <1>6, <3>1
  <2>4. QED
    BY <1>9, <2>1, <2>2, <2>3
<1>10. ASSUME NEW m \in DOMAIN q, m # k PROVE q[m].slot # s
  BY <1>0, <1>3, <1>7, <1>10 DEF DevInv, QueueInv
<1>11. \A m \in DOMAIN q : Valid(q[m].h)
  BY DEF SpareInv
<1>12. \/ pc = "down"
       \/ Valid(hdr[d][volhdrno[d]])
       \/ \E m \in DOMAIN q : q[m].slot = volhdrno[d]
  BY DEF SpareInv
<1>13. q[k].slot = s
  BY <1>3
<1> HIDE DEF q
<1>14. \A j \in DOMAIN p : Valid(p[j].h) /\ p[j].slot # s
  BY <1>8, <1>10, <1>11
<1>15. \/ pc = "down"
       \/ Valid(hdr'[d][volhdrno[d]])
       \/ \E j \in DOMAIN p : p[j].slot = volhdrno[d]
  <2>1. volhdrno[d] \in Slots
    BY <1>0 DEF TypeOK
  <2>2. CASE volhdrno[d] = s
    BY <1>4, <2>2
  <2>3. CASE volhdrno[d] # s /\ Valid(hdr[d][volhdrno[d]])
    BY <1>4, <2>1, <2>3
  <2>4. ASSUME volhdrno[d] # s, NEW m \in DOMAIN q, q[m].slot = volhdrno[d]
        PROVE  \E j \in DOMAIN p : p[j].slot = volhdrno[d]
    <3>1. m # k
      BY <1>13, <2>4
    <3>2. QED
      BY <1>9, <2>4, <3>1
  <2>5. QED
    BY <1>12, <2>2, <2>3, <2>4
<1>16. ASSUME Len(p) = 1 PROVE s # p[1].slot
  <2>1. Len(q) - 1 = 1
    BY <1>6, <1>16
  <2>2. DOMAIN p = 1..1
    BY <1>6, <2>1, Zenon
  <2>3. 1 \in DOMAIN p
    BY <2>2
  <2>4. QED
    BY <1>14, <2>3
<1>17. SpareInv(d)'
  BY <1>2, <1>4, <1>7, <1>14, <1>15, <1>16 DEF SpareInv
<1>18. QED
  BY <1>4, <1>17 DEF Mountable

\* One step of the system, seen from device d.
LEMMA SpareStep ==
  ASSUME VoluSize > HAMMER2_ZONE_BYTES64, IInv, [Next]_vars, NEW d \in Devs, SpareInv(d)
  PROVE  /\ SpareInv(d)'
         /\ Mountable(d) /\ Len(hdrq[d]) <= 1 => Mountable(d)'
<1> DEFINE Goal == /\ SpareInv(d)'
                   /\ Mountable(d) /\ Len(hdrq[d]) <= 1 => Mountable(d)'
<1>0. TypeOK
  BY DEF IInv
<1>1. ASSUME hdr'[d] = hdr[d] PROVE Mountable(d) => Mountable(d)'
  BY <1>1 DEF Mountable
<1>2. CASE Mount \/ SyncHeader \/ Crash
  <2>1. hdr' = hdr
    BY <1>2 DEF Mount, SyncHeader, Crash, media
  <2>2. QED
    BY <1>1, <1>2, <2>1, SpareMount, SpareSyncHeader, SpareCrash
<1>3. CASE DiskStart(d) \/ DiskFinish(d)
  BY <1>3, SpareDiskStart, SpareDiskFinish
<1>4. ASSUME hdr'[d] = hdr[d], hdrq'[d] = hdrq[d], volhdrno'[d] = volhdrno[d],
             pc = "down" => pc' = "down"
      PROVE  Goal
  BY <1>1, <1>4, SpareSame
<1>5. ASSUME NEW e \in Devs, e # d, DiskStart(e) \/ DiskFinish(e) PROVE Goal
  <2>1. hdr'[d] = hdr[d] /\ hdrq'[d] = hdrq[d]
    BY <1>0, <1>5 DEF DiskStart, DiskFinish, TypeOK
  <2>2. UNCHANGED <<volhdrno, pc>>
    BY <1>5 DEF DiskStart, DiskFinish, hmpvars, thread
  <2>3. QED
    BY <1>4, <2>1, <2>2
<1>6. ASSUME NEW e \in Devs, Modify(e) \/ WriteBlocks(e) PROVE Goal
  <2>1. UNCHANGED <<hdr, hdrq, volhdrno, pc>>
    BY <1>6 DEF Modify, WriteBlocks, media, cache, hmpvars, thread
  <2>2. QED
    BY <1>4, <2>1
<1>7. CASE VfsSync \/ SyncSkip \/ SyncNoHeader \/ SyncEnd \/ SyncHang
  <2>1. UNCHANGED <<hdr, hdrq, volhdrno>> /\ pc # "down"
    BY <1>7 DEF VfsSync, SyncSkip, SyncNoHeader, SyncEnd, SyncHang, media, cache, hmpvars
  <2>2. QED
    BY <1>4, <2>1
<1>8. CASE SyncFreemap \/ SyncFlush \/ Unmount \/ UnmountDevice
  <2>1. UNCHANGED <<hdr, hdrq, volhdrno>> /\ pc # "down"
    BY <1>8 DEF SyncFreemap, SyncFlush, Unmount, UnmountDevice, media, cache, hmpvars
  <2>2. QED
    BY <1>4, <2>1
<1>9. CASE UNCHANGED vars
  <2>1. UNCHANGED <<hdr, hdrq, volhdrno, pc>>
    BY <1>9 DEF vars, media, cache, hmpvars, thread
  <2>2. QED
    BY <1>4, <2>1
<1>10. ASSUME NEW e \in Devs, Modify(e) \/ Disk(e) PROVE Goal
  BY <1>3, <1>5, <1>6, <1>10 DEF Disk
<1>11. QED
  BY <1>2, <1>7, <1>8, <1>9, <1>10 DEF Next, Sync

(***************************************************************************)
(* On a device with room for two headers a crash finds a whole header,     *)
(* whatever crashes came before, unless the disk had two or more of its    *)
(* headers to write at once: hammer2_vfs_sync never issues the first of    *)
(* them to the only whole slot.                                            *)
(***************************************************************************)
THEOREM HeaderSurvives ==
  ASSUME VoluSize > HAMMER2_ZONE_BYTES64
  PROVE  Spec => StaysMountable
<1>1. Init => SInv
  BY InitInv, SpareInit DEF SInv
<1>2. SInv /\ [Next]_vars => SInv'
  BY NextStep, SpareStep DEF SInv
<1>3. SInv /\ [Next]_vars =>
        [\A d \in Devs : Mountable(d) /\ Len(hdrq[d]) <= 1 => Mountable(d)']_vars
  BY SpareStep DEF SInv
<1>4. QED
  BY <1>1, <1>2, <1>3, PTL DEF Spec, StaysMountable
=============================================================================
