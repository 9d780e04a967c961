------------------------------ MODULE Freemap ------------------------------
(***************************************************************************)
(* The block allocator of sys/hammer2/hammer2_freemap.c and the recovery   *)
(* scan that repairs its bitmaps after a crash (hammer2_vfsops.c).         *)
(*                                                                         *)
(* The volume is divided into zones, each with one freemap leaf; a leaf    *)
(* has COUNT segments, a segment BLOCKS bitmap blocks, a block FRAGS units *)
(* of the smallest allocation.  Offsets and sizes are in these units (1KB).*)
(*                                                                         *)
(* hammer2_freemap_alloc holds fchain locked from beginning to end, so an  *)
(* allocation is one action.  Nothing in this tree frees a block:          *)
(* hammer2_freemap_adjust is called for recovery only, and a bit pair is   *)
(* either 00 or 11.                                                        *)
(***************************************************************************)
EXTENDS Integers, FiniteSetsExt

CONSTANTS
  FRAGS,       \* units per bitmap block (16: HAMMER2_FREEMAP_BLOCK_SIZE / 1K)
  BLOCKS,      \* bitmap blocks per segment (128)
  COUNT,       \* HAMMER2_FREEMAP_COUNT, segments per zone (1024)
  ZoneSegs,    \* reserved segments at the base of a zone (2: ZONE_SEG / SEGSIZE)
  VoluSize,    \* voldata.volu_size
  AllocBeg,    \* voldata.allocator_beg: the end of what newfs_hammer2 allocated
  Requests,    \* pairs <<bref type, radix>> the file system asks for
  Pfs,         \* mounted PFSs
  Spmp,        \* the super-root, hmp->spmp
  NULL,        \* class of a segment that belongs to no class
  MaxAlloc,    \* bound: allocations
  MaxSync      \* bound: flushes

SEGSIZE == FRAGS * BLOCKS
ZONE    == COUNT * SEGSIZE
Zones   == 0..((VoluSize - 1) \div ZONE)
Segs    == 0..(COUNT - 1)
Blocks  == 0..(BLOCKS - 1)
Radixes == {q[2] : q \in Requests}
Size(r) == 2 ^ r

ASSUME GeometryAssumption ==
  /\ FRAGS \in Nat \ {0} /\ BLOCKS \in Nat \ {0} /\ COUNT \in Nat \ {0}
  /\ ZoneSegs \in 1..(COUNT - 1)
  /\ VoluSize \in Nat \ {0} /\ VoluSize % SEGSIZE = 0
  /\ AllocBeg \in Nat /\ AllocBeg >= ZoneSegs * SEGSIZE /\ AllocBeg < VoluSize
  /\ Spmp \notin Pfs
  /\ MaxAlloc \in Nat /\ MaxSync \in Nat

\* bmap->avail is a uint32_t that counts bytes.
AvailMod == 4194304

\* hammer2_devblkradix: the I/O size.
DevBlk(r) == IF Size(r) <= FRAGS THEN "LBUF" ELSE "PBUF"

Class(type, r) == <<type, DevBlk(r)>>
Classes == {Class(q[1], q[2]) : q \in Requests}

\* A size is at most a bitmap block or is made of whole ones, and a segment
\* is not larger than avail can count.
ASSUME RequestAssumption ==
  /\ \A q \in Requests : q = <<q[1], q[2]>>
  /\ \A r \in Radixes : /\ Size(r) \in 1..SEGSIZE
                        /\ Size(r) <= FRAGS \/ Size(r) % FRAGS = 0
  /\ SEGSIZE < AvailMod
  /\ NULL \notin Classes

VARIABLES
  leaf,        \* the level 1 freemap chain of each zone
  heur,        \* hmp->heur_freemap, by class: the zone where a search begins
  pc,          \* down, idle, or the progress of hammer2_vfs_sync: pfs, freemap
  mem,         \* block references of the topology in memory
  ptid,        \* mirror_tid of the root of each PFS
  fmap,        \* the freemap as this sync has flushed it
  media,       \* what the volume header on the media points to
  nalloc,      \* number of allocations
  nsync,       \* number of syncs
  denied,      \* history: the request that just got ENOSPC
  crashed      \* history: there was a crash

vars == <<leaf, heur, pc, mem, ptid, fmap, media, nalloc, nsync, denied, crashed>>

Bmap == [linear : 0..SEGSIZE, class : Classes \cup {NULL},
         avail : 0..(AvailMod - 1), bits : SUBSET Blocks]

Leaf == [made : BOOLEAN, bigmask : SUBSET Radixes, bmap : [Segs -> Bmap]]

\* id numbers the allocations, tid is 0 until the reference has been flushed.
Bref == [id : 1..MaxAlloc, off : 0..(VoluSize - 1), type : {q[1] : q \in Requests}, radix : Radixes,
         pmp : Pfs \cup {Spmp}, tid : Nat]

TypeOK ==
  /\ leaf \in [Zones -> Leaf]
  /\ heur \in [Classes -> Zones]
  /\ pc \in {"down", "idle", "pfs", "freemap"}
  /\ mem \in SUBSET Bref
  /\ ptid \in [Pfs -> Nat]
  /\ fmap \in [Zones -> Leaf]
  /\ media.fmap \in [Zones -> Leaf] /\ media.topo \in SUBSET Bref
  /\ media.ptid \in [Pfs -> Nat]
  /\ nalloc \in 0..MaxAlloc /\ nsync \in 0..MaxSync
  /\ denied \in SUBSET Requests
  /\ crashed \in BOOLEAN

-----------------------------------------------------------------------------
(* Geometry *)

ZoneOf(o) == o \div ZONE
SegOf(o)  == (o % ZONE) \div SEGSIZE

\* Mutant of NBlocks: two bits whatever the size.
NBlocks_One(r) == 1

\* The number of bitmap blocks of an allocation.
NBlocks(r) == IF Size(r) <= FRAGS THEN 1 ELSE Size(r) \div FRAGS

\* The bitmap blocks, in their segment, of an allocation at o.
BlocksAt(o, r) ==
  LET b == (o % SEGSIZE) \div FRAGS IN b..(b + NBlocks(r) - 1)

RoundUp(o) == ((o + SEGSIZE - 1) \div SEGSIZE) * SEGSIZE

\* Mutant of NewLeaf: the space behind the end of the volume is free.
NewLeaf_NoEnd(z) ==
  LET lokey == Max({RoundUp(AllocBeg), z * ZONE + ZoneSegs * SEGSIZE})
      Free(n) == z * ZONE + n * SEGSIZE >= lokey
  IN  [made |-> TRUE, bigmask |-> Radixes,
       bmap |-> [n \in Segs |->
         [linear |-> IF Free(n) THEN 0 ELSE SEGSIZE, class |-> NULL,
          avail |-> IF Free(n) THEN SEGSIZE ELSE 0,
          bits |-> IF Free(n) THEN {} ELSE Blocks]]]

\* hammer2_freemap_init: what newfs_hammer2 allocated, the reserved area of
\* the zone and the space behind the end of the volume are marked allocated.
IsFree(z, n) ==
  LET key   == z * ZONE + n * SEGSIZE
      lokey == Max({RoundUp(AllocBeg), z * ZONE + ZoneSegs * SEGSIZE})
      hikey == Min({(z + 1) * ZONE, (VoluSize \div SEGSIZE) * SEGSIZE})
  IN  lokey <= key /\ key < hikey

NewLeaf(z) ==
  [made |-> TRUE, bigmask |-> Radixes,
   bmap |-> [n \in Segs |->
     [linear |-> IF IsFree(z, n) THEN 0 ELSE SEGSIZE, class |-> NULL,
      avail |-> IF IsFree(z, n) THEN SEGSIZE ELSE 0,
      bits |-> IF IsFree(z, n) THEN {} ELSE Blocks]]]

NoLeaf == [made |-> FALSE, bigmask |-> {},
           bmap |-> [n \in Segs |-> [linear |-> 0, class |-> NULL, avail |-> 0, bits |-> {}]]]

-----------------------------------------------------------------------------
(* hammer2_bmap_alloc *)

\* The linear iterator is inside a block and the rest of the block is enough.
LinearFits(bm, r) ==
  /\ (bm.linear % FRAGS) + Size(r) <= FRAGS
  /\ bm.linear % FRAGS # 0
  /\ bm.linear < SEGSIZE

\* An aligned run of free blocks starts at b.
FreeAt(bm, r, b) ==
  /\ b % NBlocks(r) = 0
  /\ b..(b + NBlocks(r) - 1) \subseteq Blocks \ bm.bits

\* Where the allocation goes, relative to the segment.
IsOffset(bm, r, o) ==
  IF LinearFits(bm, r)
  THEN o = bm.linear
  ELSE \E b \in Blocks : /\ o = b * FRAGS
                         /\ FreeAt(bm, r, b)
                         /\ \A c \in 0..(b - 1) : ~FreeAt(bm, r, c)

Fits(bm, r) == LinearFits(bm, r) \/ \E b \in Blocks : FreeAt(bm, r, b)

\* Mutant of BmapAfter: taking from the iterator does not advance it.
BmapAfter_Stuck(bm, class, r, o) ==
  [linear |-> IF Size(r) < FRAGS /\ ~LinearFits(bm, r) THEN o + Size(r) ELSE bm.linear,
   class |-> class,
   avail |-> (bm.avail - Size(r)) % AvailMod,
   bits |-> bm.bits \cup BlocksAt(o, r)]

BmapAfter(bm, class, r, o) ==
  [linear |-> IF Size(r) < FRAGS THEN o + Size(r) ELSE bm.linear,
   class |-> class,
   avail |-> (bm.avail - Size(r)) % AvailMod,
   bits |-> bm.bits \cup BlocksAt(o, r)]

-----------------------------------------------------------------------------
(* hammer2_freemap_try_alloc and hammer2_freemap_alloc *)

Usable(bm, class, r) ==
  /\ bm.avail # 0
  /\ bm.class \in {NULL, class}
  /\ Fits(bm, r)

\* The leaf that try_alloc works on: a missing one is created.
View(z) == IF leaf[z].made THEN leaf[z] ELSE NewLeaf(z)

\* try_alloc succeeds in zone z.
ZoneHas(z, class, r) ==
  /\ r \in View(z).bigmask
  /\ \E n \in Segs : Usable(View(z).bmap[n], class, r)

\* hammer2_freemap_iterate goes round: zones in the order of the search.  The
\* heuristic is always the base of a zone, so a zone is searched from its
\* first segment.
Turn(z, class) == (z - heur[class]) % Cardinality(Zones)

\* A zone that was searched in vain: it exists now, and is flagged.
Failed(z, r) == [View(z) EXCEPT !.bigmask = @ \ {r}]

Alloc(type, r, p) ==
  LET class == Class(type, r)
  IN  \E z \in Zones :
        /\ ZoneHas(z, class, r)
        /\ \A y \in Zones : Turn(y, class) < Turn(z, class) => ~ZoneHas(y, class, r)
        /\ heur' = [heur EXCEPT ![class] = z]
        /\ denied' = {}
        /\ \E n \in Segs :
             /\ Usable(View(z).bmap[n], class, r)
             /\ \A m \in 0..(n - 1) : ~Usable(View(z).bmap[m], class, r)
             /\ \E o \in 0..(SEGSIZE - 1) :
                  /\ IsOffset(View(z).bmap[n], r, o)
                  /\ leaf' = [y \in Zones |->
                       IF y = z THEN [View(z) EXCEPT !.bmap[n] = BmapAfter(@, class, r, o)]
                       ELSE IF Turn(y, class) < Turn(z, class) THEN Failed(y, r) ELSE leaf[y]]
                  /\ mem' = mem \cup {[id |-> nalloc + 1, off |-> z * ZONE + n * SEGSIZE + o,
                                       type |-> type, radix |-> r, pmp |-> p, tid |-> 0]}

\* ENOSPC, after two rounds.
Nospc(type, r) ==
  LET class == Class(type, r)
  IN  /\ \A z \in Zones : ~ZoneHas(z, class, r)
      /\ leaf' = [z \in Zones |-> Failed(z, r)]
      /\ heur' = [heur EXCEPT ![class] = 0]
      /\ denied' = {<<type, r>>}
      /\ UNCHANGED mem

\* hammer2_chain_modify of a chain of PFS p, or of the super-root.  Operations
\* on a PFS and buffer-cache writes can come at any time, hammer2_vfs_sync
\* itself modifies the chains on the path to the root.
ChainModify(type, r, p) ==
  /\ pc # "down"
  /\ nalloc < MaxAlloc
  /\ nalloc' = nalloc + 1
  /\ Alloc(type, r, p) \/ Nospc(type, r)
  /\ UNCHANGED <<pc, ptid, fmap, media, nsync, crashed>>

-----------------------------------------------------------------------------
(* hammer2_vfs_sync, as far as the freemap is concerned *)

\* The inodes of PFS p and its root are flushed, with the TID of the flush.
FlushPfs(p) ==
  /\ pc = "idle"
  /\ nsync < MaxSync
  /\ nsync' = nsync + 1
  /\ ptid' = [ptid EXCEPT ![p] = @ + 2]
  /\ mem' = {IF e.pmp = p /\ e.tid = 0 THEN [e EXCEPT !.tid = ptid'[p]] ELSE e : e \in mem}
  /\ pc' = "pfs"
  /\ denied' = {}
  /\ UNCHANGED <<leaf, heur, fmap, media, nalloc, crashed>>

\* fchain is flushed ...
FlushFreemap ==
  /\ pc = "pfs"
  /\ fmap' = leaf
  /\ pc' = "freemap"
  /\ denied' = {}
  /\ UNCHANGED <<leaf, heur, mem, ptid, media, nalloc, nsync, crashed>>

\* ... then vchain, and the volume header goes out.
FlushVolume ==
  /\ pc = "freemap"
  /\ media' = [fmap |-> fmap, ptid |-> ptid,
               topo |-> {e \in mem : e.pmp = Spmp \/ e.tid # 0}]
  /\ pc' = "idle"
  /\ denied' = {}
  /\ UNCHANGED <<leaf, heur, mem, ptid, fmap, nalloc, nsync, crashed>>

\* hammer2_vfs_unmount, after three syncs: nothing is left in memory only.
Unmount ==
  /\ pc = "idle"
  /\ media = [fmap |-> leaf, topo |-> mem, ptid |-> ptid]
  /\ pc' = "down"
  /\ denied' = {}
  /\ UNCHANGED <<leaf, heur, mem, ptid, fmap, media, nalloc, nsync, crashed>>

\* What is in memory only is lost.
Crash ==
  /\ pc # "down"
  /\ pc' = "down"
  /\ leaf' = media.fmap
  /\ fmap' = media.fmap
  /\ mem' = media.topo
  /\ ptid' = media.ptid
  /\ heur' = [c \in Classes |-> 0]
  /\ crashed' = TRUE
  /\ denied' = {}
  /\ UNCHANGED <<media, nalloc, nsync>>

-----------------------------------------------------------------------------
(* Mount: hammer2_recovery *)

\* Mutant of Visited: the super-root is left to the bitmaps.
Visited_PfsOnly == {e \in media.topo : e.pmp # Spmp /\ e.tid >= media.ptid[e.pmp] - 1}

\* The references that hammer2_recovery_scan reaches: all of the super-root
\* topology (sync_tid 0) and those of the last flush of each PFS.
Visited ==
  {e \in media.topo : e.pmp = Spmp \/ e.tid >= media.ptid[e.pmp] - 1}

\* The reference of here that is found for block b.
RefOf(here, b) == CHOOSE e \in here : b \in BlocksAt(e.off, e.radix)

\* The sum, over the blocks bs, of the sizes of their references: the number of
\* pairs of a block and a unit that is charged for it.
Charged(here, bs) ==
  Cardinality({p \in bs \X (1..SEGSIZE) : p[2] <= Size(RefOf(here, p[1]).radix)})

\* Mutant of RecoverBmap: the class of the segment is not set.
RecoverBmap_NoClass(z, n, bm) ==
  LET here == {e \in Visited : ZoneOf(e.off) = z /\ SegOf(e.off) = n}
      missing == (UNION {BlocksAt(e.off, e.radix) : e \in here}) \ bm.bits
  IN  IF missing = {} THEN bm
      ELSE [linear |-> 0, class |-> bm.class,
            avail |-> (bm.avail - Charged(here, missing)) % AvailMod,
            bits |-> bm.bits \cup missing]

\* hammer2_freemap_adjust(DORECOVER) for all of them.  A block that is marked
\* already is left alone, linear included.  avail is charged the size of the
\* reference for each of its blocks that was free; which one of several small
\* references to a block comes first is not told apart.
RecoverBmap(z, n, bm) ==
  LET here == {e \in Visited : ZoneOf(e.off) = z /\ SegOf(e.off) = n}
      missing == (UNION {BlocksAt(e.off, e.radix) : e \in here}) \ bm.bits
      first == RefOf(here, CHOOSE b \in missing : TRUE)
  IN  IF missing = {} THEN bm
      ELSE [linear |-> 0,
            class |-> IF bm.class = NULL THEN Class(first.type, first.radix) ELSE bm.class,
            avail |-> (bm.avail - Charged(here, missing)) % AvailMod,
            bits |-> bm.bits \cup missing]

RecoverLeaf(z) ==
  LET here == {e \in Visited : ZoneOf(e.off) = z}
      old  == IF media.fmap[z].made \/ here = {} THEN media.fmap[z] ELSE NewLeaf(z)
      Fixed(e) == ~(BlocksAt(e.off, e.radix) \subseteq old.bmap[SegOf(e.off)].bits)
  IN  [made |-> old.made,
       bigmask |-> old.bigmask \cup {e.radix : e \in {f \in here : Fixed(f)}},
       bmap |-> [n \in Segs |-> RecoverBmap(z, n, old.bmap[n])]]

Mount ==
  /\ pc = "down"
  /\ leaf' = [z \in Zones |-> RecoverLeaf(z)]
  /\ mem' = media.topo
  /\ ptid' = media.ptid
  /\ heur' = [c \in Classes |-> 0]
  /\ pc' = "idle"
  /\ UNCHANGED <<fmap, media, nalloc, nsync, denied, crashed>>

Init ==
  /\ leaf = [z \in Zones |-> NoLeaf]
  /\ heur = [c \in Classes |-> 0]
  /\ pc = "down"
  /\ mem = {}
  /\ ptid = [p \in Pfs |-> 16]
  /\ fmap = leaf
  /\ media = [fmap |-> leaf, topo |-> {}, ptid |-> ptid]
  /\ nalloc = 0 /\ nsync = 0
  /\ denied = {}
  /\ crashed = FALSE

Next ==
  \/ \E q \in Requests, p \in Pfs \cup {Spmp} :
       /\ p = Spmp => q[1] # "DATA"
       /\ ChainModify(q[1], q[2], p)
  \/ \E p \in Pfs : FlushPfs(p)
  \/ FlushFreemap \/ FlushVolume
  \/ Unmount \/ Crash \/ Mount

Spec == Init /\ [][Next]_vars

-----------------------------------------------------------------------------
(* What the freemap promises *)

Overlap(e, f) ==
  /\ e.off < f.off + Size(f.radix)
  /\ f.off < e.off + Size(e.radix)

Marked(e) ==
  BlocksAt(e.off, e.radix) \subseteq leaf[ZoneOf(e.off)].bmap[SegOf(e.off)].bits

(***************************************************************************)
(* Storage is handed out once: as long as there was no crash, no two block *)
(* references share a unit, across clean unmounts and mounts too, in which *)
(* the linear iterator keeps its value.                                    *)
(***************************************************************************)
Disjoint ==
  ~crashed => \A e, f \in mem : e # f => ~Overlap(e, f)

(***************************************************************************)
(* "make sure that all related blocks have been marked allocated"          *)
(* (hammer2_recovery): while the volume is mounted, after any crash, the   *)
(* blocks of every reference in memory or below the header on the media    *)
(* are marked in the bitmaps, though the scan looks only at the last flush *)
(* of each PFS.                                                            *)
(***************************************************************************)
InUseMarked == pc # "down" => \A e \in mem \cup media.topo : Marked(e)

(***************************************************************************)
(* The KKASSERTs of hammer2_freemap_try_alloc, and "all elements must have *)
(* the same device block size" (struct hammer2_bmap_data): references lie  *)
(* between the static allocations and the end of the volume, outside the   *)
(* reserved areas, and those in one segment use one device block size.     *)
(***************************************************************************)
WellPlaced ==
  \A e \in mem :
    /\ e.off >= AllocBeg /\ e.off + Size(e.radix) <= VoluSize
    /\ e.off % ZONE >= ZoneSegs * SEGSIZE
    /\ \A f \in mem :
         e.off \div SEGSIZE = f.off \div SEGSIZE => DevBlk(e.radix) = DevBlk(f.radix)

(***************************************************************************)
(* The linear iterator, when it is inside a block, stands behind every     *)
(* reference in that block, and the block is marked.                       *)
(***************************************************************************)
LinearBehind ==
  ~crashed => \A z \in Zones, n \in Segs :
    LET bm == leaf[z].bmap[n]
        base == z * ZONE + n * SEGSIZE
    IN  bm.linear % FRAGS # 0 =>
          /\ bm.linear \div FRAGS \in bm.bits
          /\ \A e \in mem :
               e.off \div FRAGS = (base + bm.linear) \div FRAGS =>
                 e.off + Size(e.radix) <= base + bm.linear

(***************************************************************************)
(* "On a crash/reboot any partial allocations effectively become full 16KB *)
(* block allocations" (FREEMAP): storage in use is handed out only once,   *)
(* after a crash as well.                                                  *)
(***************************************************************************)
DisjointAfterCrash == \A e, f \in mem : e # f => ~Overlap(e, f)

(***************************************************************************)
(* bigmask "may be permissive but not restrictive" (hammer2_disk.h), and   *)
(* "return ENOSPC if the allocation map has been exhausted"                *)
(* (hammer2_freemap_try_alloc): a request that is denied does not fit into *)
(* any segment of its class.                                               *)
(***************************************************************************)
DeniedWhenFull ==
  \A q \in denied : \A z \in Zones, n \in Segs :
    LET bm == leaf[z].bmap[n]
    IN  bm.class \in {NULL, Class(q[1], q[2])} => ~Fits(bm, q[2])
=============================================================================
