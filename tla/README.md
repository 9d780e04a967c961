# HAMMER2 on OpenBSD: a TLA+ verification project

This project specifies the concurrency and crash-recovery core of the HAMMER2
file system port kept in this repository (`src/sys/hammer2`) and the cluster
messaging between its service daemons (`src/lib/libdmsg`). The rest of the tree
is the OpenBSD system it is ported to and is not a subject of the project. TLC
checks the models on small instances; TLAPS proves the theorems for every value
of the constants. `PROJECT.json` maps every definition
to the lines it models. The mapped lines are a large part of the code the
modules are about and a tiny share (about 0.1%) of the repository, which holds
the sources of a whole operating system.

The port is unfinished, and several functions are stubs that only print. Where
a stub decides the outcome of a step, the model has its outcomes (the buffer of
`getpbuf`, in `VolSync`); where it stops a component altogether (the flags of
libdmsg's threads), the component is modelled as it is meant and only for
safety. Section 5 lists these places.

## 1. The system

A HAMMER2 volume is a copy-on-write tree of blocks below one of up to four
*volume headers*. In memory each block is a *chain*; an inode holds a *cluster*
of chains, one per device that mirrors the PFS. Operations modify chains inside
*transactions*. A *flush* writes modified chains bottom-up and ends with a new
volume header. At mount the newest intact header is chosen and the free-block
bitmap is repaired by a *recovery scan*.

| Component | Source | State | Operations | Talks to |
|---|---|---|---|---|
| Transaction manager | `hammer2_flush.c` 60-343 | queue `tmanage.transq`, `flushcnt`, XIDs; TIDs and inode numbers of each PFS | `trans_init`, `trans_spmp`, `trans_done` | called by every vnode operation, `vfs_sync`, the snapshot ioctl, recovery, the write thread |
| Volume header commit, mount | `hammer2_vfsops.c`, `hammer2_flush.c` 659-707, `newfs_hammer2.c` | header ring on the media, `volsync`, `volhdrno`, VOLUMESYNC | `vfs_sync`, `install_volume_header`, `vfs_mount`, `vfs_unmount` | chain flush, buffer cache, disk |
| Chain flush | `hammer2_flush.c` | FLUSH flags, `flushq` | `setflush`, `flush`, `flush_core`, `flush_recurse` | chains, freemap, DIO |
| Chain topology | `hammer2_chain.c` | refs, flags, red-black tree, block tables | ref/drop/lastdrop, lock/unlock, create, delete, indirect blocks | CCMS, DIO, freemap |
| Freemap | `hammer2_freemap.c` | bitmaps of 2-bit states, `heur_freemap` | alloc, adjust | chains, recovery |
| Recovery scan | `hammer2_vfsops.c` 2150-2350 | deferral list, `sync_tid` | `recovery`, `recovery_scan` | freemap |
| CCMS locks | `hammer2_ccms.c` | count, upgrade, blocked | lock, upgrade, downgrade, unlock | chains, inodes |
| Device I/O | `hammer2_io.c` | reference word with INPROG/GOOD/WAITING/DIRTY | getblk, complete, putblk, callbacks | buffer cache |
| Write throttling | `hammer2_vfsops.c` 2950-3100 | `count_lwinprog`, `inmem_dirty_chains` | ref, drop, wait, wakeup | write thread, chains |
| Inodes, unlink queue | `hammer2_inode.c` | inode tree, hidden directory, `unlinkq` | get, create, connect, unlink, run_unlinkq | chains, transactions |
| Vnode operations | `hammer2_vnops.c` | - | nmkdir, nremove, write, fsync, ... | inodes, transactions |
| Clusters | `hammer2_cluster.c` | array of chains | forwarders | chains |
| Freemap copies | `hammer2_freemap.c` 77-200 | block of each freemap leaf in the reserved area | `freemap_reserve` | chain modify, header ring |
| DMSG transactions | `libdmsg/msg.c` (twin in `kern_dmsg.c`) | transaction states per connection, ioq errors | msg_write, state_msgrx, cleanuptx/rx, core thread | peer daemon |
| Spanning tree | `libdmsg/msg_lnk.c`, `service.c` | links, relays, `connq`, signal flags | lnk_conn, lnk_span, relay_scan, relay_delete | DMSG transactions, other daemons |
| Utilities | `sbin/hammer2`, `newfs_hammer2`, `mount_hammer2` | - | - | ioctls, media |

What is hard in this code, and what would make each part right:

* **Transactions.** Threads arrive, sleep and leave in any order; who may run
  beside whom depends on flags that somebody else's `trans_done` changes. Right
  means: flushes exclude what they must, XIDs separate what a flush covers from
  what it does not, and no wakeup is lost.
* **Volume headers.** A crash may come between any two writes and tears the one
  in progress; the disk reorders writes. Right means: the header a mount picks
  is the newest, a crash does not cost the last one, and what an unmount leaves
  is complete.
* **Chain flush.** Recursion with a depth limit, unlock/relock windows between a
  chain and its parent. Right means: nothing modified before the flush is left
  out, and a parent is written after its children.
* **Freemap and recovery.** Allocation inside a bitmap entry, sub-allocation
  below 16KB, and a free-block table that may be behind the topology. Right
  means: no block that is in use is handed out.
* **CCMS, DIO, throttling.** Small lock words changed by compare-and-set with
  sleepers. Right means: mutual exclusion, no lost wakeup.
* **Freemap copies.** Two rings of different length, six blocks per freemap
  leaf and four volume headers, are turned by different steps, with delayed and
  asynchronous writes behind both. Right means: the freemap of the header a
  mount would pick is never overwritten.
* **DMSG transactions.** CREATE and DELETE of two directions cross on the wire,
  message ids are reused and connections break. Right means: both ends agree
  when a transaction is over, and every state is freed once.
* **Spanning tree.** A filesystem is announced through chains of transactions
  in cyclic graphs of daemons that lose connections. Right means: what is
  mounted is announced, and nothing withdrawn is kept alive by daemons that
  feed each other.

`PROJECT.json` lists these hazards at their lines.

## 2. Modules

| Module | Models | Used by |
|---|---|---|
| `Trans` | the transaction manager and its callers | `MCTrans`, `TransProofs` |
| `VolSync` | volume header commit, mount, unmount, crash | `MCVolSync`, `VolSyncProofs` |
| `Freemap` | the block allocator and the recovery of its bitmaps | `MCFreemap`, `FreemapProofs` |
| `FreemapRing` | the copies of a freemap leaf, composed with the header ring | its `.cfg` |
| `DmsgTxn` | what a DMSG transaction promises (abstract) | `Dmsg` |
| `Dmsg` | libdmsg's transactions over one connection; implements `DmsgTxn` | `MCDmsg`, `DmsgProofs` |
| `Span` | the LNK_CONN/LNK_SPAN protocol among several daemons | `MCSpan`, `SpanProofs` |
| `SeqShapes` | lemmas: where the elements of a sequence move | `TransProofs`, `VolSyncProofs`, `SpanProofs` |
| `TransProofs`, `VolSyncProofs`, `FreemapProofs`, `DmsgProofs`, `SpanProofs` | theorems about these modules | - |
| `DmsgTxnProofs` | the refinement of `DmsgTxn` by `Dmsg` | - |
| `MCTrans`, `MCVolSync`, `MCFreemap`, `MCDmsg`, `MCSpan` | instances for TLC | the `.cfg` files |

### Trans

An actor is a thread with one `hammer2_trans_t`. `Threads` run vnode
operations, syncs, ioctls and recovery; the write thread of a PFS is named by
the PFS. `tmanage.translk` is held throughout `trans_init` and `trans_done`
except in `lksleep`, so the part of `trans_init` before the sleep (`FlushInit`,
`FreeInit`, `BufcacheInit`, `FrontInit`: its four branches), the part after it
(`Resume`) and `trans_done` (`TransDone`) are atomic. The callers are actions
of their own: `VfsSync` (`ISFLUSH|PREFLUSH`), then `ClearPreflush` when the
logical buffers are out, `TransSpmp` when it moves on to the volume roots, and
`TransDone`; `Snapshot` (`ISFLUSH|NEWINODE`, always after a `vfs_sync` of the
same thread); `Frontend` (vnode operations, ioctls, recovery); `WriteThread`.
`BufcacheAssert` is the failing `KKASSERT` in the BUFCACHE branch; after it the
kernel takes no steps.

XIDs wrap modulo `XidMod` (2^32 in the code) and `NewXid` skips 0 as
`hammer2_trans_newxid` does. TIDs are 64 bit and unbounded here. `own_tid` is a
history variable.

### VolSync

`hdr` is what is on the media, `hdrq` the headers handed to `bawrite()`, `torn`
the slot the disk is working on, `dblk` the flushes whose blocks are still in
delayed-write buffers, and `blk` those whose blocks are on the media. A flush
has a number (history) as well as a TID, because TIDs continue from the header
found at mount and so are reused after a crash. `modified` says that there are
modified chains below `vchain`, `voldirty` that `vchain` itself is marked,
`fdirty` that the freemap has something to flush.

The body of the volume-root loop is `SyncSkip` (a device met before),
`SyncFreemap` (the flush of `fchain`), `SyncFlush` (the flush of `vchain`, which
may allocate on its way up and so dirty the freemap again; the second flush of
`fchain` is compiled out), then `SyncNoHeader`, `SyncHeader` or `SyncHang`, and
`SyncEnd`. Before a header is issued the code calls `getpbuf`, which returns an
uninitialised pointer, and `biowait` on that buffer without having started any
I/O (`hammer2_vfsops.c:310` and 2567-2576): depending on the memory it points to
the thread goes on (`SyncHeader`), sleeps for ever (`SyncHang`) or faults
(`Crash`). `Unmount` and `UnmountDevice` are `hammer2_vfs_unmount` with its
three syncs per device. The loop index `i` is shared with the header slot
number as in the code.

`WriteBlocks`, `DiskStart` and `DiskFinish` are the buffer cache
(`vfs_bio.c`) and the disk queue (`kern_bufq.c`). The queue sorts its writes by
block number, so the headers that are outstanding are done in any order; only
`getblk()` of the same slot waits for one.

Abstractions: sizes are in MB; `hammer2_trans_spmp` takes TIDs on every pass
of the loop, the model only when there is something to flush (TIDs are only
compared). A torn header fails its CRCs. That is exact for sectors 0 and 1;
`hammer2_install_volume_header` does not look at the CRC of the rest, so a
header torn later keeps the freemap table of an older flush (see section 5).
What the unlink queue dirties at the beginning of an unmount is a `Modify`
before its first pass.

### Freemap

The volume is divided into zones (2GB in the code), each with one freemap leaf
of `COUNT` segments (2MB); a segment has `BLOCKS` bitmap blocks (16KB) and a
block `FRAGS` units of the smallest allocation (1KB). `leaf` is the freemap in
memory with, for each segment, `linear`, `class`, `avail` and the set `bits` of
blocks marked 11; `bigmask` is the hint in the reference to the leaf. `mem` is
every block reference of the topology, `media` what the header on the media
points to: a freemap, a topology and the `mirror_tid` of each PFS root.

`hammer2_freemap_alloc` keeps `fchain` locked, so `ChainModify` is one action:
`Alloc`, or `Nospc` when the search has gone round twice. `FlushPfs`,
`FlushFreemap` and `FlushVolume` are the three flushes of `hammer2_vfs_sync` in
their order; allocations come between them, because buffer-cache writes do not
wait and because the flush of `vchain` itself gives the super-root inode new
storage. `Mount` is `hammer2_recovery`: `Visited` is what the scan reaches,
`RecoverBmap` and `RecoverLeaf` what `hammer2_freemap_adjust` does with it.

Abstractions: the heuristic start of a search is always the base of a zone
(`hammer2_freemap_iterate` stores nothing else and the initial value is 0), so
it is kept as the zone. The topology is a set and not a tree: a flush writes
all references on the path to the root with the TID of the flush, so the scan
reaches a reference exactly when its own TID is new enough. References replaced
by copy-on-write stay in `mem`; nothing in this tree frees a block, so a bit
pair is 00 or 11. When recovery finds several fragments of an unmarked block,
which of them is charged to `avail` is not told apart. `nalloc` numbers the
references; `denied` and `crashed` are history variables.

### FreemapRing

One device and one freemap leaf. `leaf` is the reference in memory (the block
of the reserved area it is in, as an index), `copy` what the six blocks hold on
the media, `buf` the dirty buffers over them. Each content of the leaf between
two flushes has a number, its generation (history). `Modify` is
`hammer2_chain_modify` of the leaf: only the first modification after a flush
moves it on (`Reserve`), but every one dirties the buffer, which goes to the
buffer cache when the chain is unlocked and may be written before the flush.
`SyncFlush` puts the reference into the header, `SyncHeader` issues the header
to the next slot of the ring, `Mount` continues from the header it installs.
The disk is that of `VolSync`, and nothing but the number of slots limits the
headers that are outstanding. `HAMMER2_NUM_VOLHDRS` and the number of sections
have their real values.

### DmsgTxn and Dmsg

`Dmsg` is one connection between two daemons. Each end has the states of the
transactions it opened (`LNK_CONN`, `LNK_SPAN`) and of those the other one
opened, with CREATE and DELETE of both directions; a state is freed when both
are closed. A msgid is the address of the state, so it is reused; the history
field `inc` tells the uses apart and is never looked at by the code. `wire` is
everything between `dmsg_msg_write` at one end and `dmsg_ioq_read` at the
other. The core thread of an end reads a message (`cur`), runs
`dmsg_state_msgrx`, the callback and `dmsg_state_cleanuprx`; API calls of other
threads come in between. A connection breaks at any point, and one end may find
an error while the other still works; then every open transaction is failed by
a simulated DELETE, one at a time. What is lost inside the queue is found by
sequence numbers, so a broken stream is a prefix of what was written.

`DmsgTxn` has no states, ids or queues: a transaction is two streams that are
opened once and closed once, each end sees the other's stream no further than
it was sent, and only an end whose link is lost may take a close as given. The
refinement maps each use (`Uses`: opener, msgid, number of the use) to an
abstract transaction and reads the phase of its streams off the states;
`Implements` is `Txn!AbsSpec`.

What is modelled is the protocol and not the daemon this commit builds. The
flags RWORK, WWORK, PWORK, SWORK and EOF are changed through `atomic_set_int`
and `atomic_clear_int`, which `drm_atomic.h:121-122` (included by
`dmsg_local.h`) maps to two functions of `msg.c` (75-83) that print "fix me" and
do nothing. And `iocom->mtx`, a mutex with default attributes, is locked again
by its holder: `dmsg_msg_write` (1547) in `dmsg_state_cleanuptx` (2390),
`dmsg_state_cleanuprx` (2324) in `dmsg_msg_free` (474). `Dmsg` and `Span` give
the flags and the mutexes the effect they are meant to have. They therefore
state no fairness and no liveness, only what no order of steps may do.

### Span

Several daemons, the connections between them (`Conns`) and one filesystem that
the kernel of `Home` mounts and unmounts. A received SPAN is a `link`, with its
distance; the best link is sent on as a `relay` over every other connection
whose LNK_CONN has arrived (`connq`). New links, lost links and LNK_CONNs only
set the flag DMSG_IOCOMF_SWORK (`sig`); the core thread of that connection runs
the relay scan later, if it has not met an error before (`failed`). Every
handler runs under `cluster_mtx` and is one action. `chan` is the stream of
CONN, CREATE and DELETE messages of one direction.

The rough edges of the code are modelled as they are: the search for an
existing relay is commented out ("XXX fix me"), so every scan relays the best
link again and deletes what is in excess (`Extras`); a duplicate is not
inserted in `conn->tree`; removing it empties the tree; the teardown of a
connection then misses relays, and deleting one of these later dereferences the
cleared `conn->state`, which ends the daemon (`Crash`).

Abstractions: one cluster and one node, so a daemon has one tree of links.
Links at equal distance are ordered by random numbers and addresses in the code
and arbitrarily here. Filters of LNK_CONN accept everything; relays back to the
kernel are left out. Connections that broke stay broken. Like `iocom->mtx`,
`cluster_mtx` is taken as recursive (the scan takes it at `msg_lnk.c:345` and
`dmsg_generate_relay`, 1050, again in `dmsg_rnss`, 1286), and `dmsg_iocom_signal`
(`msg.c:243`) as setting its flag.

## 3. What the runs check

| Run | Spec, bounds | Checks |
|---|---|---|
| `trans_sync` | `FairSpec`, 3 threads + 1 write thread, `SyncFlush` on, XIDs to 5 | `TypeOK`, `HeadRuns`, `FlushAlone`, `FlushCounted`, `ConcurrentBehindFlush`, `SleeperRuns` |
| `trans_async` | the same with `SyncFlush` off | `HeadRuns`, `FlushSeparates`, `SleeperRuns` |
| `trans_tid` | as `trans_sync` | violates `FlushOwnsTid` |
| `volsync` | `FairSpec`, 2 devices with 2 header slots, 2 modifications | `TypeOK`, `NewestInstalled`, `StaysMountable`, `CleanUnmount`, `SyncEnds` |
| `volsync_cluster` | 2 devices, 2 modifications | violates `AllVolumesSynced` |
| `freemap` | 2 zones with one free segment each, 4 allocations, 2 syncs | `TypeOK`, `LinearBehind`, `Disjoint`, `InUseMarked`, `WellPlaced` |
| `freemap_crash` | the same with inodes and half blocks, 1 sync | violates `DisjointAfterCrash` |
| `freemap_full` | 6 allocations, no sync | violates `DeniedWhenFull` |
| `freemap_ring` | 4 header slots, 6 blocks, 6 flushes | violates `NotOverwritten` |
| `dmsg` | 2 daemons, `LNK_CONN` used once by each, `LNK_SPAN` reused by one, breaks | `TypeOK`, `NoDanglingState`, `NoTransError`, `NothingAfterEOF`, `AgreeAtRest`, `FailureNeverStuck`, `Implements` |
| `span` | 3 daemons in a triangle or a line, late LNK_CONNs, distance 2 relayed once more, 2 breakable connections | `TypeOK`, `Grounded`, `DistBound`, `NoRing` |
| `span_reroute` | 4 daemons: a triangle with a tail, 1 breakable connection | violates `UpdatesIssued` |

**Bounds.** Four transactions are enough for every relation the queue code
distinguishes: a flush, one behind it, one ahead of it, and a write that joins
it; with `MaxXid = 5` three flushes begin, so two wait behind a running one.
The proofs remove the bound for the safety properties. The wrap of XIDs is in
the model but out of the bound: the code promises no order across it. On two
header slots (a volume of 2056 MB) each header write lands on the only other
copy, the worst case for a crash. Two modifications (`MaxModify`) make up to
four flushes, as each may dirty the freemap for another one: the ring turns
round twice. Crashes are unbounded. In `Freemap` a block has four units
and a segment four blocks: fragments, whole blocks and runs of two blocks all
fit, in two I/O sizes. The static allocations end inside a segment and the
volume inside a zone. Three classes compete for two segments, so a request is
denied after two allocations; two syncs let the recovery scan pass over the
references of the older one. In `FreemapRing` six flushes and a modification
after the sixth bring the rotation back to its first block; `MaxIdle` bounds
the flushes that leave the leaf alone, which only slow the rotation and are not
needed for the violation.

In `Dmsg` `MaxInc = 2` lets a msgid be used again; who reuses which is
`SpanUses`. In `Span` `MaxDist = 2` lets a SPAN go round the triangle and arrive
where it came from, at distance 3, where the limit stops it. `MaxRelays = 2`
allows one duplicate over the connections of `Repeats`, from the home daemon
round the other way to the daemon whose connection to it may break; the other
directions have one SPAN at a time (`Bounded` stops what would need more).
`Breakable` is the connection over which the SPAN comes and one behind it, and
`Starts` the two orders in which a late LNK_CONN matters. The proofs remove all
these bounds for the safety properties.

**Fairness.** In `Trans` a sleeper polls `trans->blocked` every `hz` ticks (so
`Resume` is weakly fair) and the work between `trans_init` and `trans_done`
ends. In `VolSync` the thread in `vfs_sync` keeps running unless it sleeps in
`biowait`, from which nothing wakes it, and the disk keeps writing; `SyncEnds`
counts `biowait` as an end. Nothing forces an operation, sync, unmount, mount
or crash to happen. `Dmsg` and `Span` state no fairness, because at this commit
their core threads are not woken (section 2).

**Deadlock** is checked in `Trans` (a panicked kernel stutters, `Halted`),
`Freemap` and `Dmsg` (which stutters when everything is over, `Finished`) and
none is found. It is not checked in `volsync`, where crashes can leave a device
without a whole header, which cannot be mounted, and not in `span`, whose
daemons come to rest when there is nothing to announce or withdraw.

**What the disk may do.** The synchronous flush of the device before each
header is commented out ("XXX fix me", `hammer2_vfsops.c:2550`) and `bawrite()`
waits for nothing, so a header can be on the media before the blocks of its
flush, and several headers can be outstanding. This has three consequences.
That a crash can leave a header whose blocks are missing is plain and has no
run; `CleanUnmount` says when the blocks are there. The last whole header of a
device can be lost: on two slots, a crash during the write of the one, then two
syncs whose headers are done in the wrong order with a crash in between.
`StaysMountable` says that this takes two outstanding writes. And the rotation
of the freemap copies can overtake the headers (`freemap_ring`).

### Findings

1. `trans_tid`: a flush that queues behind another one overwrites the PFS's
   `flush_tid`, which the running flush stamps into its block references; the
   comment asks for a TID of its own per flush.
2. `volsync_cluster`: the volume header slot is stored in `i`, the index of the
   loop over the cluster, so a sync can skip a device. `SyncEnds` shows that
   the loop itself still ends, `CleanUnmount` that the three syncs of each
   unmounted device still leave it clean.
3. `freemap_crash`: the document FREEMAP says that after a crash partial blocks
   count as full. `bmap->linear` is on the media, and recovery resets it only
   in segments where it had to set a bit. The super-root inode, which gets a
   fragment after the freemap has been flushed, can share it with the next
   inode created after a crash. `Disjoint` holds without crashes and
   `InUseMarked` with them: the bitmaps are repaired, the iterator is not.
4. `freemap_full`: a failed search clears the `bigmask` bit of its size for all
   classes although it looked at the segments of one; "may be permissive but
   not restrictive" (`hammer2_disk.h:538`) does not hold.
5. `span_reroute`: when a connection breaks, the daemon deletes the links it
   had over it and signals the same connection to look for replacements; its
   core thread is at its end by then. A daemon that still has another link
   withdraws the old route from its neighbours and never announces the new one,
   though the comment promises to "issue any required updates"
   (`msg_lnk.c:698`).
6. `freemap_ring`: header writes are not waited for. With four of them
   outstanding the newest header on the media is five flushes old, and the next
   modification of a freemap leaf goes into the block that this header has for
   it; "the freemap must be consistent no matter which volume root is chosen by
   the mount code" (`hammer2_disk.h:215-217`) does not hold then. The comment
   has eight sets, the code six.

Met while modelling, without a run of its own: a buffer-cache transaction can
meet a flush without PREFLUSH and fail a `KKASSERT` (`hammer2_flush.c:208`;
`BufcacheAssert` in `Trans`, reached by the runs), but the creation of the
write thread is commented out (`hammer2_vfsops.c:1097`). In a cycle of daemons
the duplicates of `Span` cause signals that cause duplicates, without end
beyond `MaxRelays`; the code marks the place "XXX fix me" (`msg_lnk.c:820`).

## 4. What is proved

Each proof has one lemma per action and, where an action touches several parts
of the invariant, one step per part; temporal reasoning is one step at the end.
The inductive invariants were found with TLC, which ran them as invariants of
the configurations of section 3 before they were proved.

| Module | Theorem | Property | Assumed beyond the modules' ASSUMEs |
|---|---|---|---|
| `TransProofs` | `TypeCorrect`, `HeadNeverBlocked`, `FlushCountExact`, `ConcurrentExact`, `FlushExclusion`, `FlushSeparation` | `TypeOK`, `HeadRuns`, `FlushCounted`, `ConcurrentBehindFlush`, `FlushAlone`, `FlushSeparates` | - |
| `VolSyncProofs` | `TypeCorrect`, `NewestFirst`, `CleanAfterUnmount` | `TypeOK`, `NewestInstalled`, `CleanUnmount` | - |
| `VolSyncProofs` | `HeaderSurvives` | `StaysMountable` | room for two headers |
| `FreemapProofs` | `TypeCorrect`, `HandedOutOnce`, `AllMarked`, `InPlace`, `BehindIterator` | `TypeOK`, `Disjoint`, `InUseMarked`, `WellPlaced`, `LinearBehind` | - |
| `DmsgProofs` | `TypeCorrect`, `NoAssertion`, `NoDangling`, `CleanEOF`, `EndsAgree`, `TeardownProceeds` | `TypeOK`, `NoTransError`, `NoDanglingState`, `NothingAfterEOF`, `AgreeAtRest`, `FailureNeverStuck` | - |
| `DmsgTxnProofs` | `Refines` | `Implements` | - |
| `SpanProofs` | `TypeCorrect`, `HeldUpByNeighbour`, `DistanceBounded`, `NoClosedLoop` | `TypeOK`, `Grounded`, `DistBound`, `NoRing` | - |

Each module also has `Invariant`, `Spec => []IInv`.

### Trans

For any finite set of threads and PFSs, both flush modes and all bounds. `IInv`
is a conjunction of named parts:

* `QueueOnce`, `QueueHolds`: the queue is a permutation of the transactions
  between `trans_init` and `trans_done`. Everything else is about positions
  in it.
* `OnlySleepersBlock`, `FlushNotBufcache`, `FlushCounted`: `flushcnt` is the
  cardinality of the queued flushes; without it the scan that follows
  `flushcnt != 0` might find none.
* `FlushesWait`, `FrontendsWait`, `OneFlushAhead`, `HeadRuns`: who is blocked,
  by position. `HeadRuns` alone is not inductive: when the head leaves, the new
  head is unblocked only because everything between it and the next flush is
  of the shape these parts describe.
* the XID part: XIDs rise across each flush and buffer-cache writes share the
  XID of theirs, from which `FlushSeparates` follows.
* `ConcurrentBehindFlush`.

The three ways to arrive are instances of one predicate (a transaction is
inserted behind position *n*); the lemmas `InsertAtShape`, `RemoveAtShape` and
`AppendShape` of `SeqShapes` say where the others move. Assumptions:
`ActorsAssumption` (finite, disjoint sets) and `BoundsAssumption`
(`MaxXid + 1 < XidMod`: flushes stop before the XIDs wrap).

### VolSync

For every cluster of devices (a device may be in the array more than once),
every size of the volume and any number of flushes. The difficulty of
`NewestInstalled` is that TIDs are used again after a crash: `Ordered` says that
among the headers a device still has somewhere (`Known`: on the media, in the
queue of the disk, in `volsync`) the order of TIDs is that of the flushes.
`TopInv` makes `volsync` the newest of them and says where its header is, and
`BlocksInv` keeps track of the blocks.

For `CleanUnmount` `ThreadInv` and `FlagInv` follow the loop and its clobbered
index, and `PassInv` the three syncs of the device that is unmounted: the first
leaves its topology clean but perhaps a dirty freemap, the second flushes that
and, with a clean topology, allocates nothing, so the device stays clean from
then on (`ClosedInv`). The device may be behind others that the index skips or
visits again; `Beyond` says when it has been passed.

`HeaderSurvives` needs `SpareInv`: slot `volhdrno` is whole unless its write is
outstanding, and with one write outstanding another slot is whole. It is stated
for a device with room for two headers: with one slot, a crash during a write
tears the only header there is.

### Freemap

For every geometry (units, blocks, segments and zones of any number, a volume
that may end inside a zone), every set of request types and sizes that satisfies
`RequestAssumption` (a size is at most a bitmap block or a multiple of one, and
at most a segment, as in `hammer2_freemap_alloc`), and any number of
allocations, syncs, crashes and mounts. `IInv` follows three freemaps, the one
in memory, the one that this sync has flushed and the one on the media:

* `MapInv` for each: `Shape` (what is not `IsFree` on a new volume is allocated
  in a leaf that exists; a segment with a marked block has a class) and
  `Uniform` (the class of a segment is that of all references in it). The
  class, `OneClass` and `Placed` together give `WellPlaced`: a recovery that
  sets the class of a segment from the first reference found gets the class
  that all the others have.
* `Below`: what an older freemap marks, the one in memory marks, with the same
  class. Only so can the class of an older map be compared with references made
  since.
* `FmapInv`, `MediaInv`: the references of the PFSs that a freemap was flushed
  with are marked in it, because `hammer2_vfs_sync` flushes the PFSs before
  `fchain`; those of the super-root may be missing. They are what
  `hammer2_recovery` really needs to visit, and `MountInv` shows that with them
  everything is marked again (`InUseMarked`).
* `OnceInv`, `DownInv`: references in a segment are apart, and the iterator is
  inside a block only in a segment of small allocations and behind those in
  its block. Without a crash a mount changes no bitmap, so the iterator stays
  right; after a crash it is not (run `freemap_crash`).

The other half of the module is arithmetic: offsets and their zone, segment,
block and remainder (`SegAt`, `SegParts`, `BlocksOf`), proved from a few facts on
multiplication and division, as the products of constants are nonlinear.

### Dmsg

For every bound on the reuse of msgids. The messages of one direction of one
transaction are, over all uses of the msgid, CREATE, DELETE, CREATE, DELETE...;
`Number` gives them numbers in this order, 2n for the CREATE and 2n + 1 for the
DELETE of use n. `Sent` is the number of the last message written according to
the state of the sender and `Seen` that of the last one taken according to the
state of the receiver and its core thread. `WireInv` then says all there is to
say about the queue: what is unread are the messages after `Seen`, without a
gap, up to `Sent` unless the stream was cut. `dmsg_state_msgrx` thus never finds
a CREATE for a state in use or a DELETE for one that is not (`NoAssertion`).
`StateInv`, `CurInv`, `ConnInv` and `EndInv` are about a single end: a state is
freed in the core thread by the DELETE of the other end, so it cannot go away
under a message.

`EndsAgree` is `WireInv` with empty streams: then `Seen` of one end is `Sent` of
the other in both directions (`EmptyStream`), and as a state is freed exactly
when both directions are closed, equal numbers mean equal states
(`NumbersAgree`). `TeardownProceeds` follows from `StateInv`: the receive
direction of a state is closed by `dmsg_state_cleanuprx`, after the callback has
closed the other one, and the state is freed with it.

`Refines` shows that every step of `Dmsg` is a step of `DmsgTxn` or none: the
phase of each use, read off the states, is moved by `CreateRefines`,
`AckRefines`, `ReplyRefines`, `CloseSpanRefines`, `ReceiveRefines` and
`CleanupRefines`. The interesting one is `ReceiveRefines`: that the other end
has sent what is seen now follows from `WireInv`.

### Span

For every set of daemons, connections and initial situations that satisfies
`TopologyAssumption`, whatever connections break, every `MaxDist` and any number
of relays at a time (`BoundAssumption`). `Grounded` compares two daemons with a
stream between them and an id that is used again, so it is not inductive alone.
`PairInv(R, L, q)` says for one direction of a connection that works what the
stream `q` may hold when the sender has relays with the ids `R` and the receiver
the links `L`:

* `OneUse`: an id is in the stream as a CREATE, a DELETE or both in this order,
  because it is fresh only when its DELETE has been read;
* `CreateIsNew`: an id on its way in a CREATE has no link yet; with `OneLink`,
  the DELETE that comes finds one link;
* `DeleteIsLast`: an id whose DELETE is on its way has no relay;
* `HeldUp`: what was announced has its relay or its DELETE in the stream.
  `Grounded` is this and `RelayInv`.

The lemmas `PairReadConn`, `PairReadCreate`, `PairReadDelete`, `PairCreate` and
`PairDelete` say how the five things that happen to a stream keep it; each
action uses one or two of them on the pairs it touches. `WireInv` (what is read
comes over a connection that works) rules out the others. `TreeInv` needs that
`RB_INSERT` into a tree with one relay is followed by the removal of that one,
and that removing a relay that was never inserted empties the tree. `DistInv`
is about the streams too, since a distance is checked by the sender.

`NoClosedLoop` speaks of sets of links over any number of daemons. `LinkInv`
and `HopInv` add to the pairs what a relay means for the distance: the CREATE in
the stream, and later the link of the receiver, is one further away than the
link of the sender it was made from, which keeps its distance as long as the
relay is there. So the distance falls along `HoldsUp`, and a nonempty set in
which every link is held up by another would have no least distance (`WFMin` on
the naturals).

### Model-checked only

Liveness (`SleeperRuns`, `SyncEnds`): it rests on fairness, which is beyond the
prover. The runs that show a violation are about single instances by their
nature.

## 5. What is not modelled

* Data paths (read, readdir, strategy, compression), command-line utilities,
  encryption in libdmsg: no state machine, or third-party code.
* The recursion of the chain flush: `hammer2_flush_core` calls
  `hammer2_flush_recurse(chain, NULL)` (`hammer2_flush.c:540`), which
  dereferences its NULL argument; a sync with modified inodes stops the kernel
  there. `VolSync` allows a crash at every step, which covers it.
* CCMS thread locks: `cst->td` and `curthread2` are null for ever, so
  `ccms_thread_lock` takes every exclusive lock as its caller's own
  (`hammer2_ccms.c:241`). The lock excludes nobody and there is no property of
  it to state.
* Device I/O: `hammer2_io_getblk` never releases `io_spin`
  (`hammer2_io.c:104`) and waits for INPROG in a `tsleep` without timeout that
  comes before WAITING is set (line 150), so no second user gets past it.
* Write throttling: counters with waits that poll every second.
* A header whose sectors 0 and 1 reach the disk before sector 4: the mount
  accepts it with the freemap table of an older flush. All modules take a torn
  header as invalid.
* The kernel's twin of the DMSG transactions: the reads and writes of its
  threads are commented out. Its `hammer2_volconf_update` and SPAN updates have
  no peer in this tree.
* Sub-transactions of DMSG and the routing of their messages
  (`dmsg_state_relay`), the debug shell, the byte level of the ioq.
* Liveness of the daemons. The stubs of `msg.c:75-83` and the mutexes that are
  locked twice (section 2) stop a daemon of this commit at once; that closed
  transactions end everywhere or that a mounted filesystem becomes known cannot
  be claimed of it.
* `bawrite()` is asynchronous though the comment at `hammer2_vfsops.c:2354`
  promises to wait for the media.

## 6. Plan

In order of importance:

1. `Inode`: the inode cache, hard links and the unlink queue.
2. The reference counts of chains (`hammer2_chain_drop`, `lastdrop`).
3. `ChainFlush`, when the recursion of `hammer2_flush_core` runs: the flags
   MODIFIED, UPDATE, ONFLUSH and DEFERRED on a small tree.
