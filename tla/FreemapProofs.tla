--------------------------- MODULE FreemapProofs ---------------------------
(* Proofs about Freemap, for every geometry of the volume, every set of     *)
(* requests and any number of allocations, flushes, crashes and mounts.     *)
EXTENDS Freemap, FiniteSetTheorems, TLAPS

-----------------------------------------------------------------------------
(* The inductive invariant *)

\* The block references somebody may follow: in memory and on the media.
Refs == mem \cup media.topo

In(e, z, n) == ZoneOf(e.off) = z /\ SegOf(e.off) = n

\* Where a reference lies in its segment.
Pos(e) == e.off % SEGSIZE

\* An allocation at o of a segment stays in a block, or consists of blocks, and
\* stays in the segment.
Holds(o, r) ==
  IF Size(r) <= FRAGS THEN (o % FRAGS) + Size(r) <= FRAGS
                      ELSE o % FRAGS = 0 /\ o + Size(r) <= SEGSIZE

\* A reference is what somebody asked for and lies in space that is free on a
\* new volume.
Placed(e) ==
  /\ <<e.type, e.radix>> \in Requests
  /\ ZoneOf(e.off) \in Zones /\ IsFree(ZoneOf(e.off), SegOf(e.off))
  /\ Holds(Pos(e), e.radix)

\* All references of a segment are of one class.
OneClass(refs) == \A e, f \in refs :
  In(f, ZoneOf(e.off), SegOf(e.off)) => Class(f.type, f.radix) = Class(e.type, e.radix)

\* A segment of a freemap: made says that its leaf exists.
Shape(made, bm, z, n) ==
  /\ ~made => bm.bits = {} /\ bm.class = NULL /\ bm.linear = 0
  /\ made /\ ~IsFree(z, n) => bm.bits = Blocks /\ bm.linear = SEGSIZE
  /\ IsFree(z, n) /\ bm.bits # {} => bm.class # NULL

\* If the segment has a class, it is that of its references.
Uniform(bm, z, n, refs) ==
  \A e \in refs : In(e, z, n) => bm.class \in {NULL, Class(e.type, e.radix)}

MapInv(map, refs) == \A z \in Zones, n \in Segs :
  Shape(map[z].made, map[z].bmap[n], z, n) /\ Uniform(map[z].bmap[n], z, n, refs)

\* What an older freemap has, the one in memory has.
Under(bm, new) == bm.bits \subseteq new.bits /\ bm.class \in {NULL, new.class}

Below(map, new) == \A z \in Zones, n \in Segs : Under(map[z].bmap[n], new[z].bmap[n])

MarkedIn(map, e) ==
  BlocksAt(e.off, e.radix) \subseteq map[ZoneOf(e.off)].bmap[SegOf(e.off)].bits

\* The freemap in memory: all references are marked.
LeafInv ==
  /\ MapInv(leaf, Refs)
  /\ pc # "down" => \A e \in Refs : MarkedIn(leaf, e)

\* The freemap that was flushed: the references of the PFSs that were flushed
\* before it are marked, those of the super-root perhaps not.
FmapInv ==
  pc = "freemap" =>
    /\ MapInv(fmap, Refs) /\ Below(fmap, leaf)
    /\ \A e \in mem : e.pmp = Spmp \/ e.tid = 0 \/ MarkedIn(fmap, e)

MediaInv ==
  /\ MapInv(media.fmap, Refs) /\ Below(media.fmap, leaf)
  /\ \A e \in media.topo : e.pmp = Spmp \/ MarkedIn(media.fmap, e)

\* Without a crash, a volume that is not mounted is clean.
DownInv ==
  pc = "down" =>
    /\ leaf = media.fmap /\ mem = media.topo
    /\ ~crashed => \A e \in media.topo : MarkedIn(media.fmap, e)

\* References in a segment do not overlap.
Apart(e, f) ==
  In(f, ZoneOf(e.off), SegOf(e.off)) =>
    Pos(e) + Size(e.radix) <= Pos(f) \/ Pos(f) + Size(f.radix) <= Pos(e)

\* The iterator of a segment is inside a block only if the segment is used
\* for small allocations; the block is marked, and those in it end before.
Iterator(bm, z, n, refs) ==
  bm.linear % FRAGS # 0 =>
    /\ bm.linear \div FRAGS \in bm.bits
    /\ bm.class # NULL /\ bm.class[2] = "LBUF"
    /\ \A e \in refs : In(e, z, n) /\ Pos(e) \div FRAGS = bm.linear \div FRAGS =>
                         Pos(e) + Size(e.radix) <= bm.linear

OnceInv ==
  ~crashed =>
    /\ \A e, f \in mem : e # f => Apart(e, f)
    /\ \A z \in Zones, n \in Segs : Iterator(leaf[z].bmap[n], z, n, mem)

IInv ==
  /\ TypeOK /\ (\A e \in Refs : Placed(e)) /\ OneClass(Refs)
  /\ LeafInv /\ FmapInv /\ MediaInv /\ DownInv /\ OnceInv

-----------------------------------------------------------------------------
(* Multiplication and division *)

LEMMA MulStep ==
  ASSUME NEW a \in Int, NEW b \in Int, NEW m \in Nat, a < b
  PROVE  a * m + m <= b * m
<1>1. PICK k \in Nat : b = a + 1 + k
  <2>1. b - a - 1 \in Nat
    OBVIOUS
  <2>2. QED
    BY <2>1
<1>2. b * m = a * m + m + k * m
  BY <1>1
<1>3. k * m >= 0
  OBVIOUS
<1>4. QED
  BY <1>2, <1>3

LEMMA MulMono ==
  ASSUME NEW a \in Int, NEW b \in Int, NEW m \in Nat, a <= b
  PROVE  a * m <= b * m
<1>1. CASE a = b
  BY <1>1
<1>2. CASE a < b
  BY <1>2, MulStep
<1>3. QED
  BY <1>1, <1>2

LEMMA Distribute ==
  ASSUME NEW a \in Nat, NEW b \in Nat, NEW m \in Nat
  PROVE  (a + b) * m = a * m + b * m
OBVIOUS

LEMMA DivMod ==
  ASSUME NEW a \in Nat, NEW m \in Nat \ {0}
  PROVE  /\ a \div m \in Nat /\ a % m \in 0..(m - 1)
         /\ a = (a \div m) * m + (a % m)
OBVIOUS

LEMMA DivUnique ==
  ASSUME NEW a \in Nat, NEW m \in Nat \ {0}, NEW q \in Nat, NEW k \in 0..(m - 1), a = q * m + k
  PROVE  a \div m = q /\ a % m = k
<1>1. PICK d \in Nat, x \in 0..(m - 1) : d = a \div m /\ x = a % m /\ a = d * m + x
  BY DivMod
<1>2. ~(d < q)
  BY <1>1, MulStep
<1>3. ~(q < d)
  BY <1>1, MulStep
<1>4. d = q
  BY <1>2, <1>3
<1>5. QED
  BY <1>1, <1>4

LEMMA MulNat ==
  ASSUME NEW a \in Nat, NEW b \in Nat
  PROVE  a * b \in Nat /\ (a # 0 /\ b # 0 => a * b # 0)
OBVIOUS

LEMMA ModExact ==
  ASSUME NEW q \in Nat, NEW m \in Nat \ {0}, NEW a, a = q * m
  PROVE  a % m = 0 /\ a \div m = q
<1>1. a \in Nat
  BY MulNat
<1>2. PICK k \in 0..(m - 1) : k = 0
  OBVIOUS
<1>3. a = q * m + k
  BY <1>1, <1>2
<1>4. QED
  BY <1>1, <1>2, <1>3, DivUnique

LEMMA WholeBlocks ==
  ASSUME NEW v \in Nat, NEW s \in Nat \ {0}, v % s = 0
  PROVE  \E q \in Nat : q = v \div s /\ v = q * s
<1>1. v \div s \in Nat /\ v = (v \div s) * s + (v % s)
  BY DivMod
<1>2. PICK y \in Nat : y = (v \div s) * s
  BY <1>1, MulNat
<1>3. v = y
  BY <1>1, <1>2
<1>4. QED
  BY <1>1, <1>2, <1>3

-----------------------------------------------------------------------------
(* Zones, segments and blocks *)

LEMMA Sizes ==
  /\ FRAGS \in Nat \ {0} /\ BLOCKS \in Nat \ {0} /\ COUNT \in Nat \ {0}
  /\ SEGSIZE \in Nat \ {0} /\ SEGSIZE = BLOCKS * FRAGS
  /\ ZONE \in Nat \ {0} /\ ZONE = COUNT * SEGSIZE
<1>1. FRAGS \in Nat \ {0} /\ BLOCKS \in Nat \ {0} /\ COUNT \in Nat \ {0}
  BY GeometryAssumption
<1>2. SEGSIZE \in Nat \ {0} /\ SEGSIZE = BLOCKS * FRAGS
  BY <1>1, MulNat DEF SEGSIZE
<1>3. ZONE \in Nat \ {0} /\ ZONE = COUNT * SEGSIZE
  BY <1>1, <1>2, MulNat DEF ZONE
<1>4. QED
  BY <1>1, <1>2, <1>3

\* An offset made of a zone, a segment and a position in the segment.
LEMMA SegAt ==
  ASSUME NEW z \in Nat, NEW n \in Segs, NEW o \in 0..(SEGSIZE - 1),
         NEW x, x = z * ZONE + n * SEGSIZE + o
  PROVE  /\ x \in Nat /\ ZoneOf(x) = z /\ SegOf(x) = n /\ x % SEGSIZE = o
         /\ x % ZONE = n * SEGSIZE + o
         /\ x \div SEGSIZE = z * COUNT + n /\ x = (z * COUNT + n) * SEGSIZE + o
<1>1. PICK s \in Nat \ {0}, c \in Nat \ {0}, g \in Nat \ {0} :
        s = SEGSIZE /\ c = COUNT /\ g = ZONE /\ g = c * s
  BY Sizes
<1>2. n \in Nat /\ n < c /\ o \in Nat /\ o < s
  BY <1>1 DEF Segs
<1>3. n * s + s <= c * s
  BY <1>2, MulStep
<1>4. PICK y \in Nat : y = n * s + o /\ y \in 0..(g - 1)
  <2>1. n * s \in Nat
    BY <1>2, MulNat
  <2>2. QED
    BY <1>1, <1>2, <1>3, <2>1
<1>5. z * g \in Nat /\ x \in Nat /\ x = z * g + y
  <2>1. z * g \in Nat
    BY MulNat
  <2>2. QED
    BY <1>1, <1>2, <1>4, <2>1
<1>6. x \div g = z /\ x % g = y
  BY <1>4, <1>5, DivUnique
<1>7. y \div s = n /\ y % s = o
  <2>1. o \in 0..(s - 1)
    BY <1>2
  <2>2. QED
    BY <1>2, <1>4, <2>1, DivUnique
<1>8. x = (z * c + n) * s + o /\ z * c + n \in Nat
  <2>1. z * c \in Nat
    BY MulNat
  <2>2. (z * c + n) * s = z * g + n * s
    BY <1>1, <1>2
  <2>3. QED
    BY <1>2, <1>4, <1>5, <2>1, <2>2
<1>9. x \div s = z * c + n /\ x % s = o
  BY <1>2, <1>5, <1>8, DivUnique
<1>10. QED
  BY <1>1, <1>4, <1>5, <1>6, <1>7, <1>8, <1>9 DEF ZoneOf, SegOf

\* Every offset is of that form.
LEMMA SegParts ==
  ASSUME NEW x \in Nat
  PROVE  /\ ZoneOf(x) \in Nat /\ SegOf(x) \in Segs /\ x % SEGSIZE \in 0..(SEGSIZE - 1)
         /\ x = ZoneOf(x) * ZONE + SegOf(x) * SEGSIZE + (x % SEGSIZE)
<1>1. PICK s \in Nat \ {0}, c \in Nat \ {0}, g \in Nat \ {0} :
        s = SEGSIZE /\ c = COUNT /\ g = ZONE /\ g = c * s
  BY Sizes
<1>2. PICK z \in Nat, y \in 0..(g - 1) : z = x \div g /\ y = x % g /\ x = z * g + y
  BY DivMod
<1>3. PICK n \in Nat, o \in 0..(s - 1) : n = y \div s /\ o = y % s /\ y = n * s + o
  <2>1. y \in Nat
    OBVIOUS
  <2>2. QED
    BY <2>1, DivMod
<1>4. n < c
  <2>1. ASSUME c <= n PROVE FALSE
    <3>1. c * s <= n * s
      BY <2>1, MulMono
    <3>2. QED
      BY <1>1, <1>2, <1>3, <3>1
  <2>2. QED
    BY <2>1
<1>5. n \in Segs /\ o \in 0..(SEGSIZE - 1) /\ x = z * ZONE + n * SEGSIZE + o
  BY <1>1, <1>2, <1>3, <1>4 DEF Segs
<1>6. ZoneOf(x) = z /\ SegOf(x) = n /\ x % SEGSIZE = o
  BY <1>5, SegAt
<1>7. QED
  BY <1>5, <1>6

LEMMA MaxTwo ==
  ASSUME NEW a \in Int, NEW b \in Int
  PROVE  Max({a, b}) >= a /\ Max({a, b}) >= b /\ Max({a, b}) \in Int
<1>1. \E x \in {a, b} : \A y \in {a, b} : x >= y
  OBVIOUS
<1>2. Max({a, b}) \in {a, b} /\ \A y \in {a, b} : Max({a, b}) >= y
  BY <1>1 DEF Max
<1>3. QED
  BY <1>2

LEMMA MinTwo ==
  ASSUME NEW a \in Int, NEW b \in Int
  PROVE  Min({a, b}) <= a /\ Min({a, b}) <= b /\ Min({a, b}) \in Int
<1>1. \E x \in {a, b} : \A y \in {a, b} : x <= y
  OBVIOUS
<1>2. Min({a, b}) \in {a, b} /\ \A y \in {a, b} : Min({a, b}) <= y
  BY <1>1 DEF Min
<1>3. QED
  BY <1>2

LEMMA ZonesNat == Zones \subseteq Nat
BY DEF Zones

\* A free segment is between the static allocations and the end of the volume
\* and outside the reserved area.
LEMMA FreeSegment ==
  ASSUME NEW z \in Zones, NEW n \in Segs, IsFree(z, n)
  PROVE  /\ AllocBeg <= z * ZONE + n * SEGSIZE
         /\ z * ZONE + n * SEGSIZE + SEGSIZE <= VoluSize
         /\ ZoneSegs * SEGSIZE <= n * SEGSIZE
<1>1. PICK s \in Nat \ {0}, c \in Nat \ {0}, g \in Nat \ {0} :
        s = SEGSIZE /\ c = COUNT /\ g = ZONE /\ g = c * s
  BY Sizes
<1>2. z \in Nat /\ n \in Nat
  BY ZonesNat DEF Segs
<1>30. PICK a \in Nat, v \in Nat, zs \in Nat :
         a = AllocBeg /\ v = VoluSize /\ v % s = 0 /\ zs = ZoneSegs
  BY <1>1, GeometryAssumption
<1>31. PICK q \in Nat : q = v \div s /\ v = q * s
  BY <1>30, WholeBlocks
<1>3. PICK w \in Nat : w = zs * s
  BY MulNat
<1>4. PICK k \in Nat, up \in Nat :
        k = z * g + n * s /\ up = RoundUp(AllocBeg) /\ a <= up
  <2>1. z * g \in Nat /\ n * s \in Nat
    BY <1>2, MulNat
  <2>2. PICK d \in Nat, x \in 0..(s - 1) : d = (a + s - 1) \div s /\ a + s - 1 = d * s + x
    <3>1. a + s - 1 \in Nat
      OBVIOUS
    <3>2. QED
      BY <3>1, DivMod
  <2>3. d * s \in Nat /\ RoundUp(AllocBeg) = d * s
    BY <1>1, <1>30, <2>2, MulNat DEF RoundUp
  <2>4. QED
    BY <2>1, <2>2, <2>3
<1>5. PICK h \in Int : h = (z + 1) * g
  <2>1. (z + 1) * g \in Int
    BY <1>2, MulNat
  <2>2. QED
    BY <2>1
<1>6. PICK j \in Nat : j = z * g
  BY <1>2, MulNat
<1>7. Max({up, j + w}) <= k /\ k < Min({h, v})
  BY <1>1, <1>3, <1>30, <1>31, <1>4, <1>5, <1>6 DEF IsFree
<1>8. up <= k /\ j + w <= k /\ k < v
  <2>1. PICK i \in Int, l \in Int : i = up /\ l = j + w
    OBVIOUS
  <2>2. Max({i, l}) >= i /\ Max({i, l}) >= l /\ Max({i, l}) \in Int
    BY MaxTwo
  <2>3. Min({h, v}) <= v /\ Min({h, v}) \in Int
    <3>1. v \in Int
      OBVIOUS
    <3>2. QED
      BY <3>1, MinTwo
  <2>4. QED
    BY <1>7, <2>1, <2>2, <2>3
<1>9. k + s <= v
  <2>1. k = (z * c + n) * s /\ z * c + n \in Nat
    <3>1. z * c \in Nat
      BY <1>2, MulNat
    <3>2. (z * c + n) * s = z * (c * s) + n * s
      BY <1>2
    <3>3. QED
      BY <1>1, <1>2, <1>4, <3>1, <3>2
  <2>2. PICK t \in Nat : t = z * c + n /\ k = t * s
    BY <2>1
  <2>3. t < q
    <3>1. ASSUME q <= t PROVE FALSE
      <4>1. q * s <= t * s
        BY <3>1, MulMono
      <4>2. QED
        BY <1>31, <1>8, <2>2, <4>1
    <3>2. QED
      BY <3>1
  <2>4. t * s + s <= q * s
    BY <2>3, MulStep
  <2>5. QED
    BY <1>31, <2>2, <2>4
<1>10. PICK m \in Nat : m = n * s
  BY <1>2, MulNat
<1>11. QED
  BY <1>1, <1>3, <1>30, <1>4, <1>6, <1>8, <1>9, <1>10

LEMMA SizeType ==
  ASSUME NEW r \in Radixes
  PROVE  Size(r) \in Nat \ {0} /\ (Size(r) <= FRAGS \/ Size(r) % FRAGS = 0)
BY RequestAssumption, Sizes

\* The blocks of an allocation in a segment.
LEMMA BlocksOf ==
  ASSUME NEW o \in 0..(SEGSIZE - 1), NEW r \in Radixes, Holds(o, r)
  PROVE  /\ o \div FRAGS \in Nat /\ NBlocks(r) \in Nat \ {0}
         /\ BlocksAt(o, r) = (o \div FRAGS)..(o \div FRAGS + NBlocks(r) - 1)
         /\ (o \div FRAGS) * FRAGS <= o
         /\ o + Size(r) <= (o \div FRAGS + NBlocks(r)) * FRAGS
         /\ o \div FRAGS + NBlocks(r) <= BLOCKS
         /\ Size(r) <= FRAGS => NBlocks(r) = 1
         /\ o + Size(r) <= SEGSIZE
<1>1. PICK f \in Nat \ {0}, m \in Nat \ {0}, s \in Nat \ {0} :
        f = FRAGS /\ m = BLOCKS /\ s = SEGSIZE /\ s = m * f
  BY Sizes
<1>2. PICK a \in Nat \ {0} : a = Size(r) /\ (a <= f \/ a % f = 0)
  BY <1>1, SizeType
<1>3. o \in Nat /\ o < s
  BY <1>1
<1>4. PICK b \in Nat, k \in 0..(f - 1) : b = o \div f /\ k = o % f /\ o = b * f + k
  <2>1. o \div f \in Nat /\ o % f \in 0..(f - 1) /\ o = (o \div f) * f + (o % f)
    BY <1>3, DivMod
  <2>2. QED
    BY <2>1
<1>5. b * f \in Nat
  BY MulNat
<1>6. PICK c \in Nat \ {0} :
        /\ c = NBlocks(r) /\ (a <= f => c = 1) /\ o + a <= (b + c) * f
        /\ o + a <= s
  <2>1. CASE a <= f
    <3>1. k + a <= f /\ NBlocks(r) = 1
      BY <1>1, <1>2, <1>4, <2>1 DEF Holds, NBlocks
    <3>2. b < m
      <4>1. ASSUME m <= b PROVE FALSE
        <5>1. m * f <= b * f
          BY <4>1, MulMono
        <5>2. QED
          BY <1>1, <1>3, <1>4, <1>5, <5>1
      <4>2. QED
        BY <4>1
    <3>3. b * f + f <= m * f
      BY <3>2, MulStep
    <3>4. (b + 1) * f = b * f + f
      OBVIOUS
    <3>5. o + a <= b * f + f
      BY <1>4, <1>5, <3>1
    <3>6. QED
      BY <1>1, <3>1, <3>3, <3>4, <3>5
  <2>2. CASE a > f
    <3>1. k = 0 /\ o + a <= s /\ NBlocks(r) = a \div f
      BY <1>1, <1>2, <1>4, <2>2 DEF Holds, NBlocks
    <3>2. PICK c \in Nat : c = a \div f /\ a = c * f
      <4>1. a \in Nat /\ a % f = 0
        BY <1>2, <2>2
      <4>2. QED
        BY <4>1, WholeBlocks
    <3>3. c # 0
      BY <2>2, <3>2
    <3>4. (b + c) * f = b * f + c * f
      OBVIOUS
    <3>5. QED
      BY <1>4, <1>5, <2>2, <3>1, <3>2, <3>3, <3>4
  <2>3. QED
    BY <2>1, <2>2
<1>7. b + c <= m
  <2>1. ASSUME m < b + c PROVE FALSE
    <3>1. CASE a <= f
      <4>1. m <= b
        BY <1>6, <2>1, <3>1
      <4>2. m * f <= b * f
        BY <4>1, MulMono
      <4>3. QED
        BY <1>1, <1>3, <1>4, <1>5, <4>2
    <3>2. CASE a > f
      <4>1. k = 0 /\ NBlocks(r) = a \div f
        BY <1>1, <1>2, <1>4, <3>2 DEF Holds, NBlocks
      <4>2. a = c * f
        <5>1. PICK x \in Nat : x = a \div f /\ a = x * f
          <6>1. a \in Nat /\ a % f = 0
            BY <1>2, <3>2
          <6>2. QED
            BY <6>1, WholeBlocks
        <5>2. QED
          BY <1>6, <4>1, <5>1
      <4>3. (b + c) * f = b * f + c * f
        OBVIOUS
      <4>4. m * f + f <= (b + c) * f
        BY <2>1, MulStep
      <4>5. QED
        BY <1>1, <1>4, <1>6, <4>1, <4>2, <4>3, <4>4
    <3>3. QED
      BY <3>1, <3>2
  <2>2. QED
    BY <2>1
<1>8. o % s = o
  BY <1>1, <1>3, DivUnique
<1>9. BlocksAt(o, r) = b..(b + c - 1)
  BY <1>1, <1>4, <1>6, <1>8 DEF BlocksAt
<1>10. b * f <= o
  BY <1>4, <1>5
<1>11. QED
  BY <1>1, <1>2, <1>4, <1>6, <1>7, <1>9, <1>10

LEMMA BlocksNat == Blocks = 0..(BLOCKS - 1) /\ Segs \subseteq Nat
BY Sizes DEF Blocks, Segs

LEMMA FirstBlock ==
  ASSUME NEW o \in 0..(SEGSIZE - 1), NEW r \in Radixes, Holds(o, r)
  PROVE  /\ o \div FRAGS \in BlocksAt(o, r) /\ BlocksAt(o, r) \subseteq Blocks
         /\ Size(r) <= FRAGS => BlocksAt(o, r) = {o \div FRAGS}
<1>1. PICK m \in Nat : m = BLOCKS
  BY Sizes
<1>2. PICK b \in Nat, c \in Nat \ {0} :
        /\ b = o \div FRAGS /\ b + c <= m /\ (Size(r) <= FRAGS => c = 1)
        /\ BlocksAt(o, r) = b..(b + c - 1)
  BY <1>1, BlocksOf
<1>3. ASSUME NEW i \in Nat, NEW j \in Nat \ {0}, i + j <= m
      PROVE  i \in i..(i + j - 1) /\ i..(i + j - 1) \subseteq 0..(m - 1)
             /\ (j = 1 => i..(i + j - 1) = {i})
  BY <1>3
<1>4. /\ b \in b..(b + c - 1) /\ b..(b + c - 1) \subseteq 0..(m - 1)
      /\ c = 1 => b..(b + c - 1) = {b}
  BY <1>2, <1>3
<1>5. QED
  BY <1>1, <1>2, <1>4, BlocksNat

\* Allocations in different blocks of a segment do not overlap.
LEMMA OtherBlocks ==
  ASSUME NEW o \in 0..(SEGSIZE - 1), NEW r \in Radixes, Holds(o, r),
         NEW p \in 0..(SEGSIZE - 1), NEW q \in Radixes, Holds(p, q),
         BlocksAt(o, r) \cap BlocksAt(p, q) = {}
  PROVE  o + Size(r) <= p \/ p + Size(q) <= o
<1>1. PICK f \in Nat \ {0} : f = FRAGS
  BY Sizes
<1>2. PICK a \in Nat \ {0}, c \in Nat \ {0} : a = Size(r) /\ c = Size(q)
  BY SizeType
<1>3. PICK b \in Nat, k \in Nat \ {0} :
        b * f <= o /\ o + a <= (b + k) * f /\ BlocksAt(o, r) = b..(b + k - 1)
  <2>1. /\ o \div FRAGS \in Nat /\ NBlocks(r) \in Nat \ {0}
        /\ BlocksAt(o, r) = (o \div FRAGS)..(o \div FRAGS + NBlocks(r) - 1)
        /\ (o \div FRAGS) * FRAGS <= o /\ o + Size(r) <= (o \div FRAGS + NBlocks(r)) * FRAGS
    BY BlocksOf
  <2>2. QED
    BY <1>1, <1>2, <2>1
<1>4. PICK d \in Nat, m \in Nat \ {0} :
        d * f <= p /\ p + c <= (d + m) * f /\ BlocksAt(p, q) = d..(d + m - 1)
  <2>1. /\ p \div FRAGS \in Nat /\ NBlocks(q) \in Nat \ {0}
        /\ BlocksAt(p, q) = (p \div FRAGS)..(p \div FRAGS + NBlocks(q) - 1)
        /\ (p \div FRAGS) * FRAGS <= p /\ p + Size(q) <= (p \div FRAGS + NBlocks(q)) * FRAGS
    BY BlocksOf
  <2>2. QED
    BY <1>1, <1>2, <2>1
<1>5. b + k <= d \/ d + m <= b
  <2>1. ASSUME d < b + k, b < d + m PROVE FALSE
    <3>1. CASE b <= d
      <4>1. d \in BlocksAt(o, r) /\ d \in BlocksAt(p, q)
        BY <1>3, <1>4, <2>1, <3>1
      <4>2. QED
        BY <4>1
    <3>2. CASE d < b
      <4>1. b \in BlocksAt(o, r) /\ b \in BlocksAt(p, q)
        BY <1>3, <1>4, <2>1, <3>2
      <4>2. QED
        BY <4>1
    <3>3. QED
      BY <3>1, <3>2
  <2>2. QED
    BY <2>1
<1>6. o \in Int /\ p \in Int
  BY Sizes
<1>7. CASE b + k <= d
  <2>1. PICK i \in Nat, j \in Nat, y \in Nat : y = b + k /\ i = y * f /\ j = d * f
    <3>1. (b + k) * f \in Nat /\ d * f \in Nat
      BY MulNat
    <3>2. QED
      BY <3>1
  <2>2. i <= j
    BY <1>7, <2>1, MulMono
  <2>3. o + a <= i /\ j <= p
    BY <1>3, <1>4, <2>1
  <2>4. QED
    BY <1>2, <1>6, <2>2, <2>3
<1>8. CASE d + m <= b
  <2>1. PICK i \in Nat, j \in Nat, y \in Nat : y = d + m /\ i = y * f /\ j = b * f
    <3>1. (d + m) * f \in Nat /\ b * f \in Nat
      BY MulNat
    <3>2. QED
      BY <3>1
  <2>2. i <= j
    BY <1>8, <2>1, MulMono
  <2>3. p + c <= i /\ j <= o
    BY <1>4, <1>3, <2>1
  <2>4. QED
    BY <1>2, <1>6, <2>2, <2>3
<1>9. QED
  BY <1>5, <1>7, <1>8

LEMMA ModTwice ==
  ASSUME NEW x \in Nat
  PROVE  (x % SEGSIZE) % SEGSIZE = x % SEGSIZE
<1>1. PICK s \in Nat \ {0} : s = SEGSIZE
  BY Sizes
<1>2. PICK y \in 0..(s - 1) : y = x % s
  BY DivMod
<1>3. y \in Nat /\ y = 0 * s + y
  OBVIOUS
<1>4. y % s = y
  BY <1>3, DivUnique
<1>5. QED
  BY <1>1, <1>2, <1>4

\* A reference that is where it should be.
LEMMA RefFacts ==
  ASSUME NEW e, e.off \in Nat, Placed(e)
  PROVE  /\ e.radix \in Radixes /\ ZoneOf(e.off) \in Zones /\ SegOf(e.off) \in Segs
         /\ Pos(e) \in 0..(SEGSIZE - 1) /\ Class(e.type, e.radix) \in Classes
         /\ BlocksAt(e.off, e.radix) = BlocksAt(Pos(e), e.radix)
         /\ BlocksAt(Pos(e), e.radix) \subseteq Blocks
         /\ Pos(e) \div FRAGS \in BlocksAt(Pos(e), e.radix)
         /\ Size(e.radix) <= FRAGS => BlocksAt(Pos(e), e.radix) = {Pos(e) \div FRAGS}
         /\ Pos(e) + Size(e.radix) <= SEGSIZE
<1>1. PICK q \in Requests : q = <<e.type, e.radix>>
  BY DEF Placed
<1>2. e.radix \in Radixes /\ Class(e.type, e.radix) \in Classes
  BY <1>1 DEF Radixes, Classes
<1>3. ZoneOf(e.off) \in Zones /\ SegOf(e.off) \in Segs /\ Pos(e) \in 0..(SEGSIZE - 1)
  BY SegParts DEF Placed, Pos
<1>4. BlocksAt(e.off, e.radix) = BlocksAt(Pos(e), e.radix)
  BY ModTwice DEF BlocksAt, Pos
<1>5. Holds(Pos(e), e.radix)
  BY DEF Placed
<1>6. Pos(e) + Size(e.radix) <= SEGSIZE
  BY <1>2, <1>3, <1>5, BlocksOf
<1>7. QED
  BY <1>2, <1>3, <1>4, <1>5, <1>6, FirstBlock

\* A new one.
LEMMA NewRef ==
  ASSUME NEW z \in Zones, NEW n \in Segs, IsFree(z, n), NEW o \in 0..(SEGSIZE - 1),
         NEW e, e.off = z * ZONE + n * SEGSIZE + o,
         <<e.type, e.radix>> \in Requests, Holds(o, e.radix)
  PROVE  Placed(e) /\ In(e, z, n) /\ Pos(e) = o /\ e.off \in 0..(VoluSize - 1)
<1>1. z \in Nat
  BY ZonesNat
<1>2. e.off \in Nat /\ ZoneOf(e.off) = z /\ SegOf(e.off) = n /\ Pos(e) = o
  BY <1>1, SegAt DEF Pos
<1>3. e.off < VoluSize
  <2>1. PICK s \in Nat \ {0}, g \in Nat \ {0} : s = SEGSIZE /\ g = ZONE
    BY Sizes
  <2>2. n \in Nat
    BY BlocksNat
  <2>3. PICK i \in Nat, j \in Nat : i = z * g /\ j = n * s
    BY <1>1, <2>2, MulNat
  <2>4. i + j + s <= VoluSize /\ VoluSize \in Nat
    BY <2>1, <2>3, FreeSegment, GeometryAssumption
  <2>5. QED
    BY <2>1, <2>3, <2>4
<1>4. QED
  BY <1>2, <1>3, GeometryAssumption DEF Placed, In

-----------------------------------------------------------------------------
(* The bitmap of a segment *)

LEMMA BmapType ==
  ASSUME NEW bm \in Bmap
  PROVE  /\ bm.linear \in 0..SEGSIZE /\ bm.linear \in Nat /\ bm.class \in Classes \cup {NULL}
         /\ bm.avail \in 0..(AvailMod - 1) /\ bm.bits \subseteq Blocks
BY Sizes DEF Bmap

LEMMA AvailNat == AvailMod \in Nat \ {0}
BY SMT DEF AvailMod

LEMMA ClassType ==
  ASSUME NEW type, NEW r, <<type, r>> \in Requests
  PROVE  /\ Class(type, r) \in Classes /\ Class(type, r) # NULL /\ r \in Radixes
         /\ Class(type, r)[2] = DevBlk(r)
<1>1. PICK q \in Requests : q = <<type, r>>
  OBVIOUS
<1>2. Class(type, r) \in Classes /\ r \in Radixes
  BY <1>1 DEF Classes, Radixes
<1>3. QED
  BY <1>2, RequestAssumption DEF Class

\* hammer2_bmap_alloc takes the place of the iterator, or blocks that are free.
LEMMA OffsetHolds ==
  ASSUME NEW bm \in Bmap, NEW r \in Radixes, NEW o \in 0..(SEGSIZE - 1), IsOffset(bm, r, o)
  PROVE  /\ Holds(o, r)
         /\ \/ LinearFits(bm, r) /\ o = bm.linear /\ bm.linear % FRAGS # 0 /\ Size(r) <= FRAGS
            \/ ~LinearFits(bm, r) /\ BlocksAt(o, r) \cap bm.bits = {}
<1>1. PICK f \in Nat \ {0}, m \in Nat \ {0}, s \in Nat \ {0} :
        f = FRAGS /\ m = BLOCKS /\ s = SEGSIZE /\ s = m * f
  BY Sizes
<1>2. PICK a \in Nat \ {0} : a = Size(r) /\ (a <= f \/ a % f = 0)
  BY <1>1, SizeType
<1>3. CASE LinearFits(bm, r)
  <2>1. o = bm.linear /\ (o % f) + a <= f /\ o % f # 0
    BY <1>1, <1>2, <1>3 DEF IsOffset, LinearFits
  <2>2. o \in Nat
    BY Sizes
  <2>3. PICK k \in 0..(f - 1) : k = o % f
    BY <2>2, DivMod
  <2>4. a <= f
    BY <2>1, <2>3
  <2>5. QED
    BY <1>1, <1>2, <1>3, <2>1, <2>4 DEF Holds
<1>4. CASE ~LinearFits(bm, r)
  <2>1. PICK b \in Blocks : o = b * f /\ FreeAt(bm, r, b)
    BY <1>1, <1>4 DEF IsOffset
  <2>2. b \in Nat /\ b < m
    BY <1>1, BlocksNat
  <2>3. o \in Nat
    BY Sizes
  <2>4. o \div f = b /\ o % f = 0
    BY <2>1, <2>2, <2>3, DivUnique
  <2>5. PICK c \in Nat \ {0} : c = NBlocks(r) /\ (a > f => a = c * f)
    <3>1. CASE a <= f
      BY <1>1, <1>2, <3>1 DEF NBlocks
    <3>2. CASE a > f
      <4>1. a \in Nat /\ a % f = 0
        BY <1>2, <3>2
      <4>2. PICK q \in Nat : q = a \div f /\ a = q * f
        BY <4>1, WholeBlocks
      <4>3. q # 0 /\ NBlocks(r) = q
        BY <1>1, <1>2, <3>2, <4>2 DEF NBlocks
      <4>4. QED
        BY <4>2, <4>3
    <3>3. QED
      BY <3>1, <3>2
  <2>6. b..(b + c - 1) \subseteq (0..(m - 1)) \ bm.bits
    BY <1>1, <2>1, <2>5, BlocksNat DEF FreeAt
  <2>7. b + c <= m
    <3>1. b + c - 1 \in b..(b + c - 1)
      BY <2>2
    <3>2. b + c - 1 \in 0..(m - 1)
      BY <2>6, <3>1
    <3>3. QED
      BY <2>2, <3>2
  <2>8. Holds(o, r)
    <3>1. CASE a <= f
      BY <1>1, <1>2, <2>4, <3>1 DEF Holds
    <3>2. CASE a > f
      <4>1. PICK y \in Nat : y = b + c
        BY <2>2
      <4>2. y * f <= m * f
        BY <2>7, <4>1, MulMono
      <4>3. y * f = b * f + c * f
        BY <2>2, <4>1
      <4>4. o + a <= s
        BY <1>1, <2>1, <2>5, <3>2, <4>2, <4>3
      <4>5. QED
        BY <1>1, <1>2, <2>4, <3>2, <4>4 DEF Holds
    <3>3. QED
      BY <3>1, <3>2
  <2>9. BlocksAt(o, r) = b..(b + c - 1)
    BY <1>1, <2>4, <2>5, <2>8, BlocksOf
  <2>10. QED
    BY <1>4, <2>6, <2>8, <2>9
<1>5. QED
  BY <1>3, <1>4

\* It finds nothing in a segment that is reserved.
LEMMA OffsetFree ==
  ASSUME NEW bm \in Bmap, NEW r \in Radixes, NEW o \in 0..(SEGSIZE - 1), IsOffset(bm, r, o),
         NEW z, NEW n, Shape(TRUE, bm, z, n)
  PROVE  IsFree(z, n)
<1>1. SUFFICES ASSUME bm.bits = Blocks, bm.linear = SEGSIZE PROVE FALSE
  BY DEF Shape
<1>2. Holds(o, r) /\ BlocksAt(o, r) \cap Blocks = {}
  <2>1. ~LinearFits(bm, r)
    BY <1>1, Sizes DEF LinearFits
  <2>2. QED
    BY <1>1, <2>1, OffsetHolds
<1>3. o \div FRAGS \in BlocksAt(o, r) /\ o \div FRAGS \in Blocks
  BY <1>2, FirstBlock
<1>4. QED
  BY <1>2, <1>3

\* A leaf that is created.
LEMMA NewSegment ==
  ASSUME NEW z \in Zones, NEW n \in Segs, NEW bm, bm = NewLeaf(z).bmap[n]
  PROVE  /\ bm \in Bmap /\ bm.class = NULL /\ Shape(TRUE, bm, z, n)
         /\ bm.linear % FRAGS = 0 /\ NewLeaf(z) \in Leaf /\ NewLeaf(z).made
<1>1. SEGSIZE % FRAGS = 0 /\ 0 % FRAGS = 0
  <2>1. PICK f \in Nat \ {0}, m \in Nat \ {0}, s \in Nat \ {0} :
          f = FRAGS /\ m = BLOCKS /\ s = SEGSIZE /\ s = m * f
    BY Sizes
  <2>2. s % f = 0 /\ 0 % f = 0
    BY <2>1, DivUnique
  <2>3. QED
    BY <2>1, <2>2
<1>2. SEGSIZE \in 0..SEGSIZE /\ 0 \in 0..SEGSIZE /\ SEGSIZE \in 0..(AvailMod - 1) /\ 0 \in 0..(AvailMod - 1)
  BY Sizes, RequestAssumption, AvailNat
<1>3. ASSUME NEW k \in Segs PROVE NewLeaf(z).bmap[k] \in Bmap
  BY <1>2 DEF NewLeaf, Bmap
<1>4. NewLeaf(z) \in Leaf /\ NewLeaf(z).made
  BY <1>3 DEF NewLeaf, Leaf
<1>5. bm = [linear |-> IF IsFree(z, n) THEN 0 ELSE SEGSIZE, class |-> NULL,
            avail |-> IF IsFree(z, n) THEN SEGSIZE ELSE 0,
            bits |-> IF IsFree(z, n) THEN {} ELSE Blocks]
  BY DEF NewLeaf
<1>6. CASE IsFree(z, n)
  <2>1. bm.linear = 0 /\ bm.class = NULL /\ bm.bits = {}
    BY <1>5, <1>6
  <2>2. QED
    BY <1>1, <1>3, <1>4, <1>6, <2>1 DEF Shape
<1>7. CASE ~IsFree(z, n)
  <2>1. bm.linear = SEGSIZE /\ bm.class = NULL /\ bm.bits = Blocks
    BY <1>5, <1>7
  <2>2. QED
    BY <1>1, <1>3, <1>4, <1>7, <2>1 DEF Shape
<1>8. QED
  BY <1>6, <1>7

-----------------------------------------------------------------------------
(* An allocation: leaves are created, then one segment changes *)

\* Some leaves that were missing have been created.
Opened(old, new) ==
  \A z \in Zones :
    \/ new[z].made = old[z].made /\ new[z].bmap = old[z].bmap
    \/ ~old[z].made /\ new[z].made /\ new[z].bmap = NewLeaf(z).bmap

LEMMA OpenedInv ==
  ASSUME NEW old, NEW new, NEW refs, MapInv(old, refs), Opened(old, new)
  PROVE  /\ MapInv(new, refs) /\ Below(old, new)
         /\ \A z \in Zones, n \in Segs :
              new[z].bmap[n].linear % FRAGS # 0 => new[z].bmap[n] = old[z].bmap[n]
<1>1. SUFFICES ASSUME NEW z \in Zones, NEW n \in Segs
               PROVE  /\ Shape(new[z].made, new[z].bmap[n], z, n)
                      /\ Uniform(new[z].bmap[n], z, n, refs)
                      /\ Under(old[z].bmap[n], new[z].bmap[n])
                      /\ new[z].bmap[n].linear % FRAGS # 0 => new[z].bmap[n] = old[z].bmap[n]
  BY DEF MapInv, Below
<1>2. PICK a, b, i, j : a = old[z].bmap[n] /\ b = new[z].bmap[n] /\ i = old[z].made /\ j = new[z].made
  OBVIOUS
<1>3. Shape(i, a, z, n) /\ Uniform(a, z, n, refs)
  BY <1>2 DEF MapInv
<1>4. CASE j = i /\ b = a
  BY <1>2, <1>3, <1>4 DEF Under
<1>5. CASE ~i /\ j /\ b = NewLeaf(z).bmap[n]
  <2>1. b.class = NULL /\ Shape(TRUE, b, z, n) /\ b.linear % FRAGS = 0
    BY <1>5, NewSegment
  <2>2. a.bits = {} /\ a.class = NULL
    BY <1>3, <1>5 DEF Shape
  <2>3. Shape(j, b, z, n) /\ Uniform(b, z, n, refs) /\ Under(a, b)
    BY <1>5, <2>1, <2>2 DEF Shape, Uniform, Under
  <2>4. QED
    BY <1>2, <2>1, <2>3
<1>6. QED
  BY <1>2, <1>4, <1>5 DEF Opened

\* hammer2_bmap_alloc gives e the place o of segment n in zone z.
Taken(old, new, z, n, o, e) ==
  /\ z \in Zones /\ n \in Segs /\ o \in 0..(SEGSIZE - 1) /\ <<e.type, e.radix>> \in Requests
  /\ e.off = z * ZONE + n * SEGSIZE + o
  /\ old[z].made /\ old[z].bmap[n] \in Bmap
  /\ old[z].bmap[n].class \in {NULL, Class(e.type, e.radix)}
  /\ IsOffset(old[z].bmap[n], e.radix, o)
  /\ \A y \in Zones : new[y].made = old[y].made
  /\ \A y \in Zones, m \in Segs : new[y].bmap[m] =
       IF y = z /\ m = n THEN BmapAfter(old[z].bmap[n], Class(e.type, e.radix), e.radix, o)
                         ELSE old[y].bmap[m]

LEMMA ModType ==
  ASSUME NEW a \in Int, NEW m \in Nat \ {0}
  PROVE  a % m \in 0..(m - 1)
OBVIOUS

\* What is known of the place and of the segment afterwards.
LEMMA TakenPlace ==
  ASSUME NEW old, NEW new, NEW z, NEW n, NEW o, NEW e, Taken(old, new, z, n, o, e),
         NEW refs, MapInv(old, refs)
  PROVE  /\ e.radix \in Radixes /\ IsFree(z, n) /\ Holds(o, e.radix)
         /\ Placed(e) /\ In(e, z, n) /\ Pos(e) = o /\ e.off \in 0..(VoluSize - 1) /\ e.off \in Nat
         /\ Class(e.type, e.radix) \in Classes /\ Class(e.type, e.radix) # NULL
         /\ new[z].bmap[n].bits = old[z].bmap[n].bits \cup BlocksAt(o, e.radix)
         /\ new[z].bmap[n].class = Class(e.type, e.radix)
         /\ new[z].bmap[n].linear = IF Size(e.radix) < FRAGS THEN o + Size(e.radix)
                                                            ELSE old[z].bmap[n].linear
         /\ new[z].bmap[n] \in Bmap
         /\ o \div FRAGS \in BlocksAt(o, e.radix) /\ BlocksAt(o, e.radix) \subseteq Blocks
<1>1. PICK bm \in Bmap : bm = old[z].bmap[n]
  BY DEF Taken
<1>2. PICK r, c : r = e.radix /\ c = Class(e.type, e.radix)
  OBVIOUS
<1>3. z \in Zones /\ n \in Segs /\ o \in 0..(SEGSIZE - 1) /\ IsOffset(bm, r, o)
  BY <1>1, <1>2 DEF Taken
<1>4. r \in Radixes /\ c \in Classes /\ c # NULL
  BY <1>2, ClassType DEF Taken
<1>5. Shape(TRUE, bm, z, n)
  BY <1>1, <1>3 DEF Taken, MapInv
<1>6. IsFree(z, n) /\ Holds(o, r)
  BY <1>3, <1>4, <1>5, OffsetFree, OffsetHolds
<1>7. Placed(e) /\ In(e, z, n) /\ Pos(e) = o /\ e.off \in 0..(VoluSize - 1)
  BY <1>2, <1>3, <1>6, NewRef DEF Taken
<1>8. o \div FRAGS \in BlocksAt(o, r) /\ BlocksAt(o, r) \subseteq Blocks
  BY <1>3, <1>4, <1>6, FirstBlock
<1>9. PICK l \in 0..SEGSIZE : l = IF Size(r) < FRAGS THEN o + Size(r) ELSE bm.linear
  <2>1. o + Size(r) <= SEGSIZE /\ Size(r) \in Nat /\ o \in Nat
    BY <1>3, <1>4, <1>6, BlocksOf, SizeType, Sizes
  <2>2. o + Size(r) \in 0..SEGSIZE
    BY <2>1, Sizes
  <2>3. bm.linear \in 0..SEGSIZE
    BY BmapType
  <2>4. QED
    BY <2>2, <2>3
<1>10. PICK v \in 0..(AvailMod - 1) : v = (bm.avail - Size(r)) % AvailMod
  <2>1. bm.avail \in 0..(AvailMod - 1) /\ Size(r) \in Nat
    BY <1>4, BmapType, SizeType
  <2>2. PICK x \in Int : x = bm.avail - Size(r)
    BY <2>1, AvailNat
  <2>3. x % AvailMod \in 0..(AvailMod - 1)
    BY AvailNat, ModType
  <2>4. QED
    BY <2>2, <2>3
<1>11. new[z].bmap[n] = [linear |-> l, class |-> c, avail |-> v, bits |-> bm.bits \cup BlocksAt(o, r)]
  BY <1>1, <1>2, <1>3, <1>9, <1>10 DEF Taken, BmapAfter
<1>12. bm.bits \cup BlocksAt(o, r) \subseteq Blocks
  BY <1>8, BmapType
<1>13. new[z].bmap[n] \in Bmap
  BY <1>4, <1>11, <1>12 DEF Bmap
<1>14. e.off \in Nat
  BY <1>7, GeometryAssumption
<1>15. QED
  BY <1>1, <1>2, <1>4, <1>6, <1>7, <1>8, <1>9, <1>11, <1>13, <1>14

LEMMA TakenInv ==
  ASSUME NEW old, NEW new, NEW z, NEW n, NEW o, NEW e, Taken(old, new, z, n, o, e),
         NEW refs, MapInv(old, refs), OneClass(refs),
         \A f \in refs : f.off \in Nat /\ Placed(f) /\ MarkedIn(old, f)
  PROVE  /\ MapInv(new, refs \cup {e}) /\ Below(old, new)
         /\ \A f \in refs \cup {e} : MarkedIn(new, f)
         /\ OneClass(refs \cup {e})
<1>1. PICK c, r, a, b : c = Class(e.type, e.radix) /\ r = e.radix
                        /\ a = old[z].bmap[n] /\ b = new[z].bmap[n]
  OBVIOUS
<1>2. /\ IsFree(z, n) /\ In(e, z, n) /\ Pos(e) = o /\ c # NULL /\ Placed(e) /\ e.off \in Nat
      /\ b.bits = a.bits \cup BlocksAt(o, r) /\ b.class = c /\ o \div FRAGS \in BlocksAt(o, r)
  BY <1>1, TakenPlace
<1>3. z \in Zones /\ n \in Segs /\ old[z].made /\ new[z].made /\ a.class \in {NULL, c}
  BY <1>1 DEF Taken
<1>4. ASSUME NEW f \in refs, In(f, z, n) PROVE Class(f.type, f.radix) = c
  <2>1. a.bits # {}
    <3>1. BlocksAt(f.off, f.radix) \subseteq a.bits
      BY <1>1, <1>4 DEF MarkedIn, In
    <3>2. Pos(f) \div FRAGS \in BlocksAt(f.off, f.radix)
      BY RefFacts
    <3>3. QED
      BY <3>1, <3>2
  <2>2. a.class # NULL /\ a.class \in {NULL, Class(f.type, f.radix)}
    BY <1>1, <1>2, <1>3, <1>4, <2>1 DEF MapInv, Shape, Uniform
  <2>3. QED
    BY <1>3, <2>2
<1>5. OneClass(refs \cup {e})
  <2>1. SUFFICES ASSUME NEW f \in refs \cup {e}, NEW g \in refs \cup {e},
                        In(g, ZoneOf(f.off), SegOf(f.off))
                 PROVE  Class(g.type, g.radix) = Class(f.type, f.radix)
    BY DEF OneClass
  <2>2. CASE f \in refs /\ g \in refs
    BY <2>1, <2>2 DEF OneClass
  <2>3. CASE f = e
    BY <1>1, <1>2, <1>4, <2>1, <2>3 DEF In
  <2>4. CASE g = e
    BY <1>1, <1>2, <1>4, <2>1, <2>4 DEF In
  <2>5. QED
    BY <2>2, <2>3, <2>4
<1>6. MapInv(new, refs \cup {e})
  <2>1. SUFFICES ASSUME NEW y \in Zones, NEW m \in Segs
                 PROVE  /\ Shape(new[y].made, new[y].bmap[m], y, m)
                        /\ Uniform(new[y].bmap[m], y, m, refs \cup {e})
    BY DEF MapInv
  <2>2. CASE y = z /\ m = n
    <3>1. Shape(TRUE, b, z, n)
      BY <1>2 DEF Shape
    <3>2. Uniform(b, z, n, refs \cup {e})
      BY <1>1, <1>2, <1>4 DEF Uniform
    <3>3. QED
      BY <1>1, <1>3, <2>2, <3>1, <3>2 DEF Shape
  <2>3. CASE ~(y = z /\ m = n)
    <3>1. new[y].made = old[y].made /\ new[y].bmap[m] = old[y].bmap[m]
      BY <2>3 DEF Taken
    <3>2. Shape(old[y].made, old[y].bmap[m], y, m) /\ Uniform(old[y].bmap[m], y, m, refs)
      BY DEF MapInv
    <3>3. ~In(e, y, m)
      BY <1>2, <2>3 DEF In
    <3>4. QED
      BY <3>1, <3>2, <3>3 DEF Uniform
  <2>4. QED
    BY <2>2, <2>3
<1>7. Below(old, new)
  <2>1. SUFFICES ASSUME NEW y \in Zones, NEW m \in Segs
                 PROVE  Under(old[y].bmap[m], new[y].bmap[m])
    BY DEF Below
  <2>2. CASE y = z /\ m = n
    BY <1>1, <1>2, <1>3, <2>2 DEF Under
  <2>3. CASE ~(y = z /\ m = n)
    BY <2>3 DEF Taken, Under
  <2>4. QED
    BY <2>2, <2>3
<1>8. ASSUME NEW f \in refs PROVE MarkedIn(new, f)
  <2>1. ZoneOf(f.off) \in Zones /\ SegOf(f.off) \in Segs /\ MarkedIn(old, f)
    BY RefFacts
  <2>2. QED
    BY <1>7, <2>1 DEF MarkedIn, Below, Under
<1>9. MarkedIn(new, e)
  <2>1. BlocksAt(e.off, e.radix) = BlocksAt(o, r)
    BY <1>1, <1>2, RefFacts
  <2>2. QED
    BY <1>1, <1>2, <2>1 DEF MarkedIn, In
<1>10. QED
  BY <1>5, <1>6, <1>7, <1>8, <1>9

\* The place is not behind the end of a reference that is there.
LEMMA TakenApart ==
  ASSUME NEW old, NEW new, NEW z, NEW n, NEW o, NEW e, Taken(old, new, z, n, o, e),
         NEW refs, MapInv(old, refs),
         NEW f \in refs, f.off \in Nat, Placed(f), MarkedIn(old, f), In(f, z, n),
         NEW mems, f \in mems, Iterator(old[z].bmap[n], z, n, mems)
  PROVE  /\ o + Size(e.radix) <= Pos(f) \/ Pos(f) + Size(f.radix) <= o
         /\ Pos(f) \div FRAGS = o \div FRAGS => Pos(f) + Size(f.radix) <= o
<1>0. e.radix \in Radixes /\ Holds(o, e.radix) /\ o \div FRAGS \in BlocksAt(o, e.radix)
  BY TakenPlace
<1>1. PICK a \in Bmap, r \in Radixes : a = old[z].bmap[n] /\ r = e.radix
  BY <1>0 DEF Taken
<1>2. o \in 0..(SEGSIZE - 1) /\ Holds(o, r) /\ IsOffset(a, r, o) /\ o \div FRAGS \in BlocksAt(o, r)
  BY <1>0, <1>1 DEF Taken
<1>3. PICK p \in 0..(SEGSIZE - 1), q \in Radixes : p = Pos(f) /\ q = f.radix
  BY RefFacts
<1>4. /\ Holds(p, q) /\ BlocksAt(p, q) \subseteq a.bits /\ p \div FRAGS \in BlocksAt(p, q)
  <2>1. BlocksAt(f.off, f.radix) = BlocksAt(p, q) /\ p \div FRAGS \in BlocksAt(p, q)
    BY <1>3, RefFacts
  <2>2. QED
    BY <1>1, <1>3, <2>1 DEF Placed, MarkedIn, In
<1>5. CASE BlocksAt(o, r) \cap a.bits = {}
  <2>1. BlocksAt(o, r) \cap BlocksAt(p, q) = {}
    BY <1>4, <1>5
  <2>2. o + Size(r) <= p \/ p + Size(q) <= o
    BY <1>2, <1>4, <2>1, OtherBlocks
  <2>3. p \div FRAGS # o \div FRAGS
    BY <1>2, <1>4, <2>1
  <2>4. QED
    BY <1>1, <1>3, <2>2, <2>3
<1>6. CASE o = a.linear /\ a.linear % FRAGS # 0 /\ Size(r) <= FRAGS
  <2>1. /\ a.class # NULL /\ a.class[2] = "LBUF"
        /\ p \div FRAGS = a.linear \div FRAGS => p + Size(q) <= a.linear
    BY <1>1, <1>3, <1>6 DEF Iterator
  <2>2. Size(q) <= FRAGS
    <3>1. a.class = Class(f.type, f.radix)
      BY <1>1, <2>1 DEF Taken, MapInv, Uniform
    <3>2. Class(f.type, f.radix)[2] = DevBlk(q)
      BY <1>3 DEF Class
    <3>3. QED
      BY <2>1, <3>1, <3>2 DEF DevBlk
  <2>3. CASE p \div FRAGS = o \div FRAGS
    BY <1>1, <1>3, <1>6, <2>1, <2>3
  <2>4. CASE p \div FRAGS # o \div FRAGS
    <3>1. BlocksAt(o, r) = {o \div FRAGS} /\ BlocksAt(p, q) = {p \div FRAGS}
      BY <1>2, <1>4, <1>6, <2>2, FirstBlock
    <3>2. BlocksAt(o, r) \cap BlocksAt(p, q) = {}
      BY <2>4, <3>1
    <3>3. o + Size(r) <= p \/ p + Size(q) <= o
      BY <1>2, <1>4, <3>2, OtherBlocks
    <3>4. QED
      BY <1>1, <1>3, <2>4, <3>3
  <2>5. QED
    BY <2>3, <2>4
<1>7. QED
  BY <1>1, <1>2, <1>5, <1>6, OffsetHolds

\* Where the iterator gets inside a block.
LEMMA Advance ==
  ASSUME NEW o \in 0..(SEGSIZE - 1), NEW r \in Radixes, Holds(o, r), Size(r) < FRAGS,
         NEW l, l = o + Size(r), l % FRAGS # 0
  PROVE  l \div FRAGS = o \div FRAGS
<1>1. PICK f \in Nat \ {0} : f = FRAGS
  BY Sizes
<1>2. PICK a \in Nat \ {0} : a = Size(r)
  BY SizeType
<1>3. o \in Nat
  BY Sizes
<1>4. PICK b \in Nat, k \in 0..(f - 1) : b = o \div f /\ k = o % f /\ o = b * f + k
  <2>1. o \div f \in Nat /\ o % f \in 0..(f - 1) /\ o = (o \div f) * f + (o % f)
    BY <1>3, DivMod
  <2>2. QED
    BY <2>1
<1>5. k + a <= f
  BY <1>1, <1>2, <1>4 DEF Holds
<1>6. PICK i \in Nat : i = b * f
  BY MulNat
<1>7. l \in Nat /\ l = i + (k + a)
  BY <1>2, <1>3, <1>4, <1>6
<1>8. CASE k + a = f
  <2>1. l = (b + 1) * f /\ b + 1 \in Nat
    BY <1>6, <1>7, <1>8
  <2>2. PICK c \in Nat : c = b + 1 /\ l = c * f
    BY <2>1
  <2>3. l % f = 0
    BY <2>2, ModExact
  <2>4. QED
    BY <1>1, <2>3
<1>9. CASE k + a < f
  <2>1. PICK j \in 0..(f - 1) : j = k + a /\ l = b * f + j
    BY <1>6, <1>7, <1>9
  <2>2. l \div f = b
    BY <1>7, <2>1, DivUnique
  <2>3. QED
    BY <1>1, <1>4, <2>2
<1>10. QED
  BY <1>5, <1>8, <1>9

LEMMA TakenOnce ==
  ASSUME NEW old, NEW new, NEW z, NEW n, NEW o, NEW e, Taken(old, new, z, n, o, e),
         NEW refs, MapInv(old, refs),
         \A f \in refs : f.off \in Nat /\ Placed(f) /\ MarkedIn(old, f),
         NEW mems, mems \subseteq refs, \A f, g \in mems : f # g => Apart(f, g),
         \A y \in Zones, m \in Segs : Iterator(old[y].bmap[m], y, m, mems)
  PROVE  /\ \A f, g \in mems \cup {e} : f # g => Apart(f, g)
         /\ \A y \in Zones, m \in Segs : Iterator(new[y].bmap[m], y, m, mems \cup {e})
<1>0. e.radix \in Radixes
  BY TakenPlace
<1>1. PICK a \in Bmap, r \in Radixes, c \in {Class(e.type, e.radix)} :
        a = old[z].bmap[n] /\ r = e.radix /\ c = Class(e.type, e.radix)
  BY <1>0 DEF Taken
<1>2. PICK b : b = new[z].bmap[n]
  OBVIOUS
<1>3. /\ In(e, z, n) /\ Pos(e) = o /\ c # NULL /\ Holds(o, r)
      /\ b.bits = a.bits \cup BlocksAt(o, r) /\ b.class = c /\ o \div FRAGS \in BlocksAt(o, r)
      /\ b.linear = IF Size(r) < FRAGS THEN o + Size(r) ELSE a.linear
  BY <1>1, <1>2, TakenPlace
<1>4. z \in Zones /\ n \in Segs /\ o \in 0..(SEGSIZE - 1) /\ a.class \in {NULL, c} /\ IsOffset(a, r, o)
  BY <1>1 DEF Taken
<1>5. ASSUME NEW f \in mems, In(f, z, n)
      PROVE  /\ o + Size(r) <= Pos(f) \/ Pos(f) + Size(f.radix) <= o
             /\ Pos(f) \div FRAGS = o \div FRAGS => Pos(f) + Size(f.radix) <= o
  <2>1. f \in refs /\ f.off \in Nat /\ Placed(f) /\ MarkedIn(old, f)
    OBVIOUS
  <2>2. Iterator(old[z].bmap[n], z, n, mems)
    BY <1>4
  <2>3. QED
    BY <1>1, <1>5, <2>1, <2>2, TakenApart
<1>6. ASSUME NEW f \in mems \cup {e}, NEW g \in mems \cup {e}, f # g PROVE Apart(f, g)
  <2>1. CASE f \in mems /\ g \in mems
    BY <1>6, <2>1
  <2>2. CASE f = e /\ g \in mems
    BY <1>1, <1>3, <1>5, <2>2 DEF Apart, In
  <2>3. CASE g = e /\ f \in mems
    BY <1>1, <1>3, <1>5, <2>3 DEF Apart, In
  <2>4. QED
    BY <1>6, <2>1, <2>2, <2>3
<1>7. Iterator(b, z, n, mems \cup {e})
  <2>1. SUFFICES ASSUME b.linear % FRAGS # 0
                 PROVE  /\ b.linear \div FRAGS \in b.bits
                        /\ b.class # NULL /\ b.class[2] = "LBUF"
                        /\ \A f \in mems \cup {e} :
                             In(f, z, n) /\ Pos(f) \div FRAGS = b.linear \div FRAGS =>
                               Pos(f) + Size(f.radix) <= b.linear
    BY DEF Iterator
  <2>2. CASE Size(r) < FRAGS
    <3>1. PICK l : l = b.linear /\ l = o + Size(r) /\ l % FRAGS # 0
      BY <1>3, <2>1, <2>2
    <3>2. l \div FRAGS = o \div FRAGS
      BY <1>3, <1>4, <2>2, <3>1, Advance
    <3>3. c[2] = "LBUF"
      <4>1. c[2] = DevBlk(r)
        BY <1>1 DEF Class
      <4>2. Size(r) \in Nat /\ FRAGS \in Nat
        BY SizeType, Sizes
      <4>3. QED
        BY <2>2, <4>1, <4>2 DEF DevBlk
    <3>4. ASSUME NEW f \in mems \cup {e}, In(f, z, n), Pos(f) \div FRAGS = o \div FRAGS
          PROVE  Pos(f) + Size(f.radix) <= l
      <4>1. o \in Nat /\ Size(r) \in Nat
        BY <1>4, SizeType, Sizes
      <4>2. CASE f = e
        BY <1>1, <1>3, <3>1, <4>1, <4>2
      <4>3. CASE f \in mems
        <5>1. Pos(f) + Size(f.radix) <= o
          BY <1>5, <3>4, <4>3
        <5>2. Pos(f) \in 0..(SEGSIZE - 1) /\ f.radix \in Radixes
          BY <4>3, RefFacts
        <5>3. Pos(f) \in Nat /\ Size(f.radix) \in Nat
          BY <5>2, SizeType, Sizes
        <5>4. QED
          BY <3>1, <4>1, <5>1, <5>3
      <4>4. QED
        BY <4>2, <4>3
    <3>5. QED
      BY <1>3, <3>1, <3>2, <3>3, <3>4
  <2>3. CASE ~(Size(r) < FRAGS)
    <3>1. b.linear = a.linear
      BY <1>3, <2>3
    <3>2. /\ a.linear \div FRAGS \in a.bits /\ a.class # NULL /\ a.class[2] = "LBUF"
          /\ \A f \in mems : In(f, z, n) /\ Pos(f) \div FRAGS = a.linear \div FRAGS =>
                               Pos(f) + Size(f.radix) <= a.linear
      BY <1>1, <1>4, <2>1, <3>1 DEF Iterator
    <3>3. ~LinearFits(a, r)
      <4>1. PICK f \in Nat \ {0}, s \in Nat \ {0} : f = FRAGS /\ s = Size(r) /\ f <= s
        BY <2>3, SizeType, Sizes
      <4>2. PICK k \in 0..(f - 1) : k = a.linear % f
        BY BmapType, DivMod
      <4>3. QED
        BY <4>1, <4>2 DEF LinearFits
    <3>4. BlocksAt(o, r) \cap a.bits = {}
      BY <1>4, <3>3, OffsetHolds
    <3>5. o \div FRAGS # a.linear \div FRAGS
      BY <1>3, <3>2, <3>4
    <3>6. QED
      BY <1>3, <1>4, <3>1, <3>2, <3>5
  <2>4. QED
    BY <2>2, <2>3
<1>8. ASSUME NEW y \in Zones, NEW m \in Segs PROVE Iterator(new[y].bmap[m], y, m, mems \cup {e})
  <2>1. CASE y = z /\ m = n
    BY <1>2, <1>7, <2>1
  <2>2. CASE ~(y = z /\ m = n)
    <3>1. new[y].bmap[m] = old[y].bmap[m] /\ ~In(e, y, m)
      BY <1>3, <2>2 DEF Taken, In
    <3>2. Iterator(old[y].bmap[m], y, m, mems)
      OBVIOUS
    <3>3. QED
      BY <3>1, <3>2 DEF Iterator
  <2>3. QED
    BY <2>1, <2>2
<1>9. QED
  BY <1>6, <1>8

\* An older freemap, in the presence of a new reference.
LEMMA OlderInv ==
  ASSUME NEW older, NEW new, NEW refs, NEW e, NEW z, NEW n, In(e, z, n),
         MapInv(older, refs), Below(older, new),
         new[z].bmap[n].class = Class(e.type, e.radix)
  PROVE  MapInv(older, refs \cup {e})
<1>1. SUFFICES ASSUME NEW y \in Zones, NEW m \in Segs, In(e, y, m)
               PROVE  older[y].bmap[m].class \in {NULL, Class(e.type, e.radix)}
  BY DEF MapInv, Uniform
<1>2. y = z /\ m = n
  BY <1>1 DEF In
<1>3. QED
  BY <1>2 DEF Below, Under

LEMMA BelowTrans ==
  ASSUME NEW a, NEW b, NEW c, Below(a, b), Below(b, c)
  PROVE  Below(a, c)
<1>1. SUFFICES ASSUME NEW z \in Zones, NEW n \in Segs PROVE Under(a[z].bmap[n], c[z].bmap[n])
  BY DEF Below
<1>2. Under(a[z].bmap[n], b[z].bmap[n]) /\ Under(b[z].bmap[n], c[z].bmap[n])
  BY DEF Below
<1>3. QED
  BY <1>2 DEF Under

LEMMA BelowMarked ==
  ASSUME NEW a, NEW b, Below(a, b), NEW e, e.off \in Nat, Placed(e), MarkedIn(a, e)
  PROVE  MarkedIn(b, e)
<1>1. ZoneOf(e.off) \in Zones /\ SegOf(e.off) \in Segs
  BY RefFacts
<1>2. QED
  BY <1>1 DEF Below, Under, MarkedIn

LEMMA FewerRefs ==
  ASSUME NEW map, NEW refs, NEW less, MapInv(map, refs),
         \A e \in less : \E f \in refs : e.off = f.off /\ e.type = f.type /\ e.radix = f.radix
  PROVE  MapInv(map, less)
<1>1. SUFFICES ASSUME NEW z \in Zones, NEW n \in Segs, NEW e \in less, In(e, z, n)
               PROVE  map[z].bmap[n].class \in {NULL, Class(e.type, e.radix)}
  BY DEF MapInv, Uniform
<1>2. PICK f \in refs : e.off = f.off /\ e.type = f.type /\ e.radix = f.radix
  OBVIOUS
<1>3. QED
  BY <1>1, <1>2 DEF MapInv, Uniform, In

-----------------------------------------------------------------------------
(* The state *)

LEMMA RefType ==
  ASSUME TypeOK, NEW e \in Refs
  PROVE  /\ e \in Bref /\ e.off \in Nat /\ e.tid \in Nat
         /\ mem \subseteq Refs /\ media.topo \subseteq Refs
<1>1. e \in Bref
  BY DEF TypeOK, Refs
<1>2. QED
  BY <1>1, GeometryAssumption DEF Bref, Refs

\* References that are like others, but for what the freemap does not look at.
Like(refs, others) ==
  \A e \in refs : \E f \in others : e.off = f.off /\ e.type = f.type /\ e.radix = f.radix

LEMMA LikeInv ==
  ASSUME NEW refs, NEW others, Like(refs, others)
  PROVE  /\ (\A f \in others : Placed(f)) => (\A e \in refs : Placed(e))
         /\ OneClass(others) => OneClass(refs)
         /\ \A map : MapInv(map, others) => MapInv(map, refs)
         /\ \A map : (\A f \in others : MarkedIn(map, f)) => (\A e \in refs : MarkedIn(map, e))
<1>1. ASSUME \A f \in others : Placed(f), NEW e \in refs PROVE Placed(e)
  <2>1. PICK f \in others : e.off = f.off /\ e.type = f.type /\ e.radix = f.radix
    BY DEF Like
  <2>2. Placed(f)
    BY <1>1
  <2>3. QED
    BY <2>1, <2>2 DEF Placed, Pos
<1>2. ASSUME OneClass(others), NEW e \in refs, NEW g \in refs, In(g, ZoneOf(e.off), SegOf(e.off))
      PROVE  Class(g.type, g.radix) = Class(e.type, e.radix)
  <2>1. PICK f \in others : e.off = f.off /\ e.type = f.type /\ e.radix = f.radix
    BY DEF Like
  <2>2. PICK h \in others : g.off = h.off /\ g.type = h.type /\ g.radix = h.radix
    BY DEF Like
  <2>3. In(h, ZoneOf(f.off), SegOf(f.off))
    BY <1>2, <2>1, <2>2 DEF In
  <2>4. Class(h.type, h.radix) = Class(f.type, f.radix)
    BY <1>2, <2>3 DEF OneClass
  <2>5. QED
    BY <2>1, <2>2, <2>4
<1>3. ASSUME NEW map, MapInv(map, others) PROVE MapInv(map, refs)
  BY <1>3, FewerRefs DEF Like
<1>4. ASSUME NEW map, \A f \in others : MarkedIn(map, f), NEW e \in refs PROVE MarkedIn(map, e)
  <2>1. PICK f \in others : e.off = f.off /\ e.type = f.type /\ e.radix = f.radix
    BY DEF Like
  <2>2. MarkedIn(map, f)
    BY <1>4
  <2>3. QED
    BY <2>1, <2>2 DEF MarkedIn
<1>5. QED
  BY <1>1, <1>2, <1>3, <1>4 DEF OneClass

LEMMA LikeSubset ==
  ASSUME NEW refs, NEW others, refs \subseteq others
  PROVE  Like(refs, others)
BY DEF Like

LEMMA ZoneZero == 0 \in Zones
<1>1. PICK v \in Nat, g \in Nat \ {0} : v = VoluSize - 1 /\ g = ZONE
  BY GeometryAssumption, Sizes
<1>2. v \div g \in Nat
  BY DivMod
<1>3. QED
  BY <1>1, <1>2 DEF Zones

LEMMA LeafType ==
  ASSUME NEW l \in Leaf
  PROVE  /\ l.made \in BOOLEAN /\ l.bigmask \subseteq Radixes /\ l.bmap \in [Segs -> Bmap]
         /\ \A n \in Segs : l.bmap[n] \in Bmap
BY DEF Leaf

LEMMA ViewType ==
  ASSUME TypeOK, NEW z \in Zones, NEW r
  PROVE  /\ View(z) \in Leaf /\ View(z).made
         /\ leaf[z].made => View(z) = leaf[z]
         /\ ~leaf[z].made => View(z) = NewLeaf(z)
         /\ Failed(z, r) \in Leaf /\ Failed(z, r).made = View(z).made /\ Failed(z, r).bmap = View(z).bmap
<1>1. leaf[z] \in Leaf
  BY DEF TypeOK
<1>2. PICK n \in Segs : TRUE
  <2>1. 0 \in Segs
    BY Sizes DEF Segs
  <2>2. QED
    BY <2>1
<1>3. NewLeaf(z) \in Leaf /\ NewLeaf(z).made
  BY <1>2, NewSegment
<1>4. View(z) \in Leaf /\ View(z).made
  BY <1>1, <1>3 DEF View
<1>5. PICK l \in Leaf : l = View(z)
  BY <1>4
<1>6. Failed(z, r) = [l EXCEPT !.bigmask = @ \ {r}]
  BY <1>5 DEF Failed
<1>7. /\ Failed(z, r) \in Leaf /\ Failed(z, r).made = l.made /\ Failed(z, r).bmap = l.bmap
  BY <1>6 DEF Leaf
<1>8. QED
  BY <1>4, <1>5, <1>7 DEF View

\* What is known when an allocation begins.
LEMMA Before ==
  ASSUME IInv, pc # "down"
  PROVE  /\ TypeOK /\ MapInv(leaf, Refs) /\ OneClass(Refs)
         /\ \A e \in Refs : e.off \in Nat /\ Placed(e) /\ MarkedIn(leaf, e)
<1>1. TypeOK /\ MapInv(leaf, Refs) /\ OneClass(Refs)
  BY DEF IInv, LeafInv
<1>2. ASSUME NEW e \in Refs PROVE e.off \in Nat /\ Placed(e) /\ MarkedIn(leaf, e)
  BY <1>1, RefType DEF IInv, LeafInv
<1>3. QED
  BY <1>1, <1>2

-----------------------------------------------------------------------------
(* hammer2_chain_modify *)

\* The freemap in memory grows from leaf to new; the iterators that are inside
\* a block stay.
LEMMA OpenedLeaf ==
  ASSUME IInv, pc # "down", NEW new, Opened(leaf, new)
  PROVE  /\ MapInv(new, Refs) /\ Below(leaf, new)
         /\ \A e \in Refs : e.off \in Nat /\ Placed(e) /\ MarkedIn(new, e)
         /\ ~crashed => \A z \in Zones, n \in Segs : Iterator(new[z].bmap[n], z, n, mem)
<1>1. /\ TypeOK /\ MapInv(leaf, Refs)
      /\ \A e \in Refs : e.off \in Nat /\ Placed(e) /\ MarkedIn(leaf, e)
  BY Before
<1>2. /\ MapInv(new, Refs) /\ Below(leaf, new)
      /\ \A z \in Zones, n \in Segs :
           new[z].bmap[n].linear % FRAGS # 0 => new[z].bmap[n] = leaf[z].bmap[n]
  BY <1>1, OpenedInv
<1>3. ASSUME NEW e \in Refs PROVE MarkedIn(new, e)
  BY <1>1, <1>2, BelowMarked
<1>4. ASSUME ~crashed, NEW z \in Zones, NEW n \in Segs PROVE Iterator(new[z].bmap[n], z, n, mem)
  <2>1. Iterator(leaf[z].bmap[n], z, n, mem)
    BY <1>4 DEF IInv, OnceInv
  <2>2. QED
    BY <1>2, <2>1 DEF Iterator
<1>5. QED
  BY <1>1, <1>2, <1>3, <1>4

LEMMA NospcInv ==
  ASSUME IInv, NEW q \in Requests, NEW p \in Pfs \cup {Spmp}, pc # "down", nalloc < MaxAlloc,
         nalloc' = nalloc + 1, Nospc(q[1], q[2]),
         UNCHANGED <<pc, ptid, fmap, media, nsync, crashed>>
  PROVE  IInv'
<1>1. TypeOK
  BY DEF IInv
<1>2. <<q[1], q[2]>> \in Requests
  BY RequestAssumption
<1>3. leaf' = [z \in Zones |-> Failed(z, q[2])] /\ mem' = mem /\ Refs' = Refs
  BY DEF Nospc, Refs
<1>4. leaf' \in [Zones -> Leaf] /\ Opened(leaf, leaf')
  <2>1. ASSUME NEW z \in Zones
        PROVE  /\ leaf'[z] \in Leaf
               /\ \/ leaf'[z].made = leaf[z].made /\ leaf'[z].bmap = leaf[z].bmap
                  \/ ~leaf[z].made /\ leaf'[z].made /\ leaf'[z].bmap = NewLeaf(z).bmap
    <3>1. leaf'[z] = Failed(z, q[2])
      BY <1>3
    <3>2. /\ View(z).made /\ (leaf[z].made => View(z) = leaf[z])
          /\ (~leaf[z].made => View(z) = NewLeaf(z))
          /\ Failed(z, q[2]) \in Leaf /\ Failed(z, q[2]).made = View(z).made
          /\ Failed(z, q[2]).bmap = View(z).bmap
      BY <1>1, ViewType
    <3>3. leaf[z].made \in BOOLEAN
      BY <1>1, LeafType DEF TypeOK
    <3>4. QED
      BY <3>1, <3>2, <3>3
  <2>2. QED
    BY <1>3, <2>1 DEF Opened
<1>5. /\ MapInv(leaf', Refs) /\ Below(leaf, leaf')
      /\ \A e \in Refs : e.off \in Nat /\ Placed(e) /\ MarkedIn(leaf', e)
      /\ ~crashed => \A z \in Zones, n \in Segs : Iterator(leaf'[z].bmap[n], z, n, mem)
  BY <1>4, OpenedLeaf
<1>6. TypeOK'
  <2>1. heur' \in [Classes -> Zones]
    BY <1>1, ZoneZero DEF Nospc, TypeOK
  <2>2. denied' \in SUBSET Requests
    BY <1>2 DEF Nospc
  <2>3. nalloc' \in 0..MaxAlloc
    BY <1>1, GeometryAssumption DEF TypeOK
  <2>4. QED
    BY <1>1, <1>3, <1>4, <2>1, <2>2, <2>3 DEF TypeOK
<1>7. LeafInv' /\ (\A e \in Refs : Placed(e))' /\ OneClass(Refs)'
  BY <1>3, <1>5 DEF IInv, LeafInv
<1>8. FmapInv'
  <2>1. ASSUME pc = "freemap" PROVE Below(fmap, leaf')
    BY <1>5, <2>1, BelowTrans DEF IInv, FmapInv
  <2>2. QED
    BY <1>3, <2>1 DEF IInv, FmapInv
<1>9. MediaInv'
  <2>1. Below(media.fmap, leaf')
    BY <1>5, BelowTrans DEF IInv, MediaInv
  <2>2. QED
    BY <1>3, <2>1 DEF IInv, MediaInv
<1>10. DownInv' /\ OnceInv'
  BY <1>3, <1>5 DEF IInv, DownInv, OnceInv
<1>11. QED
  BY <1>6, <1>7, <1>8, <1>9, <1>10 DEF IInv

LEMMA AllocInv ==
  ASSUME IInv, NEW q \in Requests, NEW p \in Pfs \cup {Spmp}, pc # "down", nalloc < MaxAlloc,
         nalloc' = nalloc + 1, Alloc(q[1], q[2], p),
         UNCHANGED <<pc, ptid, fmap, media, nsync, crashed>>
  PROVE  IInv'
<1>1. TypeOK /\ OneClass(Refs)
  BY DEF IInv
<1> DEFINE type == q[1]
           r == q[2]
           class == Class(type, r)
<1>2. type = q[1] /\ r = q[2] /\ <<type, r>> \in Requests
  BY RequestAssumption
<1>3. class = Class(type, r) /\ class \in Classes
  BY <1>2, ClassType
<1>30. PICK z \in Zones :
        /\ heur' = [heur EXCEPT ![class] = z] /\ denied' = {}
        /\ \E n \in Segs :
             /\ Usable(View(z).bmap[n], class, r)
             /\ \E o \in 0..(SEGSIZE - 1) :
                  /\ IsOffset(View(z).bmap[n], r, o)
                  /\ leaf' = [y \in Zones |->
                       IF y = z THEN [View(z) EXCEPT !.bmap[n] = BmapAfter(@, class, r, o)]
                       ELSE IF Turn(y, class) < Turn(z, class) THEN Failed(y, r) ELSE leaf[y]]
                  /\ mem' = mem \cup {[id |-> nalloc + 1, off |-> z * ZONE + n * SEGSIZE + o,
                                       type |-> type, radix |-> r, pmp |-> p, tid |-> 0]}
  BY DEF Alloc
<1> HIDE DEF type, r, class
<1>4. PICK n \in Segs, o \in 0..(SEGSIZE - 1) :
        /\ heur' = [heur EXCEPT ![class] = z] /\ denied' = {}
        /\ Usable(View(z).bmap[n], class, r)
        /\ IsOffset(View(z).bmap[n], r, o)
        /\ leaf' = [y \in Zones |->
             IF y = z THEN [View(z) EXCEPT !.bmap[n] = BmapAfter(@, class, r, o)]
             ELSE IF Turn(y, class) < Turn(z, class) THEN Failed(y, r) ELSE leaf[y]]
        /\ mem' = mem \cup {[id |-> nalloc + 1, off |-> z * ZONE + n * SEGSIZE + o,
                             type |-> type, radix |-> r, pmp |-> p, tid |-> 0]}
  BY <1>30, Zenon
<1>5. PICK e : e = [id |-> nalloc + 1, off |-> z * ZONE + n * SEGSIZE + o,
                    type |-> type, radix |-> r, pmp |-> p, tid |-> 0]
  OBVIOUS
<1>6. /\ e.off = z * ZONE + n * SEGSIZE + o /\ e.type = type /\ e.radix = r /\ e.tid = 0
      /\ mem' = mem \cup {e} /\ Refs' = Refs \cup {e}
  BY <1>4, <1>5 DEF Refs
<1>7. PICK v : v = [y \in Zones |-> IF y = z THEN View(z)
                      ELSE IF Turn(y, class) < Turn(z, class) THEN Failed(y, r) ELSE leaf[y]]
  OBVIOUS
<1>8. ASSUME NEW y \in Zones
      PROVE  /\ v[y] \in Leaf
             /\ \/ v[y].made = leaf[y].made /\ v[y].bmap = leaf[y].bmap
                \/ ~leaf[y].made /\ v[y].made /\ v[y].bmap = NewLeaf(y).bmap
  <2>1. /\ View(y) \in Leaf /\ View(y).made /\ (leaf[y].made => View(y) = leaf[y])
        /\ (~leaf[y].made => View(y) = NewLeaf(y))
        /\ Failed(y, r) \in Leaf /\ Failed(y, r).made = View(y).made
        /\ Failed(y, r).bmap = View(y).bmap
    BY <1>1, ViewType
  <2>2. leaf[y] \in Leaf /\ leaf[y].made \in BOOLEAN
    BY <1>1, LeafType DEF TypeOK
  <2>3. v[y] \in {View(y), Failed(y, r), leaf[y]}
    BY <1>7
  <2>4. QED
    BY <2>1, <2>2, <2>3
<1>9. Opened(leaf, v) /\ v[z] = View(z) /\ v[z].made
  <2>1. v[z] = View(z)
    BY <1>7
  <2>2. QED
    BY <1>1, <1>8, <2>1, ViewType DEF Opened
<1>10. /\ MapInv(v, Refs) /\ Below(leaf, v)
       /\ \A f \in Refs : f.off \in Nat /\ Placed(f) /\ MarkedIn(v, f)
       /\ ~crashed => \A y \in Zones, m \in Segs : Iterator(v[y].bmap[m], y, m, mem)
  BY <1>9, OpenedLeaf
<1>11. PICK l \in Leaf : l = v[z]
  BY <1>8
<1>12. PICK bm, b : bm = l.bmap[n] /\ b = BmapAfter(bm, class, r, o) /\ bm \in Bmap
  BY LeafType
<1>13. leaf'[z] = [l EXCEPT !.bmap[n] = b]
  BY <1>4, <1>9, <1>11, <1>12
<1>14. /\ leaf'[z].made = l.made /\ leaf'[z].bmap = [l.bmap EXCEPT ![n] = b]
       /\ leaf'[z].bigmask = l.bigmask
  BY <1>13 DEF Leaf
<1>15. \A m \in Segs : leaf'[z].bmap[m] = IF m = n THEN b ELSE v[z].bmap[m]
  BY <1>11, <1>14, LeafType
<1>16. ASSUME NEW y \in Zones, y # z PROVE leaf'[y] = v[y]
  BY <1>4, <1>7, <1>16
<1>17. Taken(v, leaf', z, n, o, e)
  <2>1. v[z].bmap[n] \in Bmap /\ v[z].bmap[n] = bm
    BY <1>11, <1>12
  <2>2. bm.class \in {NULL, class} /\ IsOffset(bm, r, o)
    BY <1>4, <1>9, <2>1 DEF Usable
  <2>3. \A y \in Zones : leaf'[y].made = v[y].made
    BY <1>11, <1>14, <1>16
  <2>4. \A y \in Zones, m \in Segs :
          leaf'[y].bmap[m] = IF y = z /\ m = n THEN b ELSE v[y].bmap[m]
    BY <1>15, <1>16
  <2>5. QED
    BY <1>2, <1>3, <1>6, <1>9, <1>12, <2>1, <2>2, <2>3, <2>4 DEF Taken
<1>18. /\ Placed(e) /\ In(e, z, n) /\ e.off \in 0..(VoluSize - 1) /\ e.radix \in Radixes
       /\ leaf'[z].bmap[n] \in Bmap /\ leaf'[z].bmap[n].class = Class(e.type, e.radix)
  BY <1>10, <1>17, TakenPlace
<1>19. /\ MapInv(leaf', Refs \cup {e}) /\ Below(v, leaf')
       /\ \A f \in Refs \cup {e} : MarkedIn(leaf', f)
       /\ OneClass(Refs \cup {e})
  BY <1>1, <1>10, <1>17, TakenInv
<1>20. Below(leaf, leaf')
  BY <1>10, <1>19, BelowTrans
<1>21. TypeOK'
  <2>1. leaf'[z] \in Leaf
    <3>1. b \in Bmap
      BY <1>15, <1>18
    <3>2. [l.bmap EXCEPT ![n] = b] \in [Segs -> Bmap]
      BY <3>1, LeafType
    <3>3. [l EXCEPT !.bmap[n] = b] \in Leaf
      BY <3>1, <3>2 DEF Leaf
    <3>4. QED
      BY <1>13, <3>3
  <2>2. leaf' \in [Zones -> Leaf]
    <3>1. \A y \in Zones : leaf'[y] \in Leaf
      BY <1>8, <1>16, <2>1
    <3>2. QED
      BY <1>4, <3>1
  <2>3. heur' \in [Classes -> Zones]
    BY <1>1, <1>3, <1>4 DEF TypeOK
  <2>4. e \in Bref
    <3>1. nalloc + 1 \in 1..MaxAlloc /\ nalloc' \in 0..MaxAlloc
      BY <1>1, GeometryAssumption DEF TypeOK
    <3>2. type \in {x[1] : x \in Requests}
      BY <1>2
    <3>3. QED
      BY <1>5, <1>6, <1>18, <3>1, <3>2 DEF Bref
  <2>5. nalloc' \in 0..MaxAlloc
    BY <1>1, GeometryAssumption DEF TypeOK
  <2>6. mem' \in SUBSET Bref /\ denied' \in SUBSET Requests
    BY <1>1, <1>4, <1>6, <2>4 DEF TypeOK
  <2>7. QED
    BY <1>1, <2>2, <2>3, <2>5, <2>6 DEF TypeOK
<1>22. (\A f \in Refs : Placed(f))' /\ OneClass(Refs)' /\ LeafInv'
  BY <1>6, <1>10, <1>18, <1>19 DEF LeafInv
<1>23. FmapInv'
  <2>1. SUFFICES ASSUME pc = "freemap"
                 PROVE  /\ MapInv(fmap, Refs \cup {e}) /\ Below(fmap, leaf')
                        /\ \A f \in mem \cup {e} : f.pmp = Spmp \/ f.tid = 0 \/ MarkedIn(fmap, f)
    BY <1>6 DEF FmapInv
  <2>2. MapInv(fmap, Refs) /\ Below(fmap, leaf')
    BY <1>20, <2>1, BelowTrans DEF IInv, FmapInv
  <2>3. MapInv(fmap, Refs \cup {e})
    BY <1>18, <2>2, OlderInv
  <2>4. QED
    BY <1>6, <2>1, <2>2, <2>3 DEF IInv, FmapInv
<1>24. MediaInv'
  <2>1. MapInv(media.fmap, Refs) /\ Below(media.fmap, leaf')
    BY <1>20, BelowTrans DEF IInv, MediaInv
  <2>2. MapInv(media.fmap, Refs \cup {e})
    BY <1>18, <2>1, OlderInv
  <2>3. QED
    BY <1>6, <2>1, <2>2 DEF IInv, MediaInv
<1>25. OnceInv'
  <2>1. SUFFICES ASSUME ~crashed
                 PROVE  /\ \A f, g \in mem \cup {e} : f # g => Apart(f, g)
                        /\ \A y \in Zones, m \in Segs : Iterator(leaf'[y].bmap[m], y, m, mem \cup {e})
    BY <1>6 DEF OnceInv
  <2>2. mem \subseteq Refs /\ \A f, g \in mem : f # g => Apart(f, g)
    BY <2>1 DEF IInv, OnceInv, Refs
  <2>3. QED
    BY <1>10, <1>17, <2>1, <2>2, TakenOnce
<1>26. DownInv'
  BY DEF DownInv
<1>27. QED
  BY <1>21, <1>22, <1>23, <1>24, <1>25, <1>26 DEF IInv

LEMMA ChainModifyInv ==
  ASSUME IInv, NEW q \in Requests, NEW p \in Pfs \cup {Spmp}, ChainModify(q[1], q[2], p)
  PROVE  IInv'
BY AllocInv, NospcInv DEF ChainModify

-----------------------------------------------------------------------------
(* hammer2_vfs_sync, unmount and crash *)

LEMMA MediaType ==
  ASSUME TypeOK
  PROVE  /\ media.fmap \in [Zones -> Leaf] /\ media.topo \subseteq Bref
         /\ media.ptid \in [Pfs -> Nat]
BY DEF TypeOK

LEMMA FlushPfsInv ==
  ASSUME IInv, NEW p \in Pfs, FlushPfs(p)
  PROVE  IInv'
<1>1. TypeOK /\ pc = "idle" /\ pc' = "pfs" /\ leaf' = leaf /\ fmap' = fmap /\ media' = media
      /\ crashed' = crashed
  BY DEF IInv, FlushPfs
<1>2. PICK t \in Nat : t = ptid'[p] /\ ptid' \in [Pfs -> Nat]
  BY <1>1 DEF FlushPfs, TypeOK
<1>3. mem' = {IF e.pmp = p /\ e.tid = 0 THEN [e EXCEPT !.tid = t] ELSE e : e \in mem}
  BY <1>2 DEF FlushPfs
<1>4. ASSUME NEW e \in Bref
      PROVE  /\ [e EXCEPT !.tid = t] \in Bref
             /\ [e EXCEPT !.tid = t].off = e.off /\ [e EXCEPT !.tid = t].type = e.type
             /\ [e EXCEPT !.tid = t].radix = e.radix
  BY DEF Bref
<1>5. ASSUME NEW x \in mem'
      PROVE  \E e \in mem : /\ x = (IF e.pmp = p /\ e.tid = 0 THEN [e EXCEPT !.tid = t] ELSE e)
                            /\ x \in Bref /\ x.off = e.off /\ x.type = e.type /\ x.radix = e.radix
  <2>1. PICK e \in mem : x = (IF e.pmp = p /\ e.tid = 0 THEN [e EXCEPT !.tid = t] ELSE e)
    BY <1>3
  <2>2. e \in Bref
    BY <1>1 DEF TypeOK
  <2>3. QED
    BY <1>4, <2>1, <2>2
<1>6. TypeOK'
  <2>1. mem' \in SUBSET Bref
    BY <1>5
  <2>2. nsync' \in 0..MaxSync
    BY <1>1, GeometryAssumption DEF FlushPfs, TypeOK
  <2>3. QED
    BY <1>1, <1>2, <2>1, <2>2 DEF FlushPfs, TypeOK
<1>7. Like(Refs', Refs)
  BY <1>1, <1>5 DEF Like, Refs
<1>8. (\A e \in Refs : Placed(e))' /\ OneClass(Refs)'
  BY <1>7, LikeInv DEF IInv
<1>9. LeafInv'
  <2>1. MapInv(leaf, Refs')
    BY <1>7, LikeInv DEF IInv, LeafInv
  <2>2. \A e \in Refs' : MarkedIn(leaf, e)
    <3>1. \A e \in Refs : MarkedIn(leaf, e)
      BY <1>1 DEF IInv, LeafInv
    <3>2. QED
      BY <1>7, <3>1, LikeInv
  <2>3. QED
    BY <1>1, <2>1, <2>2 DEF LeafInv
<1>10. MediaInv'
  <2>1. MapInv(media.fmap, Refs')
    BY <1>7, LikeInv DEF IInv, MediaInv
  <2>2. QED
    BY <1>1, <2>1 DEF IInv, MediaInv
<1>11. FmapInv' /\ DownInv'
  BY <1>1 DEF FmapInv, DownInv
<1>12. OnceInv'
  <2>1. SUFFICES ASSUME ~crashed
                 PROVE  /\ \A x, y \in mem' : x # y => Apart(x, y)
                        /\ \A z \in Zones, n \in Segs : Iterator(leaf[z].bmap[n], z, n, mem')
    BY <1>1 DEF OnceInv
  <2>2. /\ \A e, f \in mem : e # f => Apart(e, f)
        /\ \A z \in Zones, n \in Segs : Iterator(leaf[z].bmap[n], z, n, mem)
    BY <2>1 DEF IInv, OnceInv
  <2>3. ASSUME NEW x \in mem', NEW y \in mem', x # y PROVE Apart(x, y)
    <3>1. PICK e \in mem : /\ x = (IF e.pmp = p /\ e.tid = 0 THEN [e EXCEPT !.tid = t] ELSE e)
                           /\ x.off = e.off /\ x.radix = e.radix
      BY <1>5
    <3>2. PICK f \in mem : /\ y = (IF f.pmp = p /\ f.tid = 0 THEN [f EXCEPT !.tid = t] ELSE f)
                           /\ y.off = f.off /\ y.radix = f.radix
      BY <1>5
    <3>3. Apart(e, f)
      BY <2>2, <2>3, <3>1, <3>2
    <3>4. QED
      BY <3>1, <3>2, <3>3 DEF Apart, In, Pos
  <2>4. ASSUME NEW z \in Zones, NEW n \in Segs PROVE Iterator(leaf[z].bmap[n], z, n, mem')
    <3>1. PICK bm : bm = leaf[z].bmap[n] /\ Iterator(bm, z, n, mem)
      BY <2>2
    <3>2. SUFFICES ASSUME bm.linear % FRAGS # 0, NEW x \in mem', In(x, z, n),
                          Pos(x) \div FRAGS = bm.linear \div FRAGS
                   PROVE  Pos(x) + Size(x.radix) <= bm.linear
      BY <3>1 DEF Iterator
    <3>3. PICK e \in mem : x.off = e.off /\ x.radix = e.radix
      BY <1>5
    <3>4. In(e, z, n) /\ Pos(e) = Pos(x)
      BY <3>2, <3>3 DEF In, Pos
    <3>5. QED
      BY <3>1, <3>2, <3>3, <3>4 DEF Iterator
  <2>5. QED
    BY <2>3, <2>4
<1>13. QED
  BY <1>6, <1>8, <1>9, <1>10, <1>11, <1>12 DEF IInv

LEMMA FlushFreemapInv ==
  ASSUME IInv, FlushFreemap
  PROVE  IInv'
<1>1. /\ TypeOK /\ pc = "pfs" /\ pc' = "freemap" /\ fmap' = leaf /\ leaf' = leaf /\ mem' = mem
      /\ media' = media /\ crashed' = crashed /\ Refs' = Refs
  BY DEF IInv, FlushFreemap, Refs
<1>2. TypeOK'
  BY <1>1 DEF FlushFreemap, TypeOK
<1>3. MapInv(leaf, Refs) /\ \A e \in Refs : MarkedIn(leaf, e)
  BY <1>1 DEF IInv, LeafInv
<1>4. Below(leaf, leaf)
  BY DEF Below, Under
<1>5. FmapInv'
  BY <1>1, <1>3, <1>4 DEF FmapInv, Refs
<1>6. LeafInv' /\ MediaInv' /\ DownInv' /\ OnceInv'
  BY <1>1, <1>3 DEF IInv, LeafInv, MediaInv, DownInv, OnceInv
<1>7. QED
  BY <1>1, <1>2, <1>5, <1>6 DEF IInv

LEMMA FlushVolumeInv ==
  ASSUME IInv, FlushVolume
  PROVE  IInv'
<1>1. /\ TypeOK /\ pc = "freemap" /\ pc' = "idle" /\ leaf' = leaf /\ mem' = mem
      /\ crashed' = crashed
  BY DEF IInv, FlushVolume
<1>2. /\ media'.fmap = fmap /\ media'.ptid = ptid
      /\ media'.topo = {e \in mem : e.pmp = Spmp \/ e.tid # 0}
  BY DEF FlushVolume
<1>3. TypeOK'
  BY <1>1, <1>2 DEF FlushVolume, TypeOK
<1>4. Refs' \subseteq Refs /\ Like(Refs', Refs)
  BY <1>1, <1>2 DEF Refs, Like
<1>5. (\A e \in Refs : Placed(e))' /\ OneClass(Refs)'
  BY <1>4, LikeInv DEF IInv
<1>6. LeafInv'
  <2>1. MapInv(leaf, Refs')
    BY <1>4, LikeInv DEF IInv, LeafInv
  <2>2. QED
    BY <1>1, <1>4, <2>1 DEF IInv, LeafInv
<1>7. MediaInv'
  <2>1. /\ MapInv(fmap, Refs) /\ Below(fmap, leaf)
        /\ \A e \in mem : e.pmp = Spmp \/ e.tid = 0 \/ MarkedIn(fmap, e)
    BY <1>1 DEF IInv, FmapInv
  <2>2. MapInv(fmap, Refs')
    BY <1>4, <2>1, LikeInv
  <2>3. QED
    BY <1>1, <1>2, <2>1, <2>2 DEF MediaInv
<1>8. FmapInv' /\ DownInv' /\ OnceInv'
  BY <1>1 DEF IInv, FmapInv, DownInv, OnceInv
<1>9. QED
  BY <1>3, <1>5, <1>6, <1>7, <1>8 DEF IInv

LEMMA UnmountInv ==
  ASSUME IInv, Unmount
  PROVE  IInv'
<1>1. /\ TypeOK /\ pc = "idle" /\ pc' = "down" /\ leaf' = leaf /\ mem' = mem /\ media' = media
      /\ crashed' = crashed /\ Refs' = Refs
  BY DEF IInv, Unmount, Refs
<1>2. media.fmap = leaf /\ media.topo = mem
  BY DEF Unmount
<1>3. TypeOK'
  BY <1>1 DEF Unmount, TypeOK
<1>4. DownInv'
  BY <1>1, <1>2 DEF IInv, LeafInv, DownInv, Refs
<1>5. LeafInv' /\ MediaInv' /\ FmapInv' /\ OnceInv'
  BY <1>1 DEF IInv, LeafInv, MediaInv, FmapInv, OnceInv
<1>6. QED
  BY <1>1, <1>3, <1>4, <1>5 DEF IInv

LEMMA CrashInv ==
  ASSUME IInv, Crash
  PROVE  IInv'
<1>1. /\ TypeOK /\ pc' = "down" /\ leaf' = media.fmap /\ mem' = media.topo /\ media' = media
      /\ crashed' = TRUE
  BY DEF IInv, Crash
<1>2. TypeOK'
  <2>1. heur' \in [Classes -> Zones]
    BY ZoneZero DEF Crash
  <2>2. QED
    BY <1>1, <2>1, MediaType DEF Crash, TypeOK
<1>3. Refs' = media.topo /\ Like(Refs', Refs)
  BY <1>1 DEF Refs, Like
<1>4. (\A e \in Refs : Placed(e))' /\ OneClass(Refs)'
  BY <1>3, LikeInv DEF IInv
<1>5. MapInv(media.fmap, Refs')
  BY <1>3, LikeInv DEF IInv, MediaInv
<1>6. Below(media.fmap, media.fmap)
  BY DEF Below, Under
<1>7. LeafInv' /\ MediaInv' /\ FmapInv' /\ OnceInv' /\ DownInv'
  BY <1>1, <1>5, <1>6 DEF IInv, LeafInv, MediaInv, FmapInv, OnceInv, DownInv
<1>8. QED
  BY <1>2, <1>4, <1>7 DEF IInv

LEMMA InitInv ==
  ASSUME Init
  PROVE  IInv
<1>1. /\ leaf = [z \in Zones |-> NoLeaf] /\ mem = {} /\ pc = "down"
      /\ media.fmap = leaf /\ media.topo = {} /\ media.ptid = ptid /\ Refs = {}
  BY DEF Init, Refs
<1>2. NoLeaf \in Leaf
  <2>1. 0 \in 0..SEGSIZE /\ 0 \in 0..(AvailMod - 1)
    BY Sizes, AvailNat
  <2>2. QED
    BY <2>1 DEF NoLeaf, Leaf, Bmap
<1>3. TypeOK
  <2>1. leaf \in [Zones -> Leaf] /\ fmap \in [Zones -> Leaf] /\ media.fmap \in [Zones -> Leaf]
    BY <1>1, <1>2 DEF Init
  <2>2. heur \in [Classes -> Zones] /\ ptid \in [Pfs -> Nat] /\ media.ptid \in [Pfs -> Nat]
    BY <1>1, ZoneZero DEF Init
  <2>3. nalloc \in 0..MaxAlloc /\ nsync \in 0..MaxSync
    BY GeometryAssumption DEF Init
  <2>4. mem \in SUBSET Bref /\ media.topo \in SUBSET Bref /\ denied \in SUBSET Requests
        /\ crashed \in BOOLEAN /\ pc \in {"down", "idle", "pfs", "freemap"}
    BY <1>1 DEF Init
  <2>5. QED
    BY <2>1, <2>2, <2>3, <2>4 DEF TypeOK
<1>4. ASSUME NEW z \in Zones, NEW n \in Segs
      PROVE  /\ Shape(leaf[z].made, leaf[z].bmap[n], z, n)
             /\ leaf[z].bmap[n].linear = 0
  <2>1. leaf[z] = NoLeaf
    BY <1>1
  <2>2. /\ leaf[z].made = FALSE /\ leaf[z].bmap[n].bits = {} /\ leaf[z].bmap[n].class = NULL
        /\ leaf[z].bmap[n].linear = 0
    BY <2>1 DEF NoLeaf
  <2>3. QED
    BY <2>2 DEF Shape
<1>5. MapInv(leaf, Refs) /\ Below(leaf, leaf)
  BY <1>1, <1>4 DEF MapInv, Uniform, Below, Under
<1>6. 0 % FRAGS = 0
  <2>1. PICK f \in Nat \ {0}, i \in Nat : f = FRAGS /\ i = 0
    BY Sizes
  <2>2. 0 = i * f
    BY <2>1
  <2>3. QED
    BY <2>1, <2>2, ModExact
<1>7. LeafInv /\ FmapInv /\ MediaInv /\ DownInv
  BY <1>1, <1>5 DEF LeafInv, FmapInv, MediaInv, DownInv
<1>8. OnceInv
  BY <1>1, <1>4, <1>6 DEF OnceInv, Iterator
<1>9. QED
  BY <1>1, <1>3, <1>7, <1>8 DEF IInv, OneClass

-----------------------------------------------------------------------------
(* hammer2_recovery *)

LEMMA ChargedType ==
  ASSUME NEW here, NEW bs \in SUBSET Blocks
  PROVE  Charged(here, bs) \in Nat
<1>1. IsFiniteSet(Blocks) /\ IsFiniteSet(1..SEGSIZE)
  <2>1. BLOCKS - 1 \in Int /\ SEGSIZE \in Int
    BY Sizes
  <2>2. QED
    BY <2>1, FS_Interval DEF Blocks
<1>2. IsFiniteSet(bs)
  BY <1>1, FS_Subset
<1>3. IsFiniteSet(bs \X (1..SEGSIZE))
  BY <1>1, <1>2, FS_Product
<1>4. IsFiniteSet({p \in bs \X (1..SEGSIZE) : p[2] <= Size(RefOf(here, p[1]).radix)})
  BY <1>3, FS_Subset
<1>5. QED
  BY <1>4, FS_CardinalityType DEF Charged

\* The references that the scan finds in a segment.
Found(z, n) == {e \in Visited : ZoneOf(e.off) = z /\ SegOf(e.off) = n}

LEMMA FoundRef ==
  ASSUME IInv, NEW z \in Zones, NEW n \in Segs, NEW e \in Found(z, n)
  PROVE  /\ e \in Refs /\ e \in Visited /\ In(e, z, n) /\ IsFree(z, n)
         /\ BlocksAt(e.off, e.radix) \subseteq Blocks
         /\ Class(e.type, e.radix) \in Classes /\ Class(e.type, e.radix) # NULL
<1>1. e \in Refs /\ e \in Visited /\ ZoneOf(e.off) = z /\ SegOf(e.off) = n
  BY DEF Found, Visited, Refs
<1>2. TypeOK /\ Placed(e)
  BY <1>1 DEF IInv
<1>3. e.off \in Nat
  BY <1>1, <1>2, RefType
<1>4. BlocksAt(e.off, e.radix) \subseteq Blocks
  BY <1>2, <1>3, RefFacts
<1>5. Class(e.type, e.radix) \in Classes /\ Class(e.type, e.radix) # NULL
  BY <1>2, ClassType DEF Placed
<1>6. QED
  BY <1>1, <1>2, <1>4, <1>5 DEF In, Placed

\* hammer2_freemap_adjust of a segment bm of an older freemap: it stays in
\* shape and keeps what it has, and marks what the scan found.
LEMMA RecoverBmapInv ==
  ASSUME IInv, NEW z \in Zones, NEW n \in Segs, NEW bm \in Bmap, NEW made \in BOOLEAN,
         Shape(made, bm, z, n), Uniform(bm, z, n, Refs), made \/ Found(z, n) = {},
         NEW new, new = RecoverBmap(z, n, bm)
  PROVE  /\ new \in Bmap /\ Shape(made, new, z, n) /\ Uniform(new, z, n, Refs)
         /\ Under(bm, new)
         /\ \A e \in Found(z, n) : BlocksAt(e.off, e.radix) \subseteq new.bits
         /\ (\A e \in Found(z, n) : BlocksAt(e.off, e.radix) \subseteq bm.bits) => new = bm
<1> DEFINE here == Found(z, n)
           missing == (UNION {BlocksAt(e.off, e.radix) : e \in here}) \ bm.bits
           first == RefOf(here, CHOOSE b \in missing : TRUE)
           charge == Charged(here, missing)
<1>1. new = IF missing = {} THEN bm
            ELSE [linear |-> 0,
                  class |-> IF bm.class = NULL THEN Class(first.type, first.radix) ELSE bm.class,
                  avail |-> (bm.avail - charge) % AvailMod,
                  bits |-> bm.bits \cup missing]
  BY DEF RecoverBmap, Found
<1>2. \A e \in here : BlocksAt(e.off, e.radix) \subseteq bm.bits \cup missing
  OBVIOUS
<1>3. (\A e \in here : BlocksAt(e.off, e.radix) \subseteq bm.bits) => missing = {}
  OBVIOUS
<1>4. missing \subseteq Blocks
  BY FoundRef
<1>5. missing # {} => first \in here
  <2>1. SUFFICES ASSUME missing # {} PROVE first \in here
    OBVIOUS
  <2>2. PICK b : b = (CHOOSE c \in missing : TRUE)
    OBVIOUS
  <2>3. b \in missing
    BY <2>1, <2>2
  <2>4. \E e \in here : b \in BlocksAt(e.off, e.radix)
    BY <2>3
  <2>5. RefOf(here, b) \in here
    BY <2>4 DEF RefOf
  <2>6. QED
    BY <2>2, <2>5
<1>6. charge \in Nat
  BY <1>4, ChargedType
<1>7. PICK b, f, a : b = missing /\ f = first /\ a = (bm.avail - charge) % AvailMod
  OBVIOUS
<1>8. a \in 0..(AvailMod - 1)
  <2>1. bm.avail - charge \in Int
    <3>1. AvailMod - 1 \in Int
      BY AvailNat
    <3>2. QED
      BY <1>6, <3>1, BmapType
  <2>2. QED
    BY <1>7, <2>1, AvailNat, ModType
<1>9. CASE b = {}
  <2>1. new = bm
    BY <1>1, <1>7, <1>9
  <2>2. \A e \in here : BlocksAt(e.off, e.radix) \subseteq bm.bits
    BY <1>2, <1>7, <1>9
  <2>3. Under(bm, bm)
    BY DEF Under
  <2>4. QED
    BY <2>1, <2>2, <2>3
<1>10. CASE b # {}
  <2>1. /\ new.linear = 0 /\ new.avail = a /\ new.bits = bm.bits \cup b
        /\ new.class = IF bm.class = NULL THEN Class(f.type, f.radix) ELSE bm.class
        /\ DOMAIN new = {"linear", "class", "avail", "bits"}
        /\ new = [linear |-> 0, avail |-> a, bits |-> bm.bits \cup b,
                  class |-> IF bm.class = NULL THEN Class(f.type, f.radix) ELSE bm.class]
    BY <1>1, <1>7, <1>10
  <2>2. f \in here
    BY <1>5, <1>7, <1>10
  <2>3. /\ f \in Refs /\ In(f, z, n) /\ IsFree(z, n)
        /\ Class(f.type, f.radix) \in Classes /\ Class(f.type, f.radix) # NULL
    BY <2>2, FoundRef
  <2>4. made
    BY <2>2
  <2>5. new.class \in Classes \cup {NULL} /\ new.class # NULL /\ bm.class \in {NULL, new.class}
    BY <2>1, <2>3, BmapType
  <2>6. new \in Bmap
    <3>1. 0 \in 0..SEGSIZE
      BY Sizes
    <3>2. bm.bits \cup b \subseteq Blocks
      BY <1>4, <1>7, BmapType
    <3>3. QED
      BY <1>8, <2>1, <2>5, <3>1, <3>2 DEF Bmap
  <2>7. Shape(made, new, z, n)
    BY <2>3, <2>4, <2>5 DEF Shape
  <2>8. ASSUME NEW e \in Refs, In(e, z, n) PROVE new.class \in {NULL, Class(e.type, e.radix)}
    <3>1. CASE bm.class = NULL
      <4>1. Class(e.type, e.radix) = Class(f.type, f.radix)
        BY <2>3, <2>8 DEF IInv, OneClass, In
      <4>2. QED
        BY <2>1, <3>1, <4>1
    <3>2. CASE bm.class # NULL
      BY <2>1, <2>8, <3>2 DEF Uniform
    <3>3. QED
      BY <3>1, <3>2
  <2>9. Uniform(new, z, n, Refs) /\ Under(bm, new)
    BY <2>1, <2>5, <2>8 DEF Uniform, Under
  <2>10. ~(\A e \in here : BlocksAt(e.off, e.radix) \subseteq bm.bits)
    BY <1>3, <1>7, <1>10
  <2>11. QED
    BY <1>2, <1>7, <2>1, <2>6, <2>7, <2>9, <2>10
<1>11. QED
  BY <1>9, <1>10

\* The leaf that the scan repairs: a missing one is created.
Repaired(z) ==
  IF media.fmap[z].made \/ {e \in Visited : ZoneOf(e.off) = z} = {}
  THEN media.fmap[z] ELSE NewLeaf(z)

LEMMA RepairedInv ==
  ASSUME IInv, NEW map, map = [z \in Zones |-> Repaired(z)]
  PROVE  /\ MapInv(map, Refs) /\ Below(media.fmap, map)
         /\ \A z \in Zones :
              /\ map[z] \in Leaf
              /\ \A n \in Segs : map[z].made \/ Found(z, n) = {}
              /\ \A n \in Segs : map[z].bmap[n].linear % FRAGS # 0 =>
                   map[z].bmap[n] = media.fmap[z].bmap[n]
<1>1. media.fmap \in [Zones -> Leaf] /\ MapInv(media.fmap, Refs)
  BY MediaType DEF IInv, MediaInv
<1>2. ASSUME NEW z \in Zones PROVE NewLeaf(z) \in Leaf /\ NewLeaf(z).made
  <2>1. 0 \in Segs
    BY Sizes DEF Segs
  <2>2. QED
    BY <2>1, NewSegment
<1>3. ASSUME NEW z \in Zones
      PROVE  /\ map[z] \in Leaf
             /\ map[z] = media.fmap[z] \/ (~media.fmap[z].made /\ map[z] = NewLeaf(z))
  <2>1. map[z] = Repaired(z) /\ media.fmap[z] \in Leaf
    BY <1>1
  <2>2. CASE media.fmap[z].made \/ {e \in Visited : ZoneOf(e.off) = z} = {}
    <3>1. Repaired(z) = media.fmap[z]
      BY <2>2 DEF Repaired
    <3>2. QED
      BY <2>1, <3>1
  <2>3. CASE ~(media.fmap[z].made \/ {e \in Visited : ZoneOf(e.off) = z} = {})
    <3>1. Repaired(z) = NewLeaf(z) /\ ~media.fmap[z].made
      BY <2>3 DEF Repaired
    <3>2. NewLeaf(z) \in Leaf
      BY <1>2
    <3>3. QED
      BY <2>1, <3>1, <3>2
  <2>4. QED
    BY <2>2, <2>3
<1>4. Opened(media.fmap, map)
  BY <1>2, <1>3 DEF Opened
<1>5. ASSUME NEW z \in Zones, NEW n \in Segs PROVE map[z].made \/ Found(z, n) = {}
  BY <1>2 DEF Repaired, Found
<1>6. QED
  BY <1>1, <1>3, <1>4, <1>5, OpenedInv

LEMMA RecoverLeafIs ==
  ASSUME IInv, NEW z \in Zones, Repaired(z) \in Leaf
  PROVE  /\ RecoverLeaf(z).made = Repaired(z).made
         /\ RecoverLeaf(z).bmap = [n \in Segs |-> RecoverBmap(z, n, Repaired(z).bmap[n])]
         /\ RecoverLeaf(z).bmap \in [Segs -> Bmap] => RecoverLeaf(z) \in Leaf
<1> DEFINE here == {e \in Visited : ZoneOf(e.off) = z}
           Fixed(e) == ~(BlocksAt(e.off, e.radix) \subseteq Repaired(z).bmap[SegOf(e.off)].bits)
           mask == {e.radix : e \in {f \in here : Fixed(f)}}
<1>1. RecoverLeaf(z) = [made |-> Repaired(z).made, bigmask |-> Repaired(z).bigmask \cup mask,
                        bmap |-> [n \in Segs |-> RecoverBmap(z, n, Repaired(z).bmap[n])]]
  BY DEF RecoverLeaf, Repaired
<1>2. mask \subseteq Radixes
  <2>1. SUFFICES ASSUME NEW e \in here PROVE e.radix \in Radixes
    OBVIOUS
  <2>2. e \in Refs /\ TypeOK /\ Placed(e)
    BY DEF Visited, Refs, IInv
  <2>3. QED
    BY <2>2, ClassType DEF Placed
<1>3. PICK l, m, b : /\ l = Repaired(z) /\ m = mask
                     /\ b = [n \in Segs |-> RecoverBmap(z, n, Repaired(z).bmap[n])]
  OBVIOUS
<1>4. l.made \in BOOLEAN /\ l.bigmask \cup m \subseteq Radixes
  BY <1>2, <1>3, LeafType
<1>5. RecoverLeaf(z) = [made |-> l.made, bigmask |-> l.bigmask \cup m, bmap |-> b]
  BY <1>1, <1>3
<1>6. RecoverLeaf(z).bmap \in [Segs -> Bmap] => RecoverLeaf(z) \in Leaf
  BY <1>4, <1>5 DEF Leaf
<1>7. QED
  BY <1>3, <1>5, <1>6

\* After the scan every reference on the media is marked: those that it visits,
\* and those that were marked when the freemap was flushed.
LEMMA MountInv ==
  ASSUME IInv, Mount
  PROVE  IInv'
<1>1. /\ TypeOK /\ pc = "down" /\ leaf = media.fmap /\ mem = media.topo
      /\ pc' = "idle" /\ mem' = mem /\ media' = media /\ crashed' = crashed
      /\ leaf' = [z \in Zones |-> RecoverLeaf(z)] /\ Refs' = Refs /\ Refs = media.topo
  BY DEF IInv, DownInv, Mount, Refs
<1>2. PICK map : map = [z \in Zones |-> Repaired(z)]
  OBVIOUS
<1>3. /\ MapInv(map, Refs) /\ Below(media.fmap, map)
      /\ \A z \in Zones :
           /\ map[z] \in Leaf
           /\ \A n \in Segs : map[z].made \/ Found(z, n) = {}
           /\ \A n \in Segs : map[z].bmap[n].linear % FRAGS # 0 =>
                map[z].bmap[n] = media.fmap[z].bmap[n]
  BY <1>2, RepairedInv
<1>4. PICK new : new = [z \in Zones |-> RecoverLeaf(z)]
  OBVIOUS
<1>5. ASSUME NEW z \in Zones
      PROVE  /\ new[z].made = map[z].made
             /\ new[z].bmap = [n \in Segs |-> RecoverBmap(z, n, map[z].bmap[n])]
             /\ new[z].bmap \in [Segs -> Bmap] => new[z] \in Leaf
  <2>1. map[z] = Repaired(z) /\ new[z] = RecoverLeaf(z) /\ map[z] \in Leaf
    BY <1>2, <1>3, <1>4
  <2>2. QED
    BY <2>1, RecoverLeafIs
<1>6. ASSUME NEW z \in Zones, NEW n \in Segs
      PROVE  /\ new[z].bmap[n] \in Bmap /\ Shape(new[z].made, new[z].bmap[n], z, n)
             /\ Uniform(new[z].bmap[n], z, n, Refs)
             /\ Under(map[z].bmap[n], new[z].bmap[n])
             /\ \A e \in Found(z, n) : BlocksAt(e.off, e.radix) \subseteq new[z].bmap[n].bits
             /\ (\A e \in Found(z, n) : BlocksAt(e.off, e.radix) \subseteq map[z].bmap[n].bits) =>
                  new[z].bmap[n] = map[z].bmap[n]
  <2>1. PICK bm, made, b : bm = map[z].bmap[n] /\ made = map[z].made /\ b = new[z].bmap[n]
    OBVIOUS
  <2>2. bm \in Bmap /\ made \in BOOLEAN
    BY <1>3, <2>1, LeafType
  <2>3. Shape(made, bm, z, n) /\ Uniform(bm, z, n, Refs) /\ (made \/ Found(z, n) = {})
    BY <1>3, <2>1 DEF MapInv
  <2>4. b = RecoverBmap(z, n, bm) /\ new[z].made = made
    BY <1>5, <2>1
  <2>5. QED
    BY <2>1, <2>2, <2>3, <2>4, RecoverBmapInv
<1>7. MapInv(new, Refs) /\ Below(map, new)
  BY <1>6 DEF MapInv, Below
<1>8. Below(media.fmap, new)
  BY <1>3, <1>7, BelowTrans
<1>9. new \in [Zones -> Leaf]
  <2>1. ASSUME NEW z \in Zones PROVE new[z] \in Leaf
    BY <1>5, <1>6
  <2>2. QED
    BY <1>4, <2>1
<1>10. ASSUME NEW e \in Refs
       PROVE  /\ e.off \in Nat /\ Placed(e) /\ ZoneOf(e.off) \in Zones /\ SegOf(e.off) \in Segs
              /\ MarkedIn(new, e)
  <2>1. e.off \in Nat /\ Placed(e)
    BY <1>1, RefType DEF IInv
  <2>2. ZoneOf(e.off) \in Zones /\ SegOf(e.off) \in Segs
    BY <2>1, RefFacts
  <2>3. CASE e.pmp = Spmp
    <3>1. e \in Found(ZoneOf(e.off), SegOf(e.off))
      BY <1>1, <2>3 DEF Found, Visited
    <3>2. QED
      BY <1>6, <2>1, <2>2, <3>1 DEF MarkedIn
  <2>4. CASE e.pmp # Spmp
    <3>1. MarkedIn(media.fmap, e)
      BY <1>1, <2>4 DEF IInv, MediaInv
    <3>2. QED
      BY <1>8, <2>1, <2>2, <3>1, BelowMarked
  <2>5. QED
    BY <2>1, <2>2, <2>3, <2>4
<1>11. ASSUME ~crashed, NEW z \in Zones, NEW n \in Segs PROVE Iterator(new[z].bmap[n], z, n, mem)
  <2>1. ASSUME NEW e \in Found(z, n) PROVE BlocksAt(e.off, e.radix) \subseteq map[z].bmap[n].bits
    <3>1. e \in Refs /\ ZoneOf(e.off) = z /\ SegOf(e.off) = n
      BY <1>1 DEF Found, Visited
    <3>2. MarkedIn(media.fmap, e)
      BY <1>1, <1>11, <3>1 DEF IInv, DownInv
    <3>3. QED
      BY <1>3, <3>1, <3>2 DEF MarkedIn, Below, Under
  <2>2. new[z].bmap[n] = map[z].bmap[n]
    BY <1>6, <2>1
  <2>3. Iterator(leaf[z].bmap[n], z, n, mem)
    BY <1>11 DEF IInv, OnceInv
  <2>4. QED
    BY <1>1, <1>3, <2>2, <2>3 DEF Iterator
<1>12. TypeOK'
  <2>1. leaf' \in [Zones -> Leaf] /\ heur' \in [Classes -> Zones] /\ ptid' \in [Pfs -> Nat]
    BY <1>1, <1>4, <1>9, ZoneZero, MediaType DEF Mount
  <2>2. QED
    BY <1>1, <2>1, MediaType DEF Mount, TypeOK
<1>13. (\A e \in Refs : Placed(e))' /\ OneClass(Refs)'
  BY <1>1, <1>10 DEF IInv
<1>14. LeafInv' /\ FmapInv' /\ DownInv'
  BY <1>1, <1>4, <1>7, <1>10 DEF LeafInv, FmapInv, DownInv
<1>15. MediaInv'
  BY <1>1, <1>4, <1>8 DEF IInv, MediaInv
<1>16. OnceInv'
  BY <1>1, <1>4, <1>11 DEF IInv, OnceInv
<1>17. QED
  BY <1>12, <1>13, <1>14, <1>15, <1>16 DEF IInv

LEMMA NextInv ==
  ASSUME IInv, [Next]_vars
  PROVE  IInv'
<1>1. CASE UNCHANGED vars
  <2>1. /\ leaf' = leaf /\ heur' = heur /\ pc' = pc /\ mem' = mem /\ ptid' = ptid /\ fmap' = fmap
        /\ media' = media /\ nalloc' = nalloc /\ nsync' = nsync /\ denied' = denied
        /\ crashed' = crashed /\ Refs' = Refs
    BY <1>1 DEF vars, Refs
  <2>2. TypeOK' /\ (\A e \in Refs : Placed(e))' /\ OneClass(Refs)'
    BY <2>1 DEF IInv, TypeOK
  <2>3. LeafInv' /\ FmapInv' /\ MediaInv' /\ DownInv' /\ OnceInv'
    BY <2>1 DEF IInv, LeafInv, FmapInv, MediaInv, DownInv, OnceInv
  <2>4. QED
    BY <2>2, <2>3 DEF IInv
<1>2. ASSUME NEW q \in Requests, NEW p \in Pfs \cup {Spmp}, ChainModify(q[1], q[2], p)
      PROVE  IInv'
  BY <1>2, ChainModifyInv
<1>3. ASSUME NEW p \in Pfs, FlushPfs(p) PROVE IInv'
  BY <1>3, FlushPfsInv
<1>4. CASE FlushFreemap
  BY <1>4, FlushFreemapInv
<1>5. CASE FlushVolume
  BY <1>5, FlushVolumeInv
<1>6. CASE Unmount
  BY <1>6, UnmountInv
<1>7. CASE Crash
  BY <1>7, CrashInv
<1>8. CASE Mount
  BY <1>8, MountInv
<1>9. QED
  BY <1>1, <1>2, <1>3, <1>4, <1>5, <1>6, <1>7, <1>8 DEF Next

-----------------------------------------------------------------------------
(* What the freemap promises *)

\* The freemap in memory, the flushed one and the one on the media keep their
\* shape, mark what they must and stand in their order, and the references keep
\* to their segments, in every reachable state of hammer2_freemap.c.
THEOREM Invariant == Spec => []IInv
<1>1. Init => IInv
  BY InitInv
<1>2. IInv /\ [Next]_vars => IInv'
  BY NextInv
<1>3. QED
  BY <1>1, <1>2, PTL DEF Spec

\* Offsets stay in the volume, bitmaps in their segments and avail in 32 bits,
\* after wrapping subtractions too (hammer2_bmap_alloc, hammer2_freemap_adjust).
THEOREM TypeCorrect == Spec => []TypeOK
<1>1. IInv => TypeOK
  BY DEF IInv
<1>2. QED
  BY <1>1, Invariant, PTL

\* A reference and its segment.
LEMMA RefPlace ==
  ASSUME IInv, NEW e \in mem,
         NEW z, NEW n, NEW o, z = ZoneOf(e.off), n = SegOf(e.off), o = Pos(e)
  PROVE  /\ z \in Zones /\ z \in Nat /\ n \in Segs /\ n \in Nat /\ o \in 0..(SEGSIZE - 1)
         /\ e.off = z * ZONE + n * SEGSIZE + o /\ e.off \in Nat
         /\ e.off = (z * COUNT + n) * SEGSIZE + o /\ e.off \div SEGSIZE = z * COUNT + n
         /\ e.off % ZONE = n * SEGSIZE + o
         /\ Size(e.radix) \in Nat \ {0} /\ o + Size(e.radix) <= SEGSIZE
         /\ IsFree(z, n) /\ Holds(o, e.radix) /\ e.radix \in Radixes
<1>1. e \in Refs /\ TypeOK
  BY DEF IInv, Refs
<1>2. e.off \in Nat /\ Placed(e)
  BY <1>1, RefType DEF IInv
<1>3. /\ z \in Zones /\ n \in Segs /\ o \in 0..(SEGSIZE - 1) /\ e.radix \in Radixes
      /\ o + Size(e.radix) <= SEGSIZE
  BY <1>2, RefFacts
<1>4. z \in Nat /\ n \in Nat
  BY <1>3, ZonesNat, BlocksNat
<1>5. e.off = z * ZONE + n * SEGSIZE + o
  BY <1>2, SegParts DEF Pos
<1>6. /\ e.off \div SEGSIZE = z * COUNT + n /\ e.off = (z * COUNT + n) * SEGSIZE + o
      /\ e.off % ZONE = n * SEGSIZE + o
  BY <1>3, <1>4, <1>5, SegAt
<1>7. Size(e.radix) \in Nat \ {0}
  BY <1>3, SizeType
<1>8. QED
  BY <1>2, <1>3, <1>4, <1>5, <1>6, <1>7 DEF Placed

\* References that are apart do not overlap.
LEMMA ApartDisjoint ==
  ASSUME IInv, NEW e \in mem, NEW f \in mem, Apart(e, f)
  PROVE  ~Overlap(e, f)
<1>1. PICK z, n, o : z = ZoneOf(e.off) /\ n = SegOf(e.off) /\ o = Pos(e)
  OBVIOUS
<1>2. PICK y, m, u : y = ZoneOf(f.off) /\ m = SegOf(f.off) /\ u = Pos(f)
  OBVIOUS
<1>3. /\ z \in Nat /\ n \in Nat /\ o \in 0..(SEGSIZE - 1)
      /\ e.off = (z * COUNT + n) * SEGSIZE + o /\ e.off \div SEGSIZE = z * COUNT + n
      /\ Size(e.radix) \in Nat \ {0} /\ o + Size(e.radix) <= SEGSIZE
      /\ e.off = z * ZONE + n * SEGSIZE + o
  BY <1>1, RefPlace
<1>4. /\ y \in Nat /\ m \in Nat /\ u \in 0..(SEGSIZE - 1)
      /\ f.off = (y * COUNT + m) * SEGSIZE + u /\ f.off \div SEGSIZE = y * COUNT + m
      /\ Size(f.radix) \in Nat \ {0} /\ u + Size(f.radix) <= SEGSIZE
      /\ f.off = y * ZONE + m * SEGSIZE + u
  BY <1>2, RefPlace
<1>5. PICK s \in Nat \ {0}, c \in Nat \ {0}, g \in Nat \ {0} : s = SEGSIZE /\ c = COUNT /\ g = ZONE
  BY Sizes
<1>6. PICK i \in Nat, j \in Nat : i = z * c + n /\ j = y * c + m
  BY <1>3, <1>4, <1>5
<1>7. PICK x \in Nat \ {0}, w \in Nat \ {0} : x = Size(e.radix) /\ w = Size(f.radix)
  BY <1>3, <1>4
<1>8. e.off = i * s + o /\ f.off = j * s + u /\ o + x <= s /\ u + w <= s
      /\ o \in Nat /\ u \in Nat
  BY <1>3, <1>4, <1>5, <1>6, <1>7
<1>9. CASE i < j
  <2>1. i * s + s <= j * s
    BY <1>9, MulStep
  <2>2. e.off + x <= f.off
    BY <1>8, <2>1
  <2>3. QED
    BY <1>7, <1>8, <2>2 DEF Overlap
<1>10. CASE j < i
  <2>1. j * s + s <= i * s
    BY <1>10, MulStep
  <2>2. f.off + w <= e.off
    BY <1>8, <2>1
  <2>3. QED
    BY <1>7, <1>8, <2>2 DEF Overlap
<1>11. CASE i = j
  <2>1. z = y /\ n = m
    <3>1. z * c + n = y * c + m /\ n \in 0..(c - 1) /\ m \in 0..(c - 1)
      <4>1. n \in Segs /\ m \in Segs
        BY <1>1, <1>2, RefPlace
      <4>2. QED
        BY <1>5, <1>6, <1>11, <4>1 DEF Segs
    <3>2. PICK a \in Nat : a = z * c + n
      BY <1>3
    <3>3. a \div c = z /\ a % c = n
      BY <1>3, <3>1, <3>2, DivUnique
    <3>4. a \div c = y /\ a % c = m
      BY <1>4, <3>1, <3>2, DivUnique
    <3>5. QED
      BY <3>3, <3>4
  <2>2. o + x <= u \/ u + w <= o
    BY <1>1, <1>2, <1>7, <2>1 DEF Apart, In
  <2>3. e.off + x <= f.off \/ f.off + w <= e.off
    BY <1>8, <1>11, <2>2
  <2>4. e.off \in Nat /\ f.off \in Nat
    BY <1>8
  <2>5. QED
    BY <1>7, <2>3, <2>4 DEF Overlap
<1>12. QED
  BY <1>9, <1>10, <1>11

\* Without a crash hammer2_freemap_alloc never hands out a unit twice, across
\* clean unmounts and mounts too.
THEOREM HandedOutOnce == Spec => []Disjoint
<1>1. IInv => Disjoint
  <2>1. SUFFICES ASSUME IInv, ~crashed, NEW e \in mem, NEW f \in mem, e # f
                 PROVE  ~Overlap(e, f)
    BY DEF Disjoint
  <2>2. Apart(e, f)
    BY <2>1 DEF IInv, OnceInv
  <2>3. QED
    BY <2>1, <2>2, ApartDisjoint
<1>2. QED
  BY <1>1, Invariant, PTL

\* hammer2_recovery makes up for what the freemap on the media lacks: on a
\* mounted volume all blocks in use are marked, after any crash.
THEOREM AllMarked == Spec => []InUseMarked
<1>1. IInv => InUseMarked
  BY DEF IInv, LeafInv, InUseMarked, MarkedIn, Marked, Refs
<1>2. QED
  BY <1>1, Invariant, PTL

\* The KKASSERTs of hammer2_freemap_try_alloc hold, and a segment is used with
\* one device block size.
THEOREM InPlace == Spec => []WellPlaced
<1>1. ASSUME IInv, NEW e \in mem
      PROVE  /\ e.off >= AllocBeg /\ e.off + Size(e.radix) <= VoluSize
             /\ e.off % ZONE >= ZoneSegs * SEGSIZE
  <2>1. PICK z, n, o : z = ZoneOf(e.off) /\ n = SegOf(e.off) /\ o = Pos(e)
    OBVIOUS
  <2>2. /\ z \in Zones /\ z \in Nat /\ n \in Segs /\ n \in Nat /\ o \in 0..(SEGSIZE - 1)
        /\ e.off = z * ZONE + n * SEGSIZE + o /\ e.off % ZONE = n * SEGSIZE + o
        /\ Size(e.radix) \in Nat \ {0} /\ o + Size(e.radix) <= SEGSIZE /\ IsFree(z, n)
    BY <1>1, <2>1, RefPlace
  <2>3. /\ AllocBeg <= z * ZONE + n * SEGSIZE
        /\ z * ZONE + n * SEGSIZE + SEGSIZE <= VoluSize
        /\ ZoneSegs * SEGSIZE <= n * SEGSIZE
    BY <2>2, FreeSegment
  <2>4. PICK s \in Nat, a \in Nat, b \in Nat, k \in Nat, x \in Nat :
          s = SEGSIZE /\ a = z * ZONE /\ b = n * SEGSIZE /\ k = ZoneSegs * SEGSIZE /\ x = Size(e.radix)
    <3>1. PICK i \in Nat, s \in Nat, g \in Nat, w \in Nat :
            i = ZoneSegs /\ s = SEGSIZE /\ g = ZONE /\ w = Size(e.radix)
      <4>1. ZoneSegs \in Nat /\ SEGSIZE \in Nat /\ ZONE \in Nat
        BY Sizes, GeometryAssumption
      <4>2. Size(e.radix) \in Nat
        BY <2>2
      <4>3. QED
        BY <4>1, <4>2
    <3>2. z * g \in Nat /\ n * s \in Nat /\ i * s \in Nat
      BY <2>2, <3>1, MulNat
    <3>3. QED
      BY <3>1, <3>2
  <2>5. VoluSize \in Nat /\ AllocBeg \in Nat
    BY GeometryAssumption
  <2>6. QED
    BY <2>2, <2>3, <2>4, <2>5
<1>2. ASSUME IInv, NEW e \in mem, NEW f \in mem, e.off \div SEGSIZE = f.off \div SEGSIZE
      PROVE  DevBlk(e.radix) = DevBlk(f.radix)
  <2>1. PICK z, n, o : z = ZoneOf(e.off) /\ n = SegOf(e.off) /\ o = Pos(e)
    OBVIOUS
  <2>2. PICK y, m, u : y = ZoneOf(f.off) /\ m = SegOf(f.off) /\ u = Pos(f)
    OBVIOUS
  <2>3. z \in Nat /\ n \in Segs /\ n \in Nat /\ e.off \div SEGSIZE = z * COUNT + n
    BY <1>2, <2>1, RefPlace
  <2>4. y \in Nat /\ m \in Segs /\ m \in Nat /\ f.off \div SEGSIZE = y * COUNT + m
    BY <1>2, <2>2, RefPlace
  <2>5. PICK c \in Nat \ {0} : c = COUNT
    BY Sizes
  <2>6. PICK a \in Nat : a = z * c + n /\ a = y * c + m
    BY <1>2, <2>3, <2>4, <2>5
  <2>7. n \in 0..(c - 1) /\ m \in 0..(c - 1)
    BY <2>3, <2>4, <2>5 DEF Segs
  <2>8. a \div c = z /\ a % c = n
    BY <2>3, <2>6, <2>7, DivUnique
  <2>9. a \div c = y /\ a % c = m
    BY <2>4, <2>6, <2>7, DivUnique
  <2>10. In(f, ZoneOf(e.off), SegOf(e.off))
    BY <2>1, <2>2, <2>8, <2>9 DEF In
  <2>11. Class(f.type, f.radix) = Class(e.type, e.radix)
    BY <1>2, <2>10 DEF IInv, OneClass, Refs
  <2>12. QED
    BY <2>11 DEF Class
<1>3. IInv => WellPlaced
  BY <1>1, <1>2 DEF WellPlaced
<1>4. QED
  BY <1>3, Invariant, PTL

\* Without a crash the linear iterator of hammer2_bmap_alloc, inside a block,
\* stands behind all that was allocated in the block.
THEOREM BehindIterator == Spec => []LinearBehind
<1>1. ASSUME IInv, ~crashed, NEW z \in Zones, NEW n \in Segs, NEW bm, bm = leaf[z].bmap[n],
             NEW base, base = z * ZONE + n * SEGSIZE, bm.linear % FRAGS # 0
      PROVE  /\ bm.linear \div FRAGS \in bm.bits
             /\ \A e \in mem : e.off \div FRAGS = (base + bm.linear) \div FRAGS =>
                                 e.off + Size(e.radix) <= base + bm.linear
  <2>1. Iterator(bm, z, n, mem)
    BY <1>1 DEF IInv, OnceInv
  <2>2. bm \in Bmap
    <3>1. leaf[z] \in Leaf
      BY <1>1 DEF IInv, TypeOK
    <3>2. QED
      BY <1>1, <3>1, LeafType
  <2>3. bm.linear \in 0..SEGSIZE
    BY <2>2, BmapType
  <2>4. PICK f \in Nat \ {0}, k \in Nat \ {0}, s \in Nat \ {0}, c \in Nat \ {0} :
          f = FRAGS /\ k = BLOCKS /\ s = SEGSIZE /\ c = COUNT /\ s = k * f
    BY Sizes
  <2>5. z \in Nat /\ n \in Nat
    BY ZonesNat, BlocksNat
  <2>6. PICK l \in 0..s, g \in Nat : l = bm.linear /\ g = ZONE /\ g = c * s
    BY <2>3, <2>4, Sizes
  <2>7. PICK i \in Nat : i = z * c + n
    BY <2>4, <2>5
  <2>8. base = i * s
    <3>1. z * g = (z * c) * s
      BY <2>4, <2>5, <2>6
    <3>2. QED
      BY <1>1, <2>4, <2>5, <2>6, <2>7, <3>1
  <2>9. PICK h \in Nat : h = i * k
    BY <2>4, <2>7
  <2>10. base = h * f
    BY <2>4, <2>7, <2>8, <2>9
  <2>11. PICK d \in Nat, x \in 0..(f - 1) : l = d * f + x /\ d = l \div f /\ x = l % f
    <3>1. l \in Nat
      BY <2>6
    <3>2. QED
      BY <3>1, DivMod
  <2>12. (base + l) \div f = h + d
    <3>1. PICK q \in Nat, a \in Nat : q = h + d /\ a = h * f + l
      <4>1. h * f \in Nat /\ l \in Nat
        BY <2>6, MulNat
      <4>2. QED
        BY <4>1
    <3>2. q * f = h * f + d * f
      BY <3>1, Distribute
    <3>3. a = q * f + x
      BY <2>11, <3>1, <3>2
    <3>4. a \div f = q
      BY <3>3, DivUnique
    <3>5. QED
      BY <2>10, <3>1, <3>4
  <2>13. ASSUME NEW e \in mem, e.off \div FRAGS = (base + bm.linear) \div FRAGS
         PROVE  e.off + Size(e.radix) <= base + bm.linear
    <3>1. PICK y, m, o : y = ZoneOf(e.off) /\ m = SegOf(e.off) /\ o = Pos(e)
      OBVIOUS
    <3>2. /\ y \in Nat /\ m \in Segs /\ m \in Nat /\ o \in 0..(SEGSIZE - 1)
          /\ e.off = (y * COUNT + m) * SEGSIZE + o
          /\ Size(e.radix) \in Nat \ {0}
      BY <1>1, <3>1, RefPlace
    <3>3. PICK j \in Nat, w \in Nat : j = y * c + m /\ w = Size(e.radix)
      <4>1. y * c + m \in Nat
        BY <3>2
      <4>2. Size(e.radix) \in Nat
        BY <3>2
      <4>3. QED
        BY <4>1, <4>2
    <3>4. PICK a \in Nat, b \in 0..(f - 1) : o = a * f + b /\ a = o \div f /\ b = o % f
      <4>1. o \in Nat
        BY <2>4, <3>2
      <4>2. QED
        BY <4>1, DivMod
    <3>5. PICK t \in Nat : t = j * k
      BY <2>4, <3>3
    <3>6. e.off = j * s + o /\ j * s = t * f /\ e.off \in Nat /\ o \in 0..(s - 1)
      <4>1. e.off = j * s + o /\ o \in 0..(s - 1)
        BY <2>4, <3>2, <3>3
      <4>2. j * s = t * f
        BY <2>4, <3>5
      <4>3. j * s \in Nat
        BY MulNat
      <4>4. QED
        BY <4>1, <4>2, <4>3
    <3>7. PICK q \in Nat, p \in Nat : q = t + a /\ p = e.off
      BY <3>6
    <3>8. e.off \div f = t + a
      <4>1. q * f = t * f + a * f
        BY <3>7, Distribute
      <4>2. p = q * f + b
        <5>1. PICK x1 \in Nat, x2 \in Nat : x1 = t * f /\ x2 = a * f
          BY MulNat
        <5>2. p = x1 + o /\ o = x2 + b /\ q * f = x1 + x2
          BY <3>4, <3>6, <3>7, <4>1, <5>1
        <5>3. QED
          BY <5>1, <5>2
      <4>3. p \div f = q
        BY <4>2, DivUnique
      <4>4. QED
        BY <3>7, <4>3
    <3>9. t + a = h + d
      BY <2>4, <2>6, <2>12, <2>13, <3>8
    <3>10. a < k
      <4>1. a * f < k * f
        BY <2>4, <3>4, <3>6
      <4>2. ~(k <= a)
        BY <2>4, <3>4, <4>1, MulMono
      <4>3. QED
        BY <2>4, <3>4, <4>2
    <3>11. d < k
      <4>1. bm.linear \div FRAGS \in Blocks
        BY <1>1, <2>1, <2>2, BmapType DEF Iterator
      <4>2. QED
        BY <2>4, <2>6, <2>11, <4>1 DEF Blocks
    <3>12. i = j /\ a = d
      <4>1. PICK v \in Nat : v = j * k + a /\ v = i * k + d
        BY <2>4, <2>7, <2>9, <2>11, <3>3, <3>4, <3>5, <3>9
      <4>2. a \in 0..(k - 1) /\ d \in 0..(k - 1)
        BY <3>10, <3>11
      <4>3. v \div k = j /\ v % k = a
        BY <4>1, <4>2, DivUnique
      <4>4. v \div k = i /\ v % k = d
        BY <4>1, <4>2, DivUnique
      <4>5. QED
        BY <4>3, <4>4
    <3>13. y = z /\ m = n
      <4>1. n \in 0..(c - 1) /\ m \in 0..(c - 1)
        BY <2>4, <3>2 DEF Segs
      <4>2. i \div c = z /\ i % c = n
        BY <2>4, <2>5, <2>7, <4>1, DivUnique
      <4>3. i = y * c + m /\ y \in Nat
        BY <3>2, <3>3, <3>12
      <4>4. i \div c = y /\ i % c = m
        BY <4>1, <4>3, DivUnique
      <4>5. QED
        BY <4>2, <4>4
    <3>14. Pos(e) + Size(e.radix) <= bm.linear
      <4>1. In(e, z, n) /\ Pos(e) \div FRAGS = bm.linear \div FRAGS
        BY <2>4, <2>6, <2>11, <3>1, <3>4, <3>12, <3>13 DEF In
      <4>2. QED
        BY <1>1, <2>1, <2>13, <4>1 DEF Iterator
    <3>15. o + w <= l
      BY <2>6, <3>1, <3>3, <3>14
    <3>16. QED
      BY <2>4, <2>6, <2>7, <2>8, <3>3, <3>6, <3>12, <3>15
  <2>14. QED
    BY <1>1, <2>1, <2>13 DEF Iterator
<1>2. IInv => LinearBehind
  BY <1>1 DEF LinearBehind
<1>3. QED
  BY <1>2, Invariant, PTL
=============================================================================
