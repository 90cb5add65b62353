--------------------------- MODULE VirtualizerProofs ---------------------------
(***************************************************************************)
(* Proofs about the virtualizers, for every size of the address space, of  *)
(* the header, of pages, units and chunks, and for all that clients may    *)
(* ask for: the structures and the heap of a placed allocator fit its      *)
(* region, and the heap is as large as it can be; AddRegion uses the whole *)
(* granules of what it is given; and what is taken from the wrapped        *)
(* allocator is given back in full, while the bytes of a buffer are its    *)
(* client's alone.                                                         *)
(***************************************************************************)
EXTENDS Virtualizer, TLAPS

\* The lemmas about numbers.  They name no constant, but the module they are in
\* assumes something of its own.
Numbers == INSTANCE RegionListProofs WITH AddressSpan <- 2, SizeMax <- 1

\* What that module assumes holds of the two numbers given to it here.
LEMMA Widths == Numbers!WidthAssumption
BY DEF Numbers!WidthAssumption

USE Widths

-----------------------------------------------------------------------------
(* Where Place puts things.                                                *)

LEMMA RoundedUpFacts ==
    ASSUME NEW a \in Nat \ {0}, NEW n \in Int
    PROVE  /\ RoundedUp(n, a) \in Int
           /\ n <= RoundedUp(n, a) /\ RoundedUp(n, a) <= n + a - 1
           /\ RoundedUp(n, a) % a = 0
  BY Numbers!RoundingUp DEF RoundedUp

LEMMA MinOfTwo ==
    ASSUME NEW m \in Int, NEW n \in Int
    PROVE  Min({m, n}) = IF m <= n THEN m ELSE n
  BY DEF Min

\* What LayoutFits says of a layout.
Fits(kind, region, size, unit, layout) ==
    LET bits == layout.heap \div layout.granule
    IN  /\ layout.heap % layout.granule = 0
        /\ layout # Nowhere =>
            /\ layout.first >= region + layout.metadata
            /\ layout.first + layout.heap <= region + size
            /\ layout.metadata >= ObjectSize + layout.bitmap
            /\ kind = "list" =>
                /\ layout.first % layout.granule = 0
                /\ layout.metadata >= RoundedUp(StackSize, unit) + ObjectSize
            /\ kind = "bitmap" =>
                ((bits + 8 * unit - 1) \div (8 * unit)) * unit <= layout.bitmap

\* The heap lies in the region.
Inside(region, size, layout) ==
    From(layout.first, layout.heap) \subseteq From(region, size)

LEMMA NowhereInside ==
    ASSUME NEW region, NEW size
    PROVE  Inside(region, size, Nowhere)
<1>1. Nowhere.first = 0 /\ Nowhere.heap = 0
      BY DEF Nowhere, Layout
<1> QED BY <1>1 DEF Inside, From

LEMMA RangeInside ==
    ASSUME NEW a \in Int, NEW n \in Int, NEW b \in Int, NEW m \in Int,
           b <= a, a + n <= b + m
    PROVE  From(a, n) \subseteq From(b, m)
BY DEF From

\* The bitmaps are whole units and whole pages.
LEMMA UnitAndPage ==
    ASSUME NEW page \in Nat \ {0}, NEW unit \in Nat \ {0},
           unit % page = 0 \/ page % unit = 0
    PROVE  /\ RoundedUp(unit, page) \in Nat \ {0}
           /\ RoundedUp(unit, page) % page = 0
           /\ RoundedUp(unit, page) % unit = 0
<1> DEFINE align == RoundedUp(unit, page)
<1>1. /\ align \in Nat \ {0} /\ align % page = 0
      /\ unit <= align /\ align <= unit + page - 1
  <2>1. unit \in Int
        OBVIOUS
  <2>2. /\ align \in Int /\ align % page = 0
        /\ unit <= align /\ align <= unit + page - 1
        BY <2>1, RoundedUpFacts
  <2> HIDE DEF align
  <2> QED BY <2>2
<1> HIDE DEF align
<1>2. unit \in Int /\ align \in Int
      BY <1>1
<1>3. CASE unit % page = 0
  <2>1. unit < align => unit + page <= align
        BY <1>1, <1>2, <1>3, Numbers!MultiplesApart, ZenonT(60)
  <2>2. align = unit
        BY <1>1, <1>2, <2>1
  <2>3. unit % unit = 0
        OBVIOUS
  <2> QED BY <1>1, <2>2, <2>3 DEF align
<1>4. CASE page % unit = 0
  <2>1. align % unit = 0
        BY <1>1, <1>2, <1>4, Numbers!MultipleOfMultiple, ZenonT(60)
  <2> QED BY <1>1, <2>1 DEF align
<1> QED BY <1>3, <1>4

LEMMA BitmapSize ==
    ASSUME NEW page \in Nat \ {0}, NEW unit \in Nat \ {0},
           unit % page = 0 \/ page % unit = 0, NEW usable \in Nat
    PROVE  /\ BestBitmapSize(usable, page, unit) \in Nat
           /\ BestBitmapSize(usable, page, unit) % page = 0
           /\ BestBitmapSize(usable, page, unit) % unit = 0
<1> DEFINE align == RoundedUp(unit, page)
           lower == RoundedUp(usable \div (page * 8 + 1), align)
           bitmap == BestBitmapSize(usable, page, unit)
<1>1. align \in Nat \ {0} /\ align % page = 0 /\ align % unit = 0
      BY UnitAndPage
<1>2. bitmap \in {0, lower, lower + align}
      BY DEF BestBitmapSize
<1> HIDE DEF align, bitmap
<1> DEFINE q == usable \div (page * 8 + 1)
<1>3. q \in Nat
      OBVIOUS
<1>4. lower \in Int /\ q <= lower /\ lower % align = 0
  <2> HIDE DEF q
  <2>1. q \in Int
        BY <1>3
  <2>2. RoundedUp(q, align) \in Int /\ q <= RoundedUp(q, align)
        /\ RoundedUp(q, align) % align = 0
        BY <1>1, <2>1, RoundedUpFacts
  <2> QED BY <2>2 DEF q
<1> HIDE DEF q, lower
<1>5. lower \in Nat
      BY <1>3, <1>4
<1>6. 0 % align = 0 /\ align % align = 0
      BY <1>1
<1>7. (lower + align) % align = 0
  <2>1. lower \in Int /\ align \in Int
        BY <1>1, <1>5
  <2> QED BY <1>1, <1>4, <1>6, <2>1, Numbers!MultipleSum, ZenonT(60)
<1>8. bitmap \in Nat /\ bitmap % align = 0
      BY <1>1, <1>2, <1>4, <1>5, <1>6, <1>7
<1>9. bitmap \in Int
      BY <1>8
<1>10. bitmap % page = 0
      BY <1>1, <1>8, <1>9, Numbers!MultipleOfMultiple, ZenonT(60)
<1>11. bitmap % unit = 0
      BY <1>1, <1>8, <1>9, Numbers!MultipleOfMultiple, ZenonT(60)
<1> QED BY <1>8, <1>10, <1>11 DEF bitmap

\* The heap is not longer than what the bitmap can cover: it has a bit for
\* each page, though it is counted in whole units.
LEMMA BitsFit ==
    ASSUME NEW page \in Nat \ {0}, NEW unit \in Nat \ {0}, NEW bitmap \in Nat,
           bitmap % unit = 0, NEW heap \in Int, heap % page = 0,
           heap <= page * bitmap * 8
    PROVE  (((heap \div page) + 8 * unit - 1) \div (8 * unit)) * unit <= bitmap
<1> DEFINE bits == heap \div page
           k == bitmap \div unit
           u == 8 * unit
           units == (bits + u - 1) \div u
<1>1. bits \in Int /\ heap = bits * page
      BY Numbers!MultipleFactor, ZenonT(60)
<1>2. k \in Int /\ bitmap = k * unit
  <2>1. bitmap \in Int
        OBVIOUS
  <2> QED BY <2>1, Numbers!MultipleFactor, ZenonT(60)
<1> HIDE DEF bits, k
<1>3. bits <= bitmap * 8
  <2>1. page * bitmap * 8 = (bitmap * 8) * page
        OBVIOUS
  <2> DEFINE all == bitmap * 8
             allPages == all * page
             bitPages == bits * page
  <2>2. all \in Int /\ allPages \in Int /\ bitPages \in Int
        BY <1>1
  <2>3. bitPages <= allPages
        BY <1>1, <2>1
  <2>4. all < bits => allPages + page <= bitPages
    <3> HIDE DEF all
    <3> QED BY <1>1, <2>2, Numbers!ProductNext
  <2> HIDE DEF all, allPages, bitPages
  <2>5. bits <= all
        BY <1>1, <2>2, <2>3, <2>4
  <2> QED BY <2>5 DEF all
<1>4. u \in Nat \ {0} /\ bitmap * 8 = k * u
      BY <1>2
<1> HIDE DEF u
<1>5. /\ units * u \in Int /\ units \in Int
      /\ units * u <= bits + u - 1
  <2>1. units \in Int
        BY <1>1, <1>4
  <2>2. units * u <= bits + u - 1
        BY <1>1, <1>4, Numbers!RoundingUp
  <2> HIDE DEF units
  <2> QED BY <1>4, <2>1, <2>2
<1> HIDE DEF units
<1>6. units <= k
  <2>1. k < units => k * u + u <= units * u
        BY <1>2, <1>4, <1>5, Numbers!ProductNext
  <2> DEFINE ku == k * u
             uu == units * u
  <2>2. ku \in Int /\ uu \in Int /\ bits <= ku /\ uu <= bits + u - 1
        BY <1>2, <1>3, <1>4, <1>5
  <2>3. k < units => ku + u <= uu
        BY <2>1
  <2> HIDE DEF ku, uu
  <2> QED BY <1>1, <1>2, <1>4, <1>5, <2>2, <2>3
<1>7. units * unit <= k * unit
      BY <1>2, <1>5, <1>6, Numbers!ProductOrder
<1> QED BY <1>2, <1>7 DEF units, bits, u

LEMMA BitmapFits ==
    ASSUME NEW page \in Nat \ {0}, NEW unit \in Nat \ {0},
           unit % page = 0 \/ page % unit = 0,
           NEW region \in Nat, NEW size \in Nat
    PROVE  /\ Fits("bitmap", region, size, unit, PlaceObject(region, size, page, unit))
           /\ Inside(region, size, PlaceObject(region, size, page, unit))
<1> DEFINE layout == PlaceObject(region, size, page, unit)
           structure == RoundedUp(ObjectSize, RoundedUp(unit, page))
           usable == ((size - structure) \div page) * page
           bitmap == BestBitmapSize(usable, page, unit)
           heap == FreeSizeForBitmap(usable, page, bitmap)
<1>1. CASE layout = Nowhere
  <2>1. Nowhere.heap % Nowhere.granule = 0
        BY DEF Nowhere, Layout
  <2> QED BY <1>1, <2>1, NowhereInside DEF Fits
<1>2. CASE layout # Nowhere
  <2>1. structure \in Nat /\ ObjectSize <= structure
    <3>1. ObjectSize \in Nat /\ ObjectSize \in Int
          BY PlacementSizes
    <3>2. RoundedUp(unit, page) \in Nat \ {0}
          BY UnitAndPage
    <3>3. structure \in Int /\ ObjectSize <= structure
          BY <3>1, <3>2, RoundedUpFacts
    <3> HIDE DEF structure
    <3> QED BY <3>1, <3>3
  <2>2. /\ structure <= size
        /\ layout = Layout(structure + bitmap, bitmap, page,
                           region + structure + bitmap, heap)
    <3>1. layout = IF structure > size THEN Nowhere
                   ELSE Layout(structure + bitmap, bitmap, page,
                               region + structure + bitmap, heap)
          BY DEF PlaceObject
    <3>2. ~ (structure > size) => structure <= size
      <4> HIDE DEF structure
      <4> QED BY <2>1
    <3> QED BY <1>2, <3>1, <3>2
  <2> HIDE DEF structure
  <2>3. usable \in Nat /\ usable <= size - structure /\ usable % page = 0
    <3> DEFINE m == size - structure
               q == m \div page
    <3>1. m \in Nat
          BY <2>1, <2>2
    <3> HIDE DEF m
    <3>2. q \in Nat /\ m % page \in Nat /\ m = q * page + (m % page)
          BY <3>1, Numbers!Division
    <3> HIDE DEF q
    <3> DEFINE qp == q * page
    <3>3. qp \in Nat
          BY <3>2
    <3>4. qp % page = 0
      <4>1. q \in Int /\ qp \in Int
            BY <3>2, <3>3
      <4> QED BY <4>1, Numbers!Quotient
    <3>5. usable = qp
          BY DEF q, m
    <3>6. m = qp + (m % page)
          BY <3>2
    <3> HIDE DEF qp
    <3>7. qp <= m
          BY <3>1, <3>2, <3>3, <3>6
    <3> QED BY <3>3, <3>4, <3>5, <3>7 DEF m
  <2> HIDE DEF usable
  <2>4. bitmap \in Nat /\ bitmap % page = 0 /\ bitmap % unit = 0
    <3>1. \A n \in Nat : /\ BestBitmapSize(n, page, unit) \in Nat
                         /\ BestBitmapSize(n, page, unit) % page = 0
                         /\ BestBitmapSize(n, page, unit) % unit = 0
          BY BitmapSize
    <3> QED BY <2>3, <3>1
  <2> HIDE DEF bitmap
  <2> DEFINE rest == usable - bitmap
             covered == page * bitmap * 8
  <2>5. rest \in Int /\ covered \in Int
        BY <2>3, <2>4
  <2>6. heap = IF rest <= covered THEN rest ELSE covered
    <3>1. heap = Min({rest, covered})
          BY DEF FreeSizeForBitmap
    <3> HIDE DEF rest, covered
    <3> QED BY <2>5, <3>1, MinOfTwo
  <2>7. rest % page = 0
    <3>1. usable \in Int /\ bitmap \in Int
          BY <2>3, <2>4
    <3> QED BY <2>3, <2>4, <3>1, Numbers!MultipleSum, ZenonT(60)
  <2>8. covered % page = 0
    <3> DEFINE k == 8 * page
    <3>1. bitmap \in Int /\ k \in Int /\ covered = k * bitmap
          BY <2>4
    <3> HIDE DEF k
    <3> QED BY <2>4, <3>1, Numbers!MultipleProduct
  <2> HIDE DEF rest, covered, heap
  <2>9. heap \in Int /\ heap % page = 0 /\ heap <= rest /\ heap <= covered
        BY <2>5, <2>6, <2>7, <2>8
  <2>10. (((heap \div page) + 8 * unit - 1) \div (8 * unit)) * unit <= bitmap
        BY <2>4, <2>9, BitsFit DEF covered
  <2>11. /\ region + structure + bitmap >= region + (structure + bitmap)
         /\ region + structure + bitmap + heap <= region + size
         /\ structure + bitmap >= ObjectSize + bitmap
    <3>1. rest = usable - bitmap /\ ObjectSize \in Nat
          BY PlacementSizes DEF rest
    <3> QED BY <2>1, <2>2, <2>3, <2>4, <2>9, <3>1
  <2>12. /\ layout.heap = heap /\ layout.granule = page
         /\ layout.first = region + structure + bitmap
         /\ layout.metadata = structure + bitmap /\ layout.bitmap = bitmap
        BY <2>2 DEF Layout
  <2>13. Inside(region, size, layout)
    <3>1. /\ region \in Int /\ size \in Int
          /\ region + structure + bitmap \in Int
          /\ region <= region + structure + bitmap
          BY <2>1, <2>4
    <3>2. From(region + structure + bitmap, heap) \subseteq From(region, size)
          BY <2>9, <2>11, <3>1, RangeInside
    <3> HIDE DEF layout
    <3> QED BY <2>12, <3>2 DEF Inside
  <2> HIDE DEF layout
  <2> QED BY <2>9, <2>10, <2>11, <2>12, <2>13 DEF Fits, layout
<1> QED BY <1>1, <1>2

LEMMA ListFits ==
    ASSUME NEW objectAlign \in Nat \ {0}, ChunkFor(objectAlign) \in Nat \ {0},
           NEW region \in Nat, NEW size \in Nat
    PROVE  /\ Fits("list", region, size, objectAlign,
                   PlaceInstance(region, size, objectAlign))
           /\ Inside(region, size, PlaceInstance(region, size, objectAlign))
<1> DEFINE layout == PlaceInstance(region, size, objectAlign)
           chunk == ChunkFor(objectAlign)
           objects == ObjectsFor(objectAlign)
           first == RoundedUp(region + objects, chunk)
           metadata == first - region
           remaining == size - metadata
           heap == remaining - (remaining % chunk)
<1>1. CASE layout = Nowhere
  <2>1. Nowhere.heap % Nowhere.granule = 0
        BY DEF Nowhere, Layout
  <2> QED BY <1>1, <2>1, NowhereInside DEF Fits
<1>2. CASE layout # Nowhere
  <2>1. layout = IF metadata + chunk > size THEN Nowhere
                 ELSE Layout(metadata, 0, chunk, region + metadata, heap)
        BY DEF PlaceInstance
  <2> DEFINE s == RoundedUp(StackSize, objectAlign)
  <2>2. /\ objects \in Int /\ ObjectSize \in Int /\ s \in Int
        /\ s + ObjectSize <= objects /\ ObjectSize <= s + ObjectSize
    <3> DEFINE o == RoundedUp(ObjectSize, objectAlign)
    <3>1. ObjectSize \in Int /\ StackSize \in Nat /\ StackSize \in Int
          BY PlacementSizes
    <3>2. o \in Int /\ s \in Int /\ ObjectSize <= o /\ StackSize <= s
          BY <3>1, RoundedUpFacts
    <3>3. objects = o + s
          BY DEF ObjectsFor
    <3> HIDE DEF o, s, objects
    <3> QED BY <3>1, <3>2, <3>3
  <2> HIDE DEF objects, chunk, s
  <2>3. chunk \in Nat \ {0}
        BY DEF chunk
  <2>4. first \in Int /\ region + objects <= first /\ first % chunk = 0
    <3>1. region + objects \in Int
          BY <2>2
    <3> QED BY <2>3, <3>1, RoundedUpFacts
  <2> HIDE DEF first
  <2>5. /\ metadata \in Int /\ region + metadata = first
        /\ metadata >= s + ObjectSize /\ metadata >= ObjectSize
        BY <2>2, <2>4
  <2>6. remaining \in Int
        BY <2>5
  <2> HIDE DEF metadata
  <2>7. heap \in Int /\ heap <= remaining /\ heap % chunk = 0
    <3> HIDE DEF remaining
    <3> DEFINE r == remaining % chunk
               q == remaining \div chunk
    <3>1. /\ q \in Int /\ r \in 0..(chunk - 1)
          /\ remaining = q * chunk + r
          BY <2>3, <2>6, Numbers!Division
    <3> HIDE DEF q, r
    <3> DEFINE qc == q * chunk
    <3>2. qc \in Int
          BY <2>3, <3>1
    <3>3. qc % chunk = 0
          BY <2>3, <3>1, <3>2, Numbers!Quotient
    <3>4. remaining = qc + r
          BY <3>1
    <3> HIDE DEF qc
    <3>5. remaining - r = qc /\ qc <= remaining
          BY <3>1, <3>2, <3>4
    <3> QED BY <3>2, <3>3, <3>5 DEF r
  <2> HIDE DEF heap
  <2>8. region + metadata + heap <= region + size
        BY <2>5, <2>6, <2>7
  <2>9. /\ layout.heap = heap /\ layout.granule = chunk
        /\ layout.first = region + metadata
        /\ layout.metadata = metadata /\ layout.bitmap = 0
        BY <1>2, <2>1 DEF Layout
  <2>10. /\ region + metadata >= region + metadata
         /\ metadata >= ObjectSize + 0
        BY <2>2, <2>5
  <2>11. (region + metadata) % chunk = 0
        BY <2>4, <2>5
  <2>12. Inside(region, size, layout)
    <3>1. ObjectSize \in Nat
          BY PlacementSizes
    <3>2. /\ region \in Int /\ size \in Int /\ region + metadata \in Int
          /\ region <= region + metadata
          BY <2>5, <3>1
    <3>3. From(region + metadata, heap) \subseteq From(region, size)
          BY <2>7, <2>8, <3>2, RangeInside
    <3> HIDE DEF layout
    <3> QED BY <2>9, <3>3 DEF Inside
  <2> HIDE DEF layout
  <2> QED BY <2>5, <2>7, <2>8, <2>9, <2>10, <2>11, <2>12 DEF Fits, layout, s
<1> QED BY <1>1, <1>2

-----------------------------------------------------------------------------
(* The heap.                                                               *)

PlaceInv ==
    /\ place.region \in Regions /\ place.size \in RegionLengths
    /\ granule \in Granules
    /\ Inside(place.region, place.size, place.layout)
    /\ LayoutFits

Given == From(place.layout.first, place.layout.heap)

HeapInv ==
    /\ PlaceInv
    /\ added \subseteq Additions
    /\ Heap = Given \cup UNION {Trimmed(r.start, r.size) : r \in added}

LEMMA GranuleIsPositive ==
    ASSUME NEW g \in Granules
    PROVE  g \in Nat \ {0} /\ Span % g = 0
BY AlignAssumption

LEMMA PlaceInit ==
    ASSUME Init
    PROVE  PlaceInv
<1>1. PICK region \in Regions, size \in RegionLengths :
        \/ \E page \in Pages, unit \in UnitSizes :
            place = Placed("bitmap", region, size, unit,
                           PlaceObject(region, size, page, unit))
        \/ \E objectAlign \in ObjectAligns :
            place = Placed("list", region, size, objectAlign,
                           PlaceInstance(region, size, objectAlign))
      BY DEF Init
<1>2. region \in Nat /\ size \in Nat
      BY VirtualizerAssumption
<1>3. 1 \in Granules
      BY DEF Granules
<1>4. ASSUME NEW page \in Pages, NEW unit \in UnitSizes,
             place = Placed("bitmap", region, size, unit,
                            PlaceObject(region, size, page, unit))
      PROVE  PlaceInv
  <2> DEFINE layout == PlaceObject(region, size, page, unit)
  <2>1. /\ page \in Nat \ {0} /\ unit \in Nat \ {0}
        /\ unit % page = 0 \/ page % unit = 0
        BY VirtualizerAssumption, AlignAssumption
  <2>2. Fits("bitmap", region, size, unit, layout) /\ Inside(region, size, layout)
        BY <1>2, <2>1, BitmapFits
  <2>3. layout.granule \in {1, page}
        BY DEF PlaceObject, Nowhere, Layout
  <2>4. layout.granule \in Granules
        BY <1>3, <2>3 DEF Granules
  <2> HIDE DEF layout
  <2>5. /\ place.kind = "bitmap" /\ place.region = region /\ place.size = size
        /\ place.unit = unit /\ place.layout = layout
        BY <1>4 DEF Placed, layout
  <2> QED BY <2>2, <2>4, <2>5 DEF PlaceInv, LayoutFits, Fits, granule
<1>5. ASSUME NEW objectAlign \in ObjectAligns,
             place = Placed("list", region, size, objectAlign,
                            PlaceInstance(region, size, objectAlign))
      PROVE  PlaceInv
  <2> DEFINE layout == PlaceInstance(region, size, objectAlign)
  <2>1. ChunkFor(objectAlign) \in Granules
        BY DEF Granules
  <2>2. objectAlign \in Nat \ {0} /\ ChunkFor(objectAlign) \in Nat \ {0}
        BY <2>1, VirtualizerAssumption, AlignAssumption
  <2>3. Fits("list", region, size, objectAlign, layout) /\ Inside(region, size, layout)
        BY <1>2, <2>2, ListFits
  <2>4. layout.granule \in {1, ChunkFor(objectAlign)}
        BY DEF PlaceInstance, Nowhere, Layout
  <2>5. layout.granule \in Granules
        BY <1>3, <2>1, <2>4
  <2> HIDE DEF layout
  <2>6. /\ place.kind = "list" /\ place.region = region /\ place.size = size
        /\ place.unit = objectAlign /\ place.layout = layout
        BY <1>5 DEF Placed, layout
  <2> QED BY <2>3, <2>5, <2>6 DEF PlaceInv, LayoutFits, Fits, granule
<1> QED BY <1>1, <1>4, <1>5

\* The granules that lie in some memory are those between the first and the
\* last multiple in it.
LEMMA TrimmedGranules ==
    ASSUME granule \in Nat \ {0}, NEW start \in Nat, NEW size \in Nat
    PROVE  /\ Trimmed(start, size) \subseteq From(start, size)
           /\ \A a \in From(start, size) :
                a \in Trimmed(start, size) <=>
                    From(a - (a % granule), granule) \subseteq From(start, size)
<1> DEFINE c == IF start % granule = 0 THEN 0 ELSE granule - (start % granule)
           rest == size - c
           first == start + c
           l == rest - (rest % granule)
<1>1. c \in 0..(granule - 1) /\ first % granule = 0
  <2>1. start \in Int /\ c \in Int
        BY Numbers!Division
  <2> QED BY <2>1, Numbers!SkipToMultiple
<1>2. Trimmed(start, size) = IF c > size THEN {} ELSE From(first, l)
      BY DEF Trimmed
<1> HIDE DEF c
<1>3. /\ rest \in Int /\ first \in Int /\ c \in Int
      /\ first + rest = start + size
      BY <1>1
<1> DEFINE q == rest \div granule
           qg == q * granule
           k == rest % granule
<1>4. /\ k \in 0..(granule - 1) /\ q \in Int
      /\ rest = qg + k
  <2> HIDE DEF rest
  <2> QED BY <1>3, Numbers!Division
<1> HIDE DEF q
<1>5. qg \in Int /\ l = qg
  <2>1. qg \in Int
        BY <1>4
  <2> HIDE DEF qg, k
  <2>2. l = rest - k
        BY DEF k
  <2> HIDE DEF l, rest
  <2> QED BY <1>4, <2>1, <2>2
<1>6. qg % granule = 0
      BY <1>4, <1>5, Numbers!Quotient
<1> HIDE DEF qg, k, l, first, rest
<1>7. l \in Int /\ l <= rest /\ rest < l + granule /\ l % granule = 0
      BY <1>3, <1>4, <1>5, <1>6
<1>8. (first + l) % granule = 0 /\ first + l \in Int
  <2>1. (first + l) % granule = first % granule
        BY <1>3, <1>7, Numbers!MultipleSum, ZenonT(60)
  <2> QED BY <1>1, <1>3, <1>7, <2>1
<1>9. Trimmed(start, size) \subseteq From(start, size)
      BY <1>1, <1>2, <1>3, <1>7 DEF From, first
<1>10. ASSUME NEW a \in From(start, size)
       PROVE  a \in Trimmed(start, size) <=>
                    From(a - (a % granule), granule) \subseteq From(start, size)
  <2> DEFINE b == a - (a % granule)
             p == a \div granule
             pg == p * granule
             j == a % granule
  <2>1. a \in Int /\ start <= a /\ a < start + size
        BY DEF From
  <2>2. j \in 0..(granule - 1) /\ p \in Int /\ a = pg + j
        BY <2>1, Numbers!Division
  <2> HIDE DEF p
  <2>3. pg \in Int
        BY <2>2
  <2>4. pg % granule = 0
        BY <2>2, <2>3, Numbers!Quotient
  <2>5. b = a - j
        OBVIOUS
  <2> HIDE DEF pg, j, b
  <2>6. b \in Int /\ b % granule = 0 /\ b <= a /\ a < b + granule
        BY <2>1, <2>2, <2>3, <2>4, <2>5
  <2>7. /\ b < first => b + granule <= first
        /\ b < first + l => b + granule <= first + l
        BY <1>1, <1>3, <1>8, <2>6, Numbers!MultiplesApart
  <2>8. first = start + c
        BY DEF first
  <2>9. From(b, granule) \subseteq From(start, size)
            <=> start <= b /\ b + granule <= start + size
    <3>1. b \in From(b, granule) /\ b + granule - 1 \in From(b, granule)
          BY <2>6 DEF From
    <3>2. From(b, granule) \subseteq From(start, size)
            => start <= b /\ b + granule - 1 <= start + size - 1
          BY <3>1 DEF From
    <3>3. b + granule - 1 <= start + size - 1 <=> b + granule <= start + size
          BY <2>6
    <3>4. start <= b /\ b + granule <= start + size
            => From(b, granule) \subseteq From(start, size)
          BY <2>6, RangeInside
    <3> QED BY <3>2, <3>3, <3>4
  <2>10. CASE c > size
    <3>1. a \notin Trimmed(start, size)
          BY <1>2, <2>10
    <3>2. ~ (start <= b /\ b + granule <= start + size)
          BY <1>1, <1>3, <2>6, <2>7, <2>8, <2>10
    <3> QED BY <2>9, <3>1, <3>2 DEF b
  <2>11. CASE ~ (c > size)
    <3>1. a \in Trimmed(start, size) <=> first <= a /\ a < first + l
          BY <1>2, <1>3, <1>7, <2>1, <2>11 DEF From
    <3>2. first <= a /\ a < first + l
            => start <= b /\ b + granule <= start + size
          BY <1>1, <1>3, <1>7, <2>1, <2>6, <2>7, <2>8
    <3>3. start <= b /\ b + granule <= start + size
            => first <= a /\ a < first + l
          BY <1>1, <1>3, <1>7, <2>1, <2>6, <2>7, <2>8
    <3> QED BY <2>9, <3>1, <3>2, <3>3 DEF b
  <2> QED BY <2>10, <2>11
<1> QED BY <1>9, <1>10

\* Memory that could be added is no part of the heap yet.
LEMMA AddedApart ==
    ASSUME HeapInv, NEW r \in Additions
    PROVE  /\ granule \in Nat \ {0} /\ r.start \in Nat /\ r.size \in Nat
           /\ r.start + r.size < Span
           /\ From(r.start, r.size) \cap Given = {}
           /\ Trimmed(r.start, r.size) \subseteq From(r.start, r.size)
           /\ \A q \in added \ {r} :
                From(r.start, r.size) \cap Trimmed(q.start, q.size) = {}
<1>1. granule \in Nat \ {0}
      BY GranuleIsPositive DEF HeapInv, PlaceInv
<1>2. \A q \in Additions : q.start \in Nat /\ q.size \in Nat
      BY MemoryAssumption
<1>3. \A q \in Additions :
        Trimmed(q.start, q.size) \subseteq From(q.start, q.size)
      BY <1>1, <1>2, TrimmedGranules
<1>4. \A q \in added \ {r} : From(r.start, r.size) \cap From(q.start, q.size) = {}
      BY MemoryAssumption DEF HeapInv
<1>5. From(r.start, r.size) \cap From(place.region, place.size) = {}
      BY MemoryAssumption DEF HeapInv, PlaceInv
<1>6. Given \subseteq From(place.region, place.size)
      BY DEF HeapInv, PlaceInv, Inside, Given
<1>7. added \subseteq Additions
      BY DEF HeapInv
<1>8. From(r.start, r.size) \cap Given = {}
      BY <1>5, <1>6
<1>9. \A q \in added \ {r} :
        From(r.start, r.size) \cap Trimmed(q.start, q.size) = {}
      BY <1>3, <1>4, <1>7
<1>10. r.start + r.size < Span
      BY MemoryAssumption
<1> QED BY <1>1, <1>2, <1>3, <1>8, <1>9, <1>10

\* No action but AddRegion changes where the heap is.
LEMMA HeapInvariance == Spec => []HeapInv
<1>1. ASSUME Init PROVE HeapInv
  <2>1. Heap = Given
        BY <1>1 DEF Init, Heap, Given
  <2>2. added = {}
        BY <1>1 DEF Init
  <2> QED BY <1>1, <2>1, <2>2, PlaceInit DEF HeapInv
<1>2. ASSUME HeapInv, place' = place, added' = added, Heap' = Heap
      PROVE  HeapInv'
  <2>1. PlaceInv'
        BY <1>2 DEF HeapInv, PlaceInv, LayoutFits, granule
  <2>2. Given' = Given
        BY <1>2 DEF Given
  <2>3. \A start, size : Trimmed(start, size)' = Trimmed(start, size)
        BY <1>2 DEF Trimmed, granule
  <2> QED BY <1>2, <2>1, <2>2, <2>3 DEF HeapInv
<1>3. ASSUME HeapInv, NEW r \in Additions, AddRegion(r)
      PROVE  HeapInv'
  <2>1. /\ place' = place /\ added' = added \cup {r}
        /\ Heap' = Heap \cup Trimmed(r.start, r.size)
        BY <1>3 DEF AddRegion, Heap
  <2>2. PlaceInv'
        BY <1>3, <2>1 DEF HeapInv, PlaceInv, LayoutFits, granule
  <2>3. Given' = Given
        BY <2>1 DEF Given
  <2>4. \A start, size : Trimmed(start, size)' = Trimmed(start, size)
        BY <2>1 DEF Trimmed, granule
  <2> QED BY <1>3, <2>1, <2>2, <2>3, <2>4 DEF HeapInv
<1>4. ASSUME HeapInv, [Next]_vars
      PROVE  HeapInv'
  <2>1. CASE UNCHANGED vars
        BY <1>2, <1>4, <2>1 DEF vars, Heap
  <2>2. ASSUME NEW c \in Clients, NEW size, GiveBack(c, size)
        PROVE  HeapInv'
        BY <1>2, <1>4, <2>2 DEF GiveBack, WithBytes, Heap
  <2>3. ASSUME NEW c \in Clients, Dealloc(c) \/ Free(c)
        PROVE  HeapInv'
        BY <2>2, <2>3 DEF Dealloc, Free
  <2>4. ASSUME NEW c \in Clients, Write(c)
        PROVE  HeapInv'
        BY <1>2, <1>4, <2>4 DEF Write, Heap
  <2>5. ASSUME NEW c, NEW buffer, NEW size, NEW align, NEW offset,
               Provide(c, buffer, size, align, offset)
        PROVE  HeapInv'
        BY <1>2, <1>4, <2>5 DEF Provide, WithHeader, WithBytes, Heap
  <2>6. ASSUME NEW c \in Clients, NEW size \in Sizes, Alloc(c, size)
        PROVE  HeapInv'
        BY <2>5, <2>6 DEF Alloc
  <2>7. ASSUME NEW c \in Clients, NEW size \in Sizes, Realloc(c, size)
        PROVE  HeapInv'
        BY <1>2, <1>4, <2>7 DEF Realloc, WithBytes, Heap
  <2>8. ASSUME NEW c \in Clients, NEW align \in Aligns, NEW offset \in Offsets,
               NEW size \in Sizes, OffsetAlign(c, align, offset, size)
        PROVE  HeapInv'
        BY <2>5, <2>8 DEF OffsetAlign
  <2>9. ASSUME NEW r \in Additions, AddRegion(r)
        PROVE  HeapInv'
        BY <1>3, <1>4, <2>9
  <2> QED BY <1>4, <2>1, <2>3, <2>4, <2>6, <2>7, <2>8, <2>9 DEF Next
<1> QED BY <1>1, <1>4, PTL DEF Spec

\* Wherever a region of memory begins and however long it is, what Place makes
\* of it fits: structures and heap lie in it one after the other, the heap
\* consists of whole granules, and the bitmap has a bit for each of them.
THEOREM LayoutFitsTheorem == Spec => []LayoutFits
<1>1. HeapInv => LayoutFits
      BY DEF HeapInv, PlaceInv
<1> QED BY <1>1, HeapInvariance, PTL

\* The heap is what Place left of the region and the granules that lie in what
\* AddRegion was given, all of them and nothing else.
THEOREM HeapExactTheorem == Spec => []HeapExact
<1> DEFINE usable(r) == {a \in From(r.start, r.size) :
                            From(a - (a % granule), granule)
                                \subseteq From(r.start, r.size)}
<1>1. ASSUME HeapInv, NEW r \in added
      PROVE  Trimmed(r.start, r.size) = usable(r)
  <2>1. r \in Additions
        BY <1>1 DEF HeapInv
  <2>2. granule \in Nat \ {0} /\ r.start \in Nat /\ r.size \in Nat
        BY <1>1, <2>1, AddedApart
  <2>3. /\ Trimmed(r.start, r.size) \subseteq From(r.start, r.size)
        /\ \A a \in From(r.start, r.size) :
            a \in Trimmed(r.start, r.size) <=>
                From(a - (a % granule), granule) \subseteq From(r.start, r.size)
        BY <2>2, TrimmedGranules
  <2> QED BY <2>3
<1> HIDE DEF usable
<1>2. ASSUME HeapInv
      PROVE  Heap = Given \cup UNION {usable(r) : r \in added}
      BY <1>1, <1>2 DEF HeapInv
<1>3. HeapInv => HeapExact
      BY <1>2 DEF HeapExact, Given, usable
<1> QED BY <1>3, HeapInvariance, PTL

-----------------------------------------------------------------------------
(* No other division of a region has a larger heap.                        *)

\* A unit is no larger than what one byte of the bitmap covers.  Pages have a
\* byte at least, and the widest unit has 8.
NarrowUnits == \A page \in Pages, unit \in UnitSizes : unit <= 8 * page

\* What BestBitmapSize aligns bitmaps to is no more than one byte of it covers.
LEMMA NarrowAlign ==
    ASSUME NEW page \in Nat \ {0}, NEW unit \in Nat \ {0},
           unit % page = 0 \/ page % unit = 0, unit <= 8 * page
    PROVE  RoundedUp(unit, page) <= 8 * page
<1> DEFINE align == RoundedUp(unit, page)
<1>1. /\ align \in Int /\ unit <= align /\ align <= unit + page - 1
      /\ align % page = 0
  <2>1. unit \in Int
        OBVIOUS
  <2> QED BY <2>1, RoundedUpFacts
<1> HIDE DEF align
<1>2. (8 * page) % page = 0
  <2>1. 8 \in Int /\ 8 * page \in Int
        OBVIOUS
  <2> QED BY <2>1, Numbers!Quotient
<1>3. CASE align > 8 * page
  <2> DEFINE k == 8 * page
  <2>1. k \in Int /\ k % page = 0 /\ k < align /\ unit <= k
        BY <1>2, <1>3
  <2> HIDE DEF k
  <2>2. k + page <= align
        BY <1>1, <2>1, Numbers!MultiplesApart
  <2> QED BY <1>1, <2>1, <2>2
<1> QED BY <1>1, <1>3 DEF align

\* How much a bitmap of b bytes covers, of u, at k bytes for each of its own.
Covered(u, k, b) == IF u - b <= k * b THEN u - b ELSE k * b

\* A shorter bitmap covers less than one of l bytes.  a is the alignment, q the
\* size that is rounded up to it.
LEMMA ShorterCoversLess ==
    ASSUME NEW u \in Nat, NEW k \in Nat, NEW a \in Nat \ {0}, NEW l \in Nat,
           NEW q \in Nat, a <= k, l <= q + a - 1, q * (k + 1) <= u,
           NEW b \in Nat, b + a <= l
    PROVE  k * b <= u - l /\ k * b <= k * l
<1> DEFINE kb == b * k
           kd == (l - a) * k
           kl == l * k
           r == q * (k + 1)
           d == ((l - a) + 1) * (k + 1)
<1>1. /\ kb \in Int /\ kd \in Int /\ kl \in Int /\ r \in Int /\ d \in Int
      /\ r <= u
      OBVIOUS
<1>2. d = kd + (l - a) + k + 1
      OBVIOUS
<1>3. d <= r
  <2>1. (l - a) + 1 <= q /\ (l - a) + 1 \in Int /\ q \in Int /\ k + 1 \in Nat
        OBVIOUS
  <2> QED BY <2>1, Numbers!ProductOrder
<1>4. kb <= kd
  <2>1. b <= l - a /\ l - a \in Int /\ b \in Int
        OBVIOUS
  <2> QED BY <2>1, Numbers!ProductOrder
<1>5. kb <= kl
  <2>1. b <= l /\ l \in Int /\ b \in Int
        OBVIOUS
  <2> QED BY <2>1, Numbers!ProductOrder
<1>6. k * b = kb /\ k * l = kl
      OBVIOUS
<1> HIDE DEF kb, kd, kl, r, d
<1>7. kb <= u - l
      BY <1>1, <1>2, <1>3, <1>4
<1> QED BY <1>5, <1>6, <1>7

\* A bitmap of at least l + a bytes covers all that is left by it.
LEMMA LongerCoversRest ==
    ASSUME NEW u \in Nat, NEW k \in Nat, NEW a \in Nat \ {0}, NEW l \in Nat,
           NEW q \in Nat, q <= l, u < q * (k + 1) + (k + 1)
    PROVE  u - (l + a) <= k * (l + a)
<1> DEFINE m == l + a
           km == m * k
           r == q * (k + 1)
           s == (q + 1) * (k + 1)
           t == m * (k + 1)
<1>1. s = r + (k + 1) /\ t = km + m /\ k * m = km
      OBVIOUS
<1>2. s <= t
  <2>1. q + 1 <= m /\ q + 1 \in Int /\ m \in Int /\ k + 1 \in Nat
        OBVIOUS
  <2> HIDE DEF m
  <2> QED BY <2>1, Numbers!ProductOrder
<1>3. /\ r \in Int /\ s \in Int /\ t \in Int /\ km \in Int /\ m \in Int
      /\ u < r + (k + 1)
      OBVIOUS
<1> HIDE DEF m, km, r, s, t
<1>4. u - m <= k * m
      BY <1>1, <1>2, <1>3
<1> QED BY <1>4 DEF m

\* A quotient, rounded down.
LEMMA QuotientBounds ==
    ASSUME NEW n \in Nat, NEW w \in Nat \ {0}
    PROVE  /\ n \div w \in Nat
           /\ (n \div w) * w <= n /\ n < (n \div w) * w + w
<1> DEFINE q == n \div w
           r == n % w
           qw == q * w
<1>1. q \in Int /\ r \in 0..(w - 1) /\ n = q * w + r
  <2>1. n \in Int
        OBVIOUS
  <2> QED BY <2>1, Numbers!Division
<1>2. q \in Nat
      OBVIOUS
<1>3. qw \in Int /\ n = qw + r
      BY <1>1
<1> HIDE DEF q, r
<1>4. r \in 0..(w - 1)
      BY <1>1
<1> HIDE DEF qw
<1>5. qw <= n /\ n < qw + w
      BY <1>3, <1>4
<1> QED BY <1>2, <1>5 DEF q, qw

\* Of all sizes that are multiples of the alignment, the one that
\* BestBitmapSize chooses covers the most.
LEMMA BestCoversMost ==
    ASSUME NEW page \in Nat \ {0}, NEW unit \in Nat \ {0},
           unit % page = 0 \/ page % unit = 0, unit <= 8 * page,
           NEW usable \in Nat, NEW b \in Nat, b % RoundedUp(unit, page) = 0
    PROVE  FreeSizeForBitmap(usable, page, b) <=
               FreeSizeForBitmap(usable, page, BestBitmapSize(usable, page, unit))
<1> DEFINE a == RoundedUp(unit, page)
           k == 8 * page
           q == usable \div (page * 8 + 1)
           l == RoundedUp(q, a)
           F(n) == FreeSizeForBitmap(usable, page, n)
<1>1. /\ a \in Nat \ {0} /\ a <= k /\ k \in Nat /\ page * 8 + 1 = k + 1
      /\ b % a = 0
  <2>1. a \in Nat \ {0}
        BY UnitAndPage
  <2> QED BY <2>1, NarrowAlign
<1>2. BestBitmapSize(usable, page, unit) =
         IF a >= usable THEN 0
         ELSE IF l + a < usable /\ F(l + a) > F(l) THEN l + a
         ELSE l
      BY DEF BestBitmapSize
<1> HIDE DEF a
<1>3. \A n \in Nat : F(n) = Covered(usable, k, n) /\ k * n \in Nat
  <2> TAKE n \in Nat
  <2>1. page * n * 8 = k * n /\ usable - n \in Int
        OBVIOUS
  <2>2. k * n \in Nat
        BY <1>1
  <2> HIDE DEF k
  <2> QED BY <2>1, <2>2, MinOfTwo DEF FreeSizeForBitmap, Covered
<1>4. /\ q \in Nat
      /\ q * (k + 1) <= usable /\ usable < q * (k + 1) + (k + 1)
  <2> DEFINE w == page * 8 + 1
  <2>1. w \in Nat \ {0} /\ w = k + 1 /\ q = usable \div w
        OBVIOUS
  <2> HIDE DEF w, q, k
  <2>2. q \in Nat /\ q * w <= usable /\ usable < q * w + w
        BY <2>1, QuotientBounds
  <2> QED BY <2>1, <2>2
<1> HIDE DEF q
<1>5. l \in Nat /\ q <= l /\ l <= q + a - 1 /\ l % a = 0
  <2>1. q \in Int
        BY <1>4
  <2>2. l \in Int /\ q <= l /\ l <= q + a - 1 /\ l % a = 0
        BY <1>1, <2>1, RoundedUpFacts
  <2> QED BY <1>4, <2>2
<1> HIDE DEF k, l, F
<1>6. \A n \in Nat : n + a <= l => F(n) <= F(l) /\ k * n <= usable - l
  <2> SUFFICES ASSUME NEW n \in Nat, n + a <= l
               PROVE  F(n) <= F(l) /\ k * n <= usable - l
        OBVIOUS
  <2>1. k * n <= usable - l /\ k * n <= k * l
        BY <1>1, <1>4, <1>5, ShorterCoversLess
  <2> QED BY <1>3, <1>5, <2>1 DEF Covered
<1>7. 0 <= usable - l
  <2>1. CASE l < a
    <3>1. l = 0
          BY <1>1, <1>5, <2>1
    <3> QED BY <3>1
  <2>2. CASE ~ (l < a)
    <3>1. 0 \in Nat /\ 0 + a <= l
          BY <1>1, <1>5, <2>2
    <3>2. k * 0 <= usable - l
          BY <1>6, <3>1
    <3> QED BY <1>1, <3>2
  <2> QED BY <2>1, <2>2
<1>8. \A n \in Nat : l + a <= n => F(n) <= F(l + a)
  <2> SUFFICES ASSUME NEW n \in Nat, l + a <= n
               PROVE  F(n) <= F(l + a)
        OBVIOUS
  <2>1. usable - (l + a) <= k * (l + a)
        BY <1>1, <1>4, <1>5, LongerCoversRest
  <2>2. l + a \in Nat
        BY <1>1, <1>5
  <2>3. F(l + a) = usable - (l + a) /\ F(n) <= usable - n
        BY <1>3, <2>1, <2>2 DEF Covered
  <2>4. F(n) \in Int
        BY <1>3 DEF Covered
  <2> QED BY <1>1, <1>5, <2>3, <2>4
<1>9. \A m, n \in Int : m % a = 0 /\ n % a = 0 /\ m < n => m + a <= n
  <2>1. a \in Nat \ {0}
        BY <1>1
  <2> QED BY <2>1, Numbers!MultiplesApart
<1>10. CASE a >= usable
  <2>1. F(0) = 0
    <3>1. k * 0 = 0
          BY <1>1
    <3> QED BY <1>3, <3>1 DEF Covered
  <2>2. F(b) <= 0
    <3>1. CASE b = 0
          BY <2>1, <3>1
    <3>2. CASE b # 0
      <4>1. 0 < b /\ 0 % a = 0 /\ 0 \in Int /\ b \in Int
            BY <1>1, <3>2
      <4>2. 0 + a <= b
            BY <1>1, <1>9, <4>1
      <4>3. usable - b <= 0
            BY <1>1, <1>10, <4>2
      <4> QED BY <1>3, <4>3 DEF Covered
    <3> QED BY <3>1, <3>2
  <2> QED BY <1>2, <1>10, <2>1, <2>2 DEF F
<1>11. CASE ~ (a >= usable)
  <2> DEFINE best == BestBitmapSize(usable, page, unit)
  <2>1. \A n \in Nat : F(n) \in Int
        BY <1>3 DEF Covered
  <2>2. l + a \in Nat /\ l \in Nat
        BY <1>1, <1>5
  <2>3. /\ F(best) \in Int
        /\ F(l) <= F(best)
        /\ l + a < usable => F(l + a) <= F(best)
        BY <1>2, <1>11, <2>1, <2>2
  <2> HIDE DEF best
  <2>4. ASSUME b < l PROVE F(b) <= F(best)
    <3>1. b + a <= l
      <4>1. b \in Int /\ l \in Int
            BY <1>5
      <4> QED BY <1>1, <1>5, <1>9, <2>4, <4>1
    <3> QED BY <1>6, <2>1, <2>2, <2>3, <3>1
  <2>5. ASSUME b = l PROVE F(b) <= F(best)
        BY <2>3, <2>5
  <2>6. ASSUME l < b PROVE F(b) <= F(best)
    <3>1. l + a <= b
      <4>1. b \in Int /\ l \in Int
            BY <1>5
      <4> QED BY <1>1, <1>5, <1>9, <2>6, <4>1
    <3>2. F(b) <= F(l + a)
          BY <1>8, <3>1
    <3>3. ASSUME l + a < usable PROVE F(b) <= F(best)
          BY <2>1, <2>2, <2>3, <3>2, <3>3
    <3>4. ASSUME ~ (l + a < usable) PROVE F(b) <= F(best)
      <4>1. F(l + a) <= 0
            BY <1>1, <1>3, <2>2, <3>4 DEF Covered
      <4>2. 0 <= F(l)
            BY <1>3, <1>7, <2>2 DEF Covered
      <4> QED BY <2>1, <2>2, <2>3, <3>2, <4>1, <4>2
    <3> QED BY <3>3, <3>4
  <2>7. F(b) <= F(best)
    <3>1. b \in Int /\ l \in Int
          BY <2>2
    <3> QED BY <2>4, <2>5, <2>6, <3>1
  <2> QED BY <2>7 DEF F, best
<1> QED BY <1>10, <1>11

\* Of the bitmap that PlaceObject makes.
LEMMA BitmapBest ==
    ASSUME NEW page \in Pages, NEW unit \in UnitSizes, unit <= 8 * page,
           NEW region \in Nat, NEW size \in Nat,
           place = Placed("bitmap", region, size, unit,
                          PlaceObject(region, size, page, unit))
    PROVE  LayoutBest
<1> DEFINE layout == PlaceObject(region, size, page, unit)
           align == RoundedUp(unit, page)
           structure == RoundedUp(ObjectSize, align)
           usable == ((size - structure) \div page) * page
           bitmap == BestBitmapSize(usable, page, unit)
<1>1. /\ place.kind = "bitmap" /\ place.size = size /\ place.unit = unit
      /\ place.layout = layout
      BY DEF Placed
<1>2. /\ page \in Nat \ {0} /\ unit \in Nat \ {0}
      /\ unit % page = 0 \/ page % unit = 0
      BY VirtualizerAssumption, AlignAssumption
<1> SUFFICES ASSUME layout # Nowhere PROVE LayoutBest
  <2> HIDE DEF layout
  <2> QED BY <1>1 DEF LayoutBest
<1>3. align \in Nat \ {0}
      BY <1>2, UnitAndPage
<1>4. structure \in Int
  <2>1. ObjectSize \in Int
        BY PlacementSizes
  <2> HIDE DEF align
  <2> QED BY <1>3, <2>1, RoundedUpFacts
<1>5. /\ structure <= size
      /\ layout = Layout(structure + bitmap, bitmap, page,
                         region + structure + bitmap,
                         FreeSizeForBitmap(usable, page, bitmap))
  <2>1. layout = IF structure > size THEN Nowhere
                 ELSE Layout(structure + bitmap, bitmap, page,
                             region + structure + bitmap,
                             FreeSizeForBitmap(usable, page, bitmap))
        BY DEF PlaceObject
  <2> HIDE DEF layout, structure
  <2>2. ~ (structure > size) => structure <= size
        BY <1>4
  <2> QED BY <2>1, <2>2
<1>6. usable \in Nat
  <2> HIDE DEF structure
  <2> DEFINE m == size - structure
  <2>1. m \in Nat
        BY <1>4, <1>5
  <2> HIDE DEF m
  <2>2. m \div page \in Nat
        BY <1>2, <2>1, QuotientBounds
  <2> QED BY <1>2, <2>2 DEF m
<1>7. bitmap \in Nat
  <2> HIDE DEF usable
  <2>1. \A u \in Nat : BestBitmapSize(u, page, unit) \in Nat
        BY <1>2, BitmapSize
  <2> QED BY <1>6, <2>1
<1>8. /\ layout.metadata - layout.bitmap = structure /\ layout.granule = page
      /\ layout.heap = FreeSizeForBitmap(usable, page, bitmap)
  <2> HIDE DEF layout, structure, bitmap, usable
  <2>1. /\ layout.metadata = structure + bitmap /\ layout.bitmap = bitmap
        /\ layout.granule = page
        /\ layout.heap = FreeSizeForBitmap(usable, page, bitmap)
        BY <1>5 DEF Layout
  <2> QED BY <1>4, <1>7, <2>1
<1> HIDE DEF layout, structure
<1>9. ASSUME NEW n \in 0..(usable \div align)
      PROVE  Min({usable - n * align, page * n * align * 8})
                <= FreeSizeForBitmap(usable, page, bitmap)
  <2> HIDE DEF usable, align, bitmap
  <2> DEFINE b == n * align
  <2>1. n \in Nat /\ n \in Int /\ b \in Nat /\ b \in Int
        BY <1>3
  <2>2. b % align = 0
        BY <1>3, <2>1, Numbers!Quotient
  <2>3. page * n * align * 8 = page * b * 8
        BY <1>2, <1>3, <2>1
  <2> HIDE DEF b
  <2>4. FreeSizeForBitmap(usable, page, b) <= FreeSizeForBitmap(usable, page, bitmap)
    <3>1. b % RoundedUp(unit, page) = 0
          BY <2>2 DEF align
    <3> QED BY <1>2, <1>6, <2>1, <3>1, BestCoversMost DEF bitmap
  <2>5. FreeSizeForBitmap(usable, page, b) = Min({usable - b, page * b * 8})
        BY DEF FreeSizeForBitmap
  <2> QED BY <2>3, <2>4, <2>5 DEF b
<1> QED BY <1>1, <1>8, <1>9 DEF LayoutBest, granule

\* Of the list that PlaceInstance makes.
LEMMA ListBest ==
    ASSUME NEW objectAlign \in ObjectAligns, NEW region \in Nat, NEW size \in Nat,
           place = Placed("list", region, size, objectAlign,
                          PlaceInstance(region, size, objectAlign))
    PROVE  LayoutBest
<1> DEFINE layout == PlaceInstance(region, size, objectAlign)
           chunk == ChunkFor(objectAlign)
           least == region + ObjectsFor(objectAlign)
           first == RoundedUp(least, chunk)
           remaining == size - (first - region)
           heap == remaining - (remaining % chunk)
           inside == least .. (region + size - 1)
<1>1. /\ place.kind = "list" /\ place.size = size /\ place.unit = objectAlign
      /\ place.region = region /\ place.layout = layout
      BY DEF Placed
<1>2. chunk \in Nat \ {0}
  <2>1. chunk \in Granules
        BY DEF Granules
  <2> HIDE DEF chunk
  <2> QED BY <2>1, GranuleIsPositive
<1>3. least \in Int
  <2>1. objectAlign \in Nat \ {0} /\ ObjectSize \in Int /\ StackSize \in Int
        BY VirtualizerAssumption, PlacementSizes
  <2>2. RoundedUp(ObjectSize, objectAlign) \in Int /\ RoundedUp(StackSize, objectAlign) \in Int
        BY <2>1, RoundedUpFacts
  <2> QED BY <2>2 DEF ObjectsFor
<1>4. layout = IF (first - region) + chunk > size THEN Nowhere
               ELSE Layout(first - region, 0, chunk, region + (first - region), heap)
      BY DEF PlaceInstance
<1> HIDE DEF layout, chunk, least
<1>5. first \in Int /\ least <= first /\ first <= least + chunk - 1 /\ first % chunk = 0
      BY <1>2, <1>3, RoundedUpFacts
<1> HIDE DEF first
<1>6. remaining \in Int /\ remaining % chunk \in 0..(chunk - 1)
  <2>1. remaining \in Int
        BY <1>5
  <2> HIDE DEF remaining
  <2> QED BY <1>2, <2>1, Numbers!Division
<1>7. ASSUME NEW a \in inside, a % chunk = 0, From(a, chunk) \subseteq inside
      PROVE  a \in From(layout.first, layout.heap)
  <2>1. a \in Int /\ least <= a
        BY <1>3
  <2>2. a + chunk <= region + size
    <3>1. a + chunk - 1 \in From(a, chunk)
          BY <1>2, <2>1 DEF From
    <3> QED BY <1>2, <1>3, <1>7, <2>1, <3>1
  <2>3. first <= a
    <3> SUFFICES ASSUME a < first PROVE FALSE
        BY <1>5, <2>1
    <3>1. a + chunk <= first
          BY <1>2, <1>5, <1>7, <2>1, Numbers!MultiplesApart
    <3> QED BY <1>2, <1>3, <1>5, <2>1, <3>1
  <2>4. ~ ((first - region) + chunk > size)
        BY <1>2, <1>5, <2>1, <2>2, <2>3
  <2>5. layout.first = first /\ layout.heap = heap
    <3>1. region + (first - region) = first
          BY <1>5
    <3> HIDE DEF heap
    <3> QED BY <1>4, <2>4, <3>1 DEF Layout
  <2>6. a \in From(first, heap)
    <3> DEFINE r == remaining % chunk
    <3>1. r \in 0..(chunk - 1) /\ heap = (size - (first - region)) - r
          BY <1>6
    <3> HIDE DEF r, heap
    <3> QED BY <1>2, <1>5, <2>1, <2>2, <2>3, <3>1 DEF From
  <2> QED BY <2>5, <2>6
<1> HIDE DEF heap, remaining
<1>8. \A a \in {x \in inside : x % chunk = 0} :
         From(a, chunk) \subseteq inside => a \in From(layout.first, layout.heap)
      BY <1>7
<1>9. ~ (place.kind = "bitmap")
      BY <1>1
<1> QED BY <1>1, <1>8, <1>9 DEF LayoutBest, chunk, least

\* Place makes the most of a region: no other size of its bitmap covers more of
\* it, and a placed list leaves no chunk out that lies behind its structures.
THEOREM LayoutBestTheorem ==
    ASSUME NarrowUnits
    PROVE  Spec => []LayoutBest
<1>1. Init => LayoutBest
  <2> SUFFICES ASSUME Init PROVE LayoutBest
        OBVIOUS
  <2>1. PICK region \in Regions, size \in RegionLengths :
          \/ \E page \in Pages, unit \in UnitSizes :
              place = Placed("bitmap", region, size, unit,
                             PlaceObject(region, size, page, unit))
          \/ \E objectAlign \in ObjectAligns :
              place = Placed("list", region, size, objectAlign,
                             PlaceInstance(region, size, objectAlign))
        BY DEF Init
  <2>2. region \in Nat /\ size \in Nat
        BY VirtualizerAssumption
  <2> QED BY <2>1, <2>2, BitmapBest, ListBest DEF NarrowUnits
<1>2. [Next]_vars => place' = place
      BY DEF Next, vars, Alloc, OffsetAlign, Provide, Dealloc, Free, GiveBack,
             Realloc, Write, AddRegion
<1>3. LayoutBest /\ place' = place => LayoutBest'
      BY DEF LayoutBest, granule
<1> QED BY <1>1, <1>2, <1>3, PTL DEF Spec

-----------------------------------------------------------------------------
(* Sizes and extents.                                                      *)

\* A buffer with its header, rounded up, has a size: what the code does not
\* test, and needs.
NoWrap ==
    \A g \in Granules, size \in Sizes \cup {0} : size + HeaderBytes + 2 * g <= Span

\* How much is taken for a buffer.
Length(size) == Align2((size + headerSize) % Span, granule)

LEMMA ExtentLength ==
    \A buffer, size : Extent(buffer, size) = From(buffer, Length(size))
BY DEF Extent, Length

\* Where nothing wraps, ansa::Align2 rounds up.
LEMMA Align2Facts ==
    ASSUME NEW g \in Nat \ {0}, NEW n \in Nat, n + g <= Span
    PROVE  /\ Align2(n, g) \in Nat /\ n <= Align2(n, g)
           /\ Align2(n, g) <= n + g - 1 /\ Align2(n, g) % g = 0
<1>1. Span \in Nat \ {0} /\ n + g - 1 \in 0..(Span - 1) /\ n \in Int
      BY VirtualizerAssumption
<1>2. (n + g - 1) % Span = n + g - 1
      BY <1>1
<1>3. Align2(n, g) = ((n + g - 1) \div g) * g
      BY <1>2 DEF Align2
<1> DEFINE up == ((n + g - 1) \div g) * g
<1>4. up \in Int /\ n <= up /\ up <= n + g - 1 /\ up % g = 0
      BY <1>1, Numbers!RoundingUp
<1> HIDE DEF up
<1>5. up \in Nat
      BY <1>4
<1> QED BY <1>3, <1>4, <1>5 DEF up

LEMMA HeaderFacts ==
    ASSUME NoWrap, HeapInv
    PROVE  /\ granule \in Nat \ {0} /\ Span % granule = 0 /\ Span \in Nat \ {0}
           /\ headerSize \in Nat /\ headerSize % granule = 0
           /\ HeaderBytes \in Nat \ {0} /\ HeaderBytes <= headerSize
           /\ \A size \in Sizes :
                /\ size \in Nat /\ Length(size) \in Nat
                /\ headerSize + size <= Length(size)
<1> DEFINE g == granule
<1>1. /\ g \in Granules /\ g \in Nat \ {0} /\ Span % g = 0
      BY GranuleIsPositive DEF HeapInv, PlaceInv
<1> HIDE DEF g
<1>2. Span \in Nat \ {0} /\ HeaderBytes \in Nat \ {0} /\ Sizes \subseteq Nat
      BY VirtualizerAssumption
<1>3. ASSUME NEW size \in Sizes \cup {0}
      PROVE  /\ Align2(HeaderBytes, g) \in Nat
             /\ HeaderBytes <= Align2(HeaderBytes, g)
             /\ Align2(HeaderBytes, g) % g = 0
             /\ size \in Nat /\ Length(size) \in Nat
             /\ Align2(HeaderBytes, g) + size <= Length(size)
  <2>1. size + HeaderBytes + 2 * g <= Span /\ size \in Nat
        BY <1>1, <1>2 DEF NoWrap
  <2>2. HeaderBytes + g <= Span
        BY <1>1, <1>2, <2>1
  <2> DEFINE h == Align2(HeaderBytes, g)
  <2>3. /\ h \in Nat /\ HeaderBytes <= h
        /\ h <= HeaderBytes + g - 1 /\ h % g = 0
        BY <1>1, <1>2, <2>2, Align2Facts
  <2> HIDE DEF h
  <2>4. size + h \in 0..(Span - 1) /\ size + h \in Nat /\ size + h + g <= Span
        BY <1>1, <1>2, <2>1, <2>3
  <2>5. (size + h) % Span = size + h
        BY <1>2, <2>4
  <2>6. Length(size) = Align2(size + h, g)
        BY <2>5 DEF Length, headerSize, h, g
  <2>7. Align2(size + h, g) \in Nat /\ size + h <= Align2(size + h, g)
        BY <1>1, <2>4, Align2Facts
  <2>8. h + size = size + h
        BY <2>1, <2>3
  <2> QED BY <2>1, <2>3, <2>6, <2>7, <2>8 DEF h
<1>4. headerSize = Align2(HeaderBytes, g)
      BY DEF headerSize, g
<1> QED BY <1>1, <1>2, <1>3, <1>4 DEF g

\* Memory ends before the last address.
LEMMA HeapBound ==
    ASSUME HeapInv
    PROVE  \A a \in Heap : a \in Nat /\ a + 1 < Span
<1>1. Span \in Nat
      BY VirtualizerAssumption
<1>2. ASSUME NEW start \in Nat, NEW size \in Nat, start + size < Span,
             NEW a \in From(start, size)
      PROVE  a \in Nat /\ a + 1 < Span
      BY <1>1, <1>2 DEF From
<1>3. \A a \in Given : a \in Nat /\ a + 1 < Span
  <2>1. /\ place.region \in Nat /\ place.size \in Nat
        /\ place.region + place.size < Span
        BY VirtualizerAssumption, MemoryAssumption DEF HeapInv, PlaceInv
  <2>2. Given \subseteq From(place.region, place.size)
        BY DEF HeapInv, PlaceInv, Inside, Given
  <2> QED BY <1>2, <2>1, <2>2
<1>4. ASSUME NEW r \in added, NEW a \in Trimmed(r.start, r.size)
      PROVE  a \in Nat /\ a + 1 < Span
  <2>1. r \in Additions
        BY DEF HeapInv
  <2>2. /\ r.start \in Nat /\ r.size \in Nat /\ r.start + r.size < Span
        /\ a \in From(r.start, r.size)
        BY <2>1, AddedApart
  <2> QED BY <1>2, <2>2
<1> QED BY <1>3, <1>4 DEF HeapInv

-----------------------------------------------------------------------------
(* Buffers.                                                                *)

\* Nothing of what was taken for a buffer is another's or free, and the header
\* in front of it tells its size.
Own(c) ==
    LET b == buffers[c]
    IN  /\ Taken(c) \subseteq Heap
        /\ b.address \in 0..(Span - 1) /\ RegionStart(b.address) \in Nat
        /\ From(b.address, b.size) \subseteq Taken(c)
        /\ ((b.address + b.offset) % Span) % Max({b.align, 1}) = 0
        /\ b.address % granule = granuleOffset
        /\ RegionHeader(b.address) = b.size

Requests ==
    /\ DOMAIN buffers \subseteq Clients
    /\ \A c \in DOMAIN buffers :
        /\ buffers[c].size \in Sizes
        /\ buffers[c].align \in Aligns \cup {1} /\ buffers[c].offset \in Offsets \cup {0}

BuffersInv ==
    /\ Requests
    /\ free = {a \in Heap : \A c \in DOMAIN buffers : a \notin Taken(c)}
    /\ \A c, d \in DOMAIN buffers : c # d => Taken(c) \cap Taken(d) = {}
    /\ \A c \in DOMAIN buffers : Own(c)

IInv == HeapInv /\ BuffersInv

\* What is in a buffer.
Contents(c) == [i \in 1..buffers[c].size |-> memory[buffers[c].address + i - 1]]

LEMMA SamePlace ==
    ASSUME place' = place
    PROVE  /\ granule' = granule /\ granuleOffset' = granuleOffset
           /\ headerSize' = headerSize
           /\ \A buffer, size : Extent(buffer, size)' = Extent(buffer, size)
           /\ \A pointer : RegionStart(pointer)' = RegionStart(pointer)
<1>1. granule' = granule /\ granuleOffset' = granuleOffset
      BY DEF granule, granuleOffset
<1>2. \A n, g : Align2(n, g)' = Align2(n, g)
      BY DEF Align2
<1>3. headerSize' = headerSize
      BY <1>1 DEF headerSize, Align2
<1>4. \A buffer, size : Extent(buffer, size)' = Extent(buffer, size)
      BY <1>1, <1>3 DEF Extent, Align2
<1>5. \A pointer : RegionStart(pointer)' = RegionStart(pointer)
      BY <1>3 DEF RegionStart
<1> QED BY <1>1, <1>3, <1>4, <1>5

\* The header of a buffer is in what was taken for it.
LEMMA HeaderTaken ==
    ASSUME NoWrap, IInv, NEW c \in DOMAIN buffers
    PROVE  /\ RegionStart(buffers[c].address) \in Taken(c)
           /\ RegionStart(buffers[c].address) \notin
                From(buffers[c].address, buffers[c].size)
           /\ buffers[c].address \in Int
           /\ RegionHeader(buffers[c].address)
                = memory[RegionStart(buffers[c].address)][2]
<1> DEFINE a == buffers[c].address
           s == RegionStart(a)
           l == Length(buffers[c].size)
<1>1. /\ headerSize \in Nat /\ headerSize > 0 /\ l \in Nat
      /\ headerSize <= l
  <2>1. buffers[c].size \in Sizes
        BY DEF IInv, BuffersInv, Requests
  <2>2. /\ headerSize \in Nat /\ HeaderBytes \in Nat \ {0}
        /\ HeaderBytes <= headerSize /\ l \in Nat
        /\ buffers[c].size \in Nat /\ headerSize + buffers[c].size <= l
        BY <2>1, HeaderFacts DEF IInv
  <2> HIDE DEF l
  <2> QED BY <2>2
<1>2. a \in Nat /\ s \in Nat /\ s = a - headerSize
  <2>1. a \in 0..(Span - 1) /\ s \in Nat
        BY DEF IInv, BuffersInv, Own
  <2> QED BY <2>1 DEF RegionStart
<1>3. Taken(c) = From(s, l)
      BY ExtentLength DEF Taken
<1> HIDE DEF a, s, l
<1>4. s \in From(s, l) /\ s < a
      BY <1>1, <1>2 DEF From
<1>5. s \notin From(a, buffers[c].size)
      BY <1>2, <1>4 DEF From
<1>6. RegionHeader(a) = memory[s][2]
      BY <1>2 DEF RegionHeader
<1>7. a \in Int
      BY <1>2
<1> QED BY <1>3, <1>4, <1>5, <1>6, <1>7 DEF a, s

\* Who does not write where a buffer is leaves it, and its header, alone.
LEMMA OwnKept ==
    ASSUME NoWrap, IInv, NEW c \in DOMAIN buffers,
           place' = place, buffers'[c] = buffers[c], Heap \subseteq Heap',
           \A a \in Taken(c) : memory'[a] = memory[a]
    PROVE  Own(c)' /\ Taken(c)' = Taken(c) /\ Contents(c)' = Contents(c)
<1> DEFINE b == buffers[c]
<1>1. /\ granule' = granule /\ granuleOffset' = granuleOffset
      /\ headerSize' = headerSize
      /\ RegionStart(b.address)' = RegionStart(b.address)
  <2>1. RegionStart(b.address)' = RegionStart(b.address)
        BY SamePlace DEF RegionStart
  <2> QED BY <2>1, SamePlace
<1>2. Taken(c)' = Taken(c)
      BY SamePlace DEF Taken, Extent, RegionStart, Align2
<1>3. RegionHeader(b.address)' = RegionHeader(b.address)
      BY <1>1, HeaderTaken DEF RegionHeader, RegionStart
<1>4. Own(c)
      BY DEF IInv, BuffersInv
<1>5. Own(c)'
      BY <1>1, <1>2, <1>3, <1>4 DEF Own
<1>6. Contents(c)' = Contents(c)
  <2>1. b.address \in Int /\ b.size \in Nat
        BY HeaderTaken, VirtualizerAssumption DEF IInv, BuffersInv, Requests
  <2>2. \A i \in 1..b.size : b.address + i - 1 \in Taken(c)
    <3>1. \A i \in 1..b.size : b.address + i - 1 \in From(b.address, b.size)
          BY <2>1 DEF From
    <3> QED BY <1>4, <3>1 DEF Own
  <2> QED BY <2>1, <2>2 DEF Contents
<1> QED BY <1>2, <1>5, <1>6

-----------------------------------------------------------------------------
(* What a grant is aligned to.                                             *)

LEMMA EffectiveAlign ==
    ASSUME NEW align \in Nat
    PROVE  Max({align, 1}) = IF align = 0 THEN 1 ELSE align
BY DEF Max

\* The wrapped aligner was asked for the address behind the header.
LEMMA BehindHeader ==
    ASSUME NoWrap, HeapInv, NEW buffer \in Nat, NEW align \in Aligns,
           NEW offset \in Offsets, NEW size,
           WrappedOffsetAlign(buffer, align, BufferOffset(offset), size)
    PROVE  ((buffer + headerSize + offset) % Span) % Max({align, 1}) = 0
<1> DEFINE n == offset + headerSize
           m == n % Span
           sum == n + buffer
<1>1. /\ Span \in Nat \ {0} /\ headerSize \in Nat /\ offset \in Nat
      /\ align \in Nat /\ granule \in Nat \ {0} /\ Span % granule = 0
      /\ granule \in Granules
      BY HeaderFacts, VirtualizerAssumption DEF HeapInv, PlaceInv
<1>2. /\ buffer % granule = 0 /\ m % granule = 0
      /\ align > granule => ((buffer + m) % Span) % align = 0
      BY DEF WrappedOffsetAlign, WrappedAlloc, BufferOffset
<1>3. /\ n \in Int /\ m \in Int /\ buffer \in Int /\ sum \in Int
      /\ buffer + headerSize + offset = sum
      BY <1>1
<1>4. CASE align = 0
  <2>1. Max({align, 1}) = 1
        BY <1>1, <1>4, EffectiveAlign
  <2>2. (sum % Span) % 1 = 0
    <3> HIDE DEF sum
    <3> QED BY <1>1, <1>3
  <2> QED BY <1>3, <2>1, <2>2
<1>5. CASE align # 0
  <2>1. /\ align \in Nat \ {0} /\ Max({align, 1}) = align
        /\ Span % align = 0 /\ (align <= granule => granule % align = 0)
        BY <1>1, <1>5, AlignAssumption, EffectiveAlign
  <2> HIDE DEF n, m
  <2>2. (m + buffer) % align = sum % align
        BY <1>1, <1>3, <2>1, Numbers!WrapKeepsRemainder, ZenonT(60) DEF m
  <2>3. sum % align = 0
    <3>1. CASE align > granule
      <4>1. ((buffer + m) % Span) % align = (buffer + m) % align
        <5>1. buffer + m \in Int
              BY <1>3
        <5> QED BY <1>1, <2>1, <5>1, Numbers!WrapRemainder, ZenonT(60)
      <4>2. buffer + m = m + buffer
            BY <1>3
      <4> QED BY <1>2, <2>2, <3>1, <4>1, <4>2
    <3>2. CASE align <= granule
      <4>1. m % granule = n % granule
            BY <1>1, <1>3, Numbers!WrapRemainder, ZenonT(60) DEF m
      <4>2. sum % granule = n % granule
            BY <1>1, <1>2, <1>3, Numbers!MultipleSum, ZenonT(60)
      <4>3. sum % granule = 0
            BY <1>2, <4>1, <4>2
      <4> HIDE DEF sum
      <4> QED BY <1>1, <1>3, <2>1, <3>2, <4>3, Numbers!MultipleOfMultiple, ZenonT(60)
    <3> QED BY <1>1, <2>1, <3>1, <3>2
  <2> HIDE DEF sum
  <2>4. (sum % Span) % align = sum % align
        BY <1>1, <1>3, <2>1, Numbers!WrapRemainder, ZenonT(60)
  <2> QED BY <1>3, <2>1, <2>3, <2>4
<1> QED BY <1>4, <1>5

-----------------------------------------------------------------------------
(* What a grant is.                                                        *)

\* A grant of the wrapped allocator, with the place in it for the client.
LEMMA GrantFacts ==
    ASSUME NoWrap, IInv, NEW buffer \in free, NEW size \in Sizes,
           WrappedAlloc(buffer, size)
    PROVE  /\ buffer \in Nat /\ buffer + headerSize \in 0..(Span - 1)
           /\ RegionStart(buffer + headerSize) = buffer
           /\ Extent(buffer, size) \subseteq free /\ free \subseteq Heap
           /\ From(buffer + headerSize, size) \subseteq Extent(buffer, size)
           /\ From(buffer, HeaderBytes) \subseteq Extent(buffer, size)
           /\ buffer \in From(buffer, HeaderBytes)
           /\ buffer \notin From(buffer + headerSize, size)
           /\ (buffer + headerSize) % granule = granuleOffset
<1> DEFINE l == Length(size)
           h == headerSize
<1>1. /\ granule \in Nat \ {0} /\ Span \in Nat \ {0}
      /\ h \in Nat /\ h % granule = 0
      /\ HeaderBytes \in Nat \ {0} /\ HeaderBytes <= h
      /\ size \in Nat /\ l \in Nat /\ h + size <= l
      BY HeaderFacts DEF IInv
<1>2. Extent(buffer, size) = From(buffer, l)
      BY ExtentLength
<1>3. free \subseteq Heap /\ Extent(buffer, size) \subseteq free
      BY DEF WrappedAlloc, IInv, BuffersInv
<1>4. \A a \in Heap : a \in Nat /\ a + 1 < Span
      BY HeapBound DEF IInv
<1>5. buffer \in Nat
      BY <1>3, <1>4
<1>6. buffer % granule = granuleOffset
      BY DEF WrappedAlloc
<1> HIDE DEF l, h
<1>7. buffer + l - 1 \in From(buffer, l)
      BY <1>1, <1>5 DEF From
<1>8. buffer + l < Span
  <2>1. buffer + l - 1 \in Heap
        BY <1>2, <1>3, <1>7
  <2>2. buffer + l - 1 + 1 < Span
        BY <1>4, <2>1
  <2> QED BY <1>1, <1>5, <2>2
<1>9. buffer + h \in 0..(Span - 1)
      BY <1>1, <1>5, <1>8
<1>10. (buffer + h) % granule = granuleOffset
  <2>1. buffer \in Int /\ h \in Int
        BY <1>1, <1>5
  <2>2. (buffer + h) % granule = buffer % granule
        BY <1>1, <2>1, Numbers!MultipleSum, ZenonT(60)
  <2> QED BY <1>6, <2>2
<1>11. /\ From(buffer + h, size) \subseteq From(buffer, l)
       /\ From(buffer, HeaderBytes) \subseteq From(buffer, l)
       /\ buffer \in From(buffer, HeaderBytes)
       /\ buffer \notin From(buffer + h, size)
       BY <1>1, <1>5 DEF From
<1>12. (buffer + h) - h = buffer
       BY <1>1, <1>5
<1> QED BY <1>2, <1>3, <1>5, <1>9, <1>10, <1>11, <1>12 DEF RegionStart, h

\* What is free or another's is not in what was taken for a buffer.
LEMMA TakenApart ==
    ASSUME IInv, NEW c \in DOMAIN buffers
    PROVE  /\ Taken(c) \subseteq Heap /\ Taken(c) \cap free = {}
           /\ \A d \in DOMAIN buffers \ {c} : Taken(c) \cap Taken(d) = {}
BY DEF IInv, BuffersInv, Own

\* A new buffer is its client's, and is as the client asked.
LEMMA OwnGranted ==
    ASSUME NoWrap, IInv, NEW c, NEW buffer \in free, NEW size \in Sizes,
           WrappedAlloc(buffer, size), NEW align, NEW offset,
           NEW a, a = buffer + headerSize,
           ((a + offset) % Span) % Max({align, 1}) = 0,
           place' = place, Heap' = Heap,
           buffers'[c] = Buffer(a, size, align, offset),
           memory'[buffer] = <<"header", size>>
    PROVE  Own(c)' /\ Taken(c)' = Extent(buffer, size)
<1> DEFINE b == Buffer(a, size, align, offset)
<1>1. /\ granule' = granule /\ granuleOffset' = granuleOffset
      /\ headerSize' = headerSize
      /\ Extent(buffer, size)' = Extent(buffer, size)
  <2>1. Extent(buffer, size)' = Extent(buffer, size)
        BY SamePlace DEF Extent, Align2
  <2> QED BY <2>1, SamePlace
<1>2. b.address = a /\ b.size = size /\ b.align = align /\ b.offset = offset
      BY DEF Buffer
<1>3. /\ buffer \in Nat /\ a \in 0..(Span - 1) /\ a - headerSize = buffer
      /\ Extent(buffer, size) \subseteq Heap
      /\ From(a, size) \subseteq Extent(buffer, size)
      /\ a % granule = granuleOffset
      BY GrantFacts DEF RegionStart
<1> HIDE DEF b
<1>4. buffers'[c] = b
      BY DEF b
<1>5. Taken(c)' = Extent(buffer, size)
  <2>1. Taken(c)' = From(b.address - headerSize',
                         Align2((b.size + headerSize') % Span, granule'))
        BY <1>4 DEF Taken, Extent, RegionStart, Align2
  <2>2. Extent(buffer, size)
            = From(buffer, Align2((size + headerSize) % Span, granule))
        BY DEF Extent
  <2> QED BY <1>1, <1>2, <1>3, <2>1, <2>2
<1>6. RegionHeader(b.address)' = size
  <2>1. RegionHeader(b.address)' = memory'[b.address - headerSize'][2]
        BY DEF RegionHeader
  <2>2. b.address - headerSize' = buffer
        BY <1>1, <1>2, <1>3
  <2> QED BY <2>1, <2>2
<1> QED BY <1>1, <1>2, <1>3, <1>4, <1>5, <1>6 DEF Own, RegionStart, RegionHeader

-----------------------------------------------------------------------------
(* The steps that are promised.                                            *)

LEMMA PromisedAlloc ==
    ASSUME NEW c \in Clients, c \notin DOMAIN buffers,
           DOMAIN buffers' = DOMAIN buffers \cup {c},
           \A d \in DOMAIN buffers : Contents(d)' = Contents(d)
    PROVE  Promised!Next
<1>1. Promised!Alloc(c)
      BY DEF Promised!Alloc, Promised!KeepsOthers, Contents
<1> QED BY <1>1 DEF Promised!Next

LEMMA PromisedFree ==
    ASSUME NEW c \in Clients, c \in DOMAIN buffers,
           DOMAIN buffers' = DOMAIN buffers \ {c},
           \A d \in DOMAIN buffers \ {c} : Contents(d)' = Contents(d)
    PROVE  Promised!Next
<1>1. Promised!Free(c)
      BY DEF Promised!Free, Promised!KeepsOthers, Contents
<1> QED BY <1>1 DEF Promised!Next

LEMMA PromisedRealloc ==
    ASSUME NEW c \in Clients, c \in DOMAIN buffers,
           DOMAIN buffers' = DOMAIN buffers,
           \A i \in (1..buffers[c].size) \cap (1..buffers'[c].size) :
                memory'[buffers'[c].address + i - 1] = memory[buffers[c].address + i - 1],
           \A d \in DOMAIN buffers \ {c} : Contents(d)' = Contents(d)
    PROVE  Promised!Next
<1>1. Promised!Realloc(c)
      BY DEF Promised!Realloc, Promised!KeepsOthers, Contents
<1> QED BY <1>1 DEF Promised!Next

LEMMA PromisedWrite ==
    ASSUME NEW c \in Clients, c \in DOMAIN buffers, buffers[c].size \in Nat,
           buffers' = buffers,
           \A i \in 1..buffers[c].size :
                memory'[buffers[c].address + i - 1] = <<c, i>>,
           \A d \in DOMAIN buffers \ {c} : Contents(d)' = Contents(d)
    PROVE  Promised!Next
<1> DEFINE n == buffers[c].size
           all == [d \in DOMAIN buffers |-> Contents(d)]
<1>1. all[c] = Contents(c) /\ Len(Contents(c)) = n
  <2> DEFINE bytes == Contents(c)
             Bytes == {bytes[i] : i \in 1..n}
  <2>1. n \in Nat /\ bytes \in [1..n -> Bytes]
        BY DEF Contents
  <2>2. bytes \in Seq(Bytes)
    <3> HIDE DEF n, bytes, Bytes
    <3> QED BY <2>1
  <2>3. DOMAIN Contents(c) = 1..n
        BY DEF Contents
  <2> QED BY <2>2, <2>3
<1>2. Contents(c)' = Promised!Written(c, n)
      BY DEF Contents, Promised!Written
<1>3. all' = [all EXCEPT ![c] = Promised!Written(c, Len(@))]
      BY <1>1, <1>2
<1>4. Promised!Write(c)
      BY <1>3 DEF Promised!Write, Contents
<1> QED BY <1>4 DEF Promised!Next

-----------------------------------------------------------------------------
(* The actions.                                                            *)

Kept == BuffersInv' /\ (Promised!Next \/ UNCHANGED Promised!vars)

\* Alloc and OffsetAlign.
LEMMA ProvideKept ==
    ASSUME NoWrap, IInv, NEW c \in Clients, c \notin DOMAIN buffers,
           NEW buffer \in free, NEW size \in Sizes, WrappedAlloc(buffer, size),
           NEW align \in Aligns \cup {1}, NEW offset \in Offsets \cup {0},
           ((buffer + headerSize + offset) % Span) % Max({align, 1}) = 0,
           Provide(c, buffer, size, align, offset)
    PROVE  Kept
<1> DEFINE E == Extent(buffer, size)
<1>1. /\ free' = free \ E /\ place' = place
      /\ memory' = WithHeader(memory, buffer, size)
      /\ DOMAIN buffers' = DOMAIN buffers \cup {c}
      /\ \A d \in DOMAIN buffers : buffers'[d] = buffers[d]
      /\ buffers'[c] = Buffer(buffer + headerSize, size, align, offset)
      BY DEF Provide
<1>2. /\ E \subseteq free /\ free \subseteq Heap
      /\ From(buffer, HeaderBytes) \subseteq E
      /\ buffer \in From(buffer, HeaderBytes)
      BY GrantFacts
<1>3. /\ Heap' = Heap
      /\ \A a \in Heap \ E : memory'[a] = memory[a]
      /\ memory'[buffer] = <<"header", size>>
      BY <1>1, <1>2 DEF WithHeader, WithBytes, Heap
<1>4. Own(c)' /\ Taken(c)' = E
  <2> PICK a : a = buffer + headerSize
      OBVIOUS
  <2>1. /\ ((a + offset) % Span) % Max({align, 1}) = 0
        /\ buffers'[c] = Buffer(a, size, align, offset)
        BY <1>1
  <2> QED BY <1>1, <1>3, <2>1, OwnGranted
<1> HIDE DEF E
<1>5. ASSUME NEW d \in DOMAIN buffers
      PROVE  /\ Own(d)' /\ Taken(d)' = Taken(d) /\ Contents(d)' = Contents(d)
             /\ Taken(d) \cap E = {}
  <2>1. Taken(d) \subseteq Heap /\ Taken(d) \cap free = {}
        BY TakenApart
  <2>2. \A a \in Taken(d) : memory'[a] = memory[a]
        BY <1>2, <1>3, <2>1
  <2>3. Own(d)' /\ Taken(d)' = Taken(d) /\ Contents(d)' = Contents(d)
        BY <1>1, <1>3, <2>2, OwnKept
  <2> QED BY <1>2, <2>1, <2>3
<1>6. Requests'
      BY <1>1 DEF IInv, BuffersInv, Requests, Buffer
<1>7. \A d, e \in DOMAIN buffers' : d # e => Taken(d)' \cap Taken(e)' = {}
      BY <1>1, <1>4, <1>5 DEF IInv, BuffersInv
<1>8. free' = {a \in Heap' : \A d \in DOMAIN buffers' : a \notin Taken(d)'}
      BY <1>1, <1>3, <1>4, <1>5 DEF IInv, BuffersInv
<1>9. BuffersInv'
      BY <1>1, <1>4, <1>5, <1>6, <1>7, <1>8 DEF BuffersInv
<1>10. Promised!Next
      BY <1>1, <1>5, PromisedAlloc
<1> QED BY <1>9, <1>10 DEF Kept

\* Dealloc, and Free by the size in the header.
LEMMA GiveBackKept ==
    ASSUME NoWrap, IInv, NEW c \in Clients, c \in DOMAIN buffers,
           NEW size, size = buffers[c].size, GiveBack(c, size)
    PROVE  Kept
<1> DEFINE gone == Taken(c)
<1>1. /\ free' = free \cup gone /\ place' = place
      /\ memory' = WithBytes(memory, gone, Unknown)
      /\ DOMAIN buffers' = DOMAIN buffers \ {c}
      /\ \A d \in DOMAIN buffers \ {c} : buffers'[d] = buffers[d]
      BY DEF GiveBack, Taken
<1>2. /\ Heap' = Heap
      /\ \A a \in Heap \ gone : memory'[a] = memory[a]
      BY <1>1 DEF WithBytes, Heap
<1>3. gone \subseteq Heap /\ gone \cap free = {}
      BY TakenApart
<1>4. ASSUME NEW d \in DOMAIN buffers \ {c}
      PROVE  /\ Own(d)' /\ Taken(d)' = Taken(d) /\ Contents(d)' = Contents(d)
             /\ Taken(d) \cap gone = {}
  <2>1. Taken(d) \subseteq Heap /\ Taken(d) \cap gone = {}
        BY TakenApart
  <2>2. \A a \in Taken(d) : memory'[a] = memory[a]
        BY <1>2, <2>1
  <2>3. Own(d)' /\ Taken(d)' = Taken(d) /\ Contents(d)' = Contents(d)
        BY <1>1, <1>2, <2>2, OwnKept
  <2> QED BY <2>1, <2>3
<1>5. Requests'
      BY <1>1 DEF IInv, BuffersInv, Requests
<1>6. \A d, e \in DOMAIN buffers' : d # e => Taken(d)' \cap Taken(e)' = {}
      BY <1>1, <1>4 DEF IInv, BuffersInv
<1>7. free' = {a \in Heap' : \A d \in DOMAIN buffers' : a \notin Taken(d)'}
  <2>1. \A a \in Heap : a \in free <=> \A d \in DOMAIN buffers : a \notin Taken(d)
        BY DEF IInv, BuffersInv
  <2> HIDE DEF gone
  <2>2. \A a \in Heap : a \in free <=>
            a \notin gone /\ \A d \in DOMAIN buffers \ {c} : a \notin Taken(d)
        BY <2>1 DEF gone
  <2>3. \A a \in Heap : a \in free \cup gone <=>
            \A d \in DOMAIN buffers \ {c} : a \notin Taken(d)
        BY <1>4, <2>2
  <2>4. free \subseteq Heap
        BY DEF IInv, BuffersInv
  <2> QED BY <1>1, <1>2, <1>3, <1>4, <2>3, <2>4
<1>8. BuffersInv'
      BY <1>1, <1>4, <1>5, <1>6, <1>7 DEF BuffersInv
<1>9. Promised!Next
      BY <1>1, <1>4, PromisedFree
<1> QED BY <1>8, <1>9 DEF Kept

\* Realloc.  The old buffer is still taken when the new one is granted, so that
\* neither the new header nor the copy touches what is copied.
LEMMA ReallocKept ==
    ASSUME NoWrap, IInv, NEW c \in Clients, NEW size \in Sizes, Realloc(c, size)
    PROVE  Kept
<1> DEFINE old == buffers[c]
           gone == Taken(c)
<1>1. c \in DOMAIN buffers /\ Own(c)
      BY DEF Realloc, IInv, BuffersInv
<1>2. RegionHeader(old.address) = old.size
      BY <1>1 DEF Own
<1>3. PICK buffer \in free :
        /\ WrappedAlloc(buffer, size)
        /\ free' = (free \ Extent(buffer, size)) \cup gone
        /\ memory' = WithBytes(Memcpy(WithHeader(memory, buffer, size),
                                      buffer + headerSize, old.address,
                                      CopySize(old.size, size)),
                               gone, Unknown)
        /\ buffers' = [buffers EXCEPT ![c] = Buffer(buffer + headerSize, size, 1, 0)]
        /\ place' = place
      BY <1>2 DEF Realloc, Taken
<1> PICK to : to = buffer + headerSize
      OBVIOUS
<1> DEFINE E == Extent(buffer, size)
           copied == CopySize(old.size, size)
<1>4. /\ buffer \in Nat /\ to \in 0..(Span - 1)
      /\ E \subseteq free /\ free \subseteq Heap
      /\ From(to, size) \subseteq E
      /\ From(buffer, HeaderBytes) \subseteq E
      /\ buffer \in From(buffer, HeaderBytes)
      /\ buffer \notin From(to, size)
      BY <1>3, GrantFacts
<1>5. gone \subseteq Heap /\ gone \cap free = {} /\ From(old.address, old.size) \subseteq gone
      BY <1>1, TakenApart DEF Own
<1>6. /\ size \in Nat /\ old.size \in Nat /\ old.size \in Sizes
      /\ old.address \in Int /\ Span \in Nat
  <2>1. old.size \in Sizes
        BY <1>1 DEF IInv, BuffersInv, Requests
  <2> QED BY <1>1, <2>1, HeaderTaken, VirtualizerAssumption
<1>7. /\ copied = IF old.size <= size THEN old.size ELSE size
      /\ copied \in Nat /\ copied <= size /\ copied <= old.size
  <2>1. copied = IF old.size <= size THEN old.size ELSE size
        BY <1>6, MinOfTwo DEF CopySize
  <2> QED BY <1>6, <2>1
<1> HIDE DEF E, copied, gone
<1>8. From(to, copied) \subseteq From(to, size)
      BY <1>4, <1>6, <1>7 DEF From
<1>9. /\ Heap' = Heap
      /\ \A a \in Heap : memory'[a] =
            IF a \in gone THEN Unknown
            ELSE IF a \in From(to, copied)
                 THEN WithHeader(memory, buffer, size)[old.address + (a - to)]
            ELSE WithHeader(memory, buffer, size)[a]
      BY <1>3 DEF WithBytes, Memcpy, Heap, copied
<1>10. \A a \in Heap : WithHeader(memory, buffer, size)[a] =
            IF a \in From(buffer, HeaderBytes) THEN <<"header", size>> ELSE memory[a]
      BY DEF WithHeader, WithBytes
<1>11. \A a \in Heap \ (E \cup gone) : memory'[a] = memory[a]
      BY <1>4, <1>8, <1>9, <1>10
<1>12. memory'[buffer] = <<"header", size>>
      BY <1>4, <1>5, <1>8, <1>9, <1>10
<1>13. DOMAIN buffers' = DOMAIN buffers
       /\ buffers'[c] = Buffer(to, size, 1, 0)
       /\ \A d \in DOMAIN buffers \ {c} : buffers'[d] = buffers[d]
      BY <1>1, <1>3
<1>14. Own(c)' /\ Taken(c)' = E
  <2>1. ((to + 0) % Span) % Max({1, 1}) = 0
    <3>1. Max({1, 1}) = 1
          BY EffectiveAlign
    <3>2. ((to + 0) % Span) % 1 = 0
          BY <1>4, <1>6
    <3> QED BY <3>1, <3>2
  <2> QED BY <1>3, <1>9, <1>12, <1>13, <2>1, OwnGranted DEF E
<1>15. ASSUME NEW d \in DOMAIN buffers \ {c}
       PROVE  /\ Own(d)' /\ Taken(d)' = Taken(d) /\ Contents(d)' = Contents(d)
              /\ Taken(d) \cap E = {} /\ Taken(d) \cap gone = {}
  <2>1. /\ Taken(d) \subseteq Heap /\ Taken(d) \cap free = {}
        /\ Taken(d) \cap gone = {}
        BY <1>1, TakenApart DEF gone
  <2>2. \A a \in Taken(d) : memory'[a] = memory[a]
        BY <1>4, <1>11, <2>1
  <2>3. Own(d)' /\ Taken(d)' = Taken(d) /\ Contents(d)' = Contents(d)
        BY <1>3, <1>9, <1>13, <2>2, OwnKept
  <2> QED BY <1>4, <2>1, <2>3
<1>16. Requests'
      BY <1>13 DEF IInv, BuffersInv, Requests, Buffer
<1>17. \A d, e \in DOMAIN buffers' : d # e => Taken(d)' \cap Taken(e)' = {}
      BY <1>13, <1>14, <1>15 DEF IInv, BuffersInv
<1>18. free' = {a \in Heap' : \A d \in DOMAIN buffers' : a \notin Taken(d)'}
  <2>1. \A a \in Heap : a \in free <=> \A d \in DOMAIN buffers : a \notin Taken(d)
        BY DEF IInv, BuffersInv
  <2>2. \A a \in Heap : a \in free <=>
            a \notin gone /\ \A d \in DOMAIN buffers \ {c} : a \notin Taken(d)
        BY <1>1, <2>1 DEF gone
  <2>3. \A a \in Heap : a \in (free \ E) \cup gone <=>
            a \notin E /\ \A d \in DOMAIN buffers \ {c} : a \notin Taken(d)
        BY <1>4, <1>5, <1>15, <2>2
  <2>4. free' = (free \ E) \cup gone
        BY <1>3 DEF E
  <2>5. \A a : (\A d \in DOMAIN buffers' : a \notin Taken(d)') <=>
            a \notin E /\ \A d \in DOMAIN buffers \ {c} : a \notin Taken(d)
        BY <1>1, <1>13, <1>14, <1>15
  <2>6. (free \ E) \cup gone \subseteq Heap
        BY <1>4, <1>5
  <2> QED BY <1>9, <2>3, <2>4, <2>5, <2>6
<1>19. BuffersInv'
      BY <1>1, <1>13, <1>14, <1>15, <1>16, <1>17, <1>18 DEF BuffersInv
<1>20. ASSUME NEW i \in (1..old.size) \cap (1..buffers'[c].size)
       PROVE  memory'[buffers'[c].address + i - 1] = memory[old.address + i - 1]
  <2> DEFINE a == to + i - 1
             from == old.address + i - 1
  <2>1. i \in 1..size
        BY <1>13 DEF Buffer
  <2>2. a \in From(to, copied) /\ from \in From(old.address, old.size)
        BY <1>4, <1>6, <1>7, <2>1 DEF From
  <2>3. old.address + (a - to) = from
        BY <1>4, <1>6
  <2> HIDE DEF a, from
  <2>4. a \in Heap /\ a \notin gone /\ from \in gone /\ from \in Heap
        BY <1>4, <1>5, <1>8, <2>2
  <2>5. from \notin From(buffer, HeaderBytes)
        BY <1>4, <1>5, <2>4
  <2>6. memory'[a] = memory[from]
        BY <1>9, <1>10, <2>2, <2>3, <2>4, <2>5
  <2>7. buffers'[c].address + i - 1 = a
        BY <1>13 DEF Buffer, a
  <2> QED BY <2>6, <2>7 DEF from
<1>21. Promised!Next
      BY <1>1, <1>13, <1>15, <1>20, PromisedRealloc
<1> QED BY <1>19, <1>21 DEF Kept

LEMMA WriteKept ==
    ASSUME NoWrap, IInv, NEW c \in Clients, Write(c)
    PROVE  Kept
<1> DEFINE b == buffers[c]
<1>1. /\ c \in DOMAIN buffers /\ place' = place /\ free' = free /\ buffers' = buffers
      /\ memory' = [a \in Heap |->
                        IF a \in From(b.address, b.size) THEN <<c, a - b.address + 1>>
                        ELSE memory[a]]
      BY DEF Write
<1>2. Own(c)
      BY <1>1 DEF IInv, BuffersInv
<1>3. /\ Taken(c) \subseteq Heap /\ From(b.address, b.size) \subseteq Taken(c)
      BY <1>2 DEF Own
<1>4. b.size \in Nat /\ b.address \in Int
      BY <1>1, HeaderTaken, VirtualizerAssumption DEF IInv, BuffersInv, Requests
<1>5. /\ Heap' = Heap
      /\ \A a \in Heap \ From(b.address, b.size) : memory'[a] = memory[a]
      BY <1>1 DEF Heap
<1>6. ASSUME NEW d \in DOMAIN buffers \ {c}
      PROVE  Own(d)' /\ Taken(d)' = Taken(d) /\ Contents(d)' = Contents(d)
  <2>1. Taken(d) \subseteq Heap /\ Taken(d) \cap Taken(c) = {}
        BY <1>1, TakenApart
  <2>2. \A a \in Taken(d) : memory'[a] = memory[a]
        BY <1>3, <1>5, <2>1
  <2> QED BY <1>1, <1>5, <2>2, OwnKept
<1>7. /\ granule' = granule /\ granuleOffset' = granuleOffset
      /\ headerSize' = headerSize
      /\ Taken(c)' = Taken(c) /\ RegionStart(b.address)' = RegionStart(b.address)
  <2>1. /\ Taken(c)' = Taken(c)
        /\ RegionStart(b.address)' = RegionStart(b.address)
        BY <1>1, SamePlace DEF Taken, Extent, RegionStart, Align2
  <2> QED BY <1>1, <2>1, SamePlace
<1>8. RegionHeader(b.address)' = RegionHeader(b.address)
  <2> DEFINE s == RegionStart(b.address)
  <2>1. s \in Taken(c) /\ s \notin From(b.address, b.size)
        BY <1>1, HeaderTaken
  <2>2. memory'[s] = memory[s]
        BY <1>3, <1>5, <2>1
  <2> QED BY <1>1, <1>7, <2>2 DEF RegionHeader, RegionStart
<1>9. Own(c)'
      BY <1>1, <1>2, <1>5, <1>7, <1>8 DEF Own
<1>10. Requests'
      BY <1>1 DEF IInv, BuffersInv, Requests
<1>11. BuffersInv'
      BY <1>1, <1>5, <1>6, <1>7, <1>9, <1>10 DEF IInv, BuffersInv
<1>12. \A i \in 1..b.size : memory'[b.address + i - 1] = <<c, i>>
  <2> SUFFICES ASSUME NEW i \in 1..b.size
               PROVE  memory'[b.address + i - 1] = <<c, i>>
      OBVIOUS
  <2>1. /\ b.address + i - 1 \in From(b.address, b.size)
        /\ (b.address + i - 1) - b.address + 1 = i
        BY <1>4 DEF From
  <2> QED BY <1>1, <1>3, <2>1
<1>13. Promised!Next
      BY <1>1, <1>4, <1>6, <1>12, PromisedWrite
<1> QED BY <1>11, <1>13 DEF Kept

\* Where the bytes of every buffer stay.
LEMMA Undisturbed ==
    ASSUME NoWrap, IInv, place' = place, buffers' = buffers, Heap \subseteq Heap',
           free' = free \cup (Heap' \ Heap),
           \A a \in Heap : memory'[a] = memory[a]
    PROVE  Kept
<1>1. ASSUME NEW d \in DOMAIN buffers
      PROVE  /\ Own(d)' /\ Taken(d)' = Taken(d) /\ Contents(d)' = Contents(d)
             /\ Taken(d) \subseteq Heap
  <2>1. Taken(d) \subseteq Heap
        BY TakenApart
  <2> QED BY <2>1, OwnKept
<1>2. Requests'
      BY DEF IInv, BuffersInv, Requests
<1>3. free' = {a \in Heap' : \A d \in DOMAIN buffers' : a \notin Taken(d)'}
      BY <1>1 DEF IInv, BuffersInv
<1>4. BuffersInv'
      BY <1>1, <1>2, <1>3 DEF IInv, BuffersInv
<1>5. UNCHANGED Promised!vars
      BY <1>1 DEF Promised!vars, Contents
<1> QED BY <1>4, <1>5 DEF Kept

LEMMA AddRegionKept ==
    ASSUME NoWrap, IInv, NEW r \in Additions, AddRegion(r)
    PROVE  Kept
<1> DEFINE new == Trimmed(r.start, r.size)
<1>1. /\ r \notin added /\ place' = place /\ buffers' = buffers
      /\ free' = free \cup new
      /\ Heap' = Heap \cup new
      /\ \A a \in Heap : memory'[a] = memory[a]
      BY DEF AddRegion, Heap
<1>2. new \cap Heap = {}
  <2>1. /\ new \subseteq From(r.start, r.size)
        /\ From(r.start, r.size) \cap Given = {}
        /\ \A q \in added : From(r.start, r.size) \cap Trimmed(q.start, q.size) = {}
        BY <1>1, AddedApart DEF IInv
  <2> HIDE DEF new
  <2> QED BY <2>1 DEF IInv, HeapInv
<1> HIDE DEF new
<1>3. Heap' \ Heap = new
      BY <1>1, <1>2
<1> QED BY <1>1, <1>3, Undisturbed

LEMMA StepKept ==
    ASSUME NoWrap, IInv, [Next]_vars
    PROVE  Kept
<1>1. CASE UNCHANGED vars
  <2>1. /\ place' = place /\ buffers' = buffers /\ free' = free /\ memory' = memory
        /\ Heap' = Heap
        BY <1>1 DEF vars, Heap
  <2> QED BY <2>1, Undisturbed
<1>2. ASSUME NEW c \in Clients, Dealloc(c)
      PROVE  Kept
      BY <1>2, GiveBackKept DEF Dealloc
<1>3. ASSUME NEW c \in Clients, Free(c)
      PROVE  Kept
  <2>1. c \in DOMAIN buffers /\ GiveBack(c, RegionHeader(buffers[c].address))
        BY <1>3 DEF Free
  <2>2. RegionHeader(buffers[c].address) = buffers[c].size
        BY <2>1 DEF IInv, BuffersInv, Own
  <2> QED BY <2>1, <2>2, GiveBackKept
<1>4. ASSUME NEW c \in Clients, Write(c)
      PROVE  Kept
      BY <1>4, WriteKept
<1>5. ASSUME NEW c \in Clients, NEW size \in Sizes, Alloc(c, size)
      PROVE  Kept
  <2>1. c \notin DOMAIN buffers
        BY <1>5 DEF Alloc
  <2>2. PICK buffer \in free :
            WrappedAlloc(buffer, size) /\ Provide(c, buffer, size, 1, 0)
        BY <1>5 DEF Alloc
  <2>3. ((buffer + headerSize + 0) % Span) % Max({1, 1}) = 0
    <3>1. buffer \in Nat /\ headerSize \in Nat /\ Span \in Nat \ {0}
          BY <2>2, GrantFacts, HeaderFacts DEF IInv
    <3>2. Max({1, 1}) = 1
          BY EffectiveAlign
    <3>3. ((buffer + headerSize + 0) % Span) % 1 = 0
          BY <3>1
    <3> QED BY <3>2, <3>3
  <2> QED BY <2>1, <2>2, <2>3, ProvideKept
<1>6. ASSUME NEW c \in Clients, NEW size \in Sizes, Realloc(c, size)
      PROVE  Kept
      BY <1>6, ReallocKept
<1>7. ASSUME NEW c \in Clients, NEW align \in Aligns, NEW offset \in Offsets,
             NEW size \in Sizes, OffsetAlign(c, align, offset, size)
      PROVE  Kept
  <2>1. c \notin DOMAIN buffers
        BY <1>7 DEF OffsetAlign
  <2>2. PICK buffer \in free :
            /\ WrappedOffsetAlign(buffer, align, BufferOffset(offset), size)
            /\ Provide(c, buffer, size, align, offset)
        BY <1>7 DEF OffsetAlign
  <2>3. WrappedAlloc(buffer, size)
        BY <2>2 DEF WrappedOffsetAlign
  <2>4. buffer \in Nat
        BY <2>3, GrantFacts
  <2>5. ((buffer + headerSize + offset) % Span) % Max({align, 1}) = 0
        BY <2>2, <2>4, BehindHeader DEF IInv
  <2> QED BY <2>1, <2>2, <2>3, <2>5, ProvideKept
<1>8. ASSUME NEW r \in Additions, AddRegion(r)
      PROVE  Kept
      BY <1>8, AddRegionKept
<1> QED BY <1>1, <1>2, <1>3, <1>4, <1>5, <1>6, <1>7, <1>8 DEF Next

LEMMA BuffersInit ==
    ASSUME Init
    PROVE  BuffersInv
<1>1. DOMAIN buffers = {} /\ Heap = free
      BY DEF Init, Heap
<1> QED BY <1>1 DEF BuffersInv, Requests

LEMMA Invariance ==
    ASSUME NoWrap
    PROVE  Spec => []IInv
<1>1. Init => BuffersInv
      BY BuffersInit
<1>2. HeapInv /\ BuffersInv /\ [Next]_vars => BuffersInv'
      BY StepKept DEF IInv, Kept
<1>3. HeapInv /\ BuffersInv => IInv
      BY DEF IInv
<1> QED BY <1>1, <1>2, <1>3, HeapInvariance, PTL DEF Spec

-----------------------------------------------------------------------------
\* The variables have their types: no buffer begins where there is no address.
THEOREM TypeTheorem ==
    ASSUME NoWrap
    PROVE  Spec => []TypeOK
<1>1. IInv => TypeOK
      BY DEF IInv, HeapInv, BuffersInv, Requests, Own, TypeOK
<1> QED BY <1>1, Invariance, PTL

\* Whatever is allocated, aligned, reallocated and freed, what Free and Dealloc
\* give back is what was taken, extents are never shared, and buffers are
\* aligned as asked behind headers that tell their sizes.
THEOREM BuffersExactTheorem ==
    ASSUME NoWrap
    PROVE  Spec => []BuffersExact
<1>1. ASSUME IInv PROVE BuffersExact
  <2>1. free = Heap \ UNION {Taken(c) : c \in DOMAIN buffers}
        BY <1>1 DEF IInv, BuffersInv
  <2> QED BY <1>1, <2>1 DEF IInv, BuffersInv, Own, BuffersExact
<1> QED BY <1>1, Invariance, PTL

\* A virtualizer keeps the promise of VirtualAllocator: the bytes of a buffer
\* change by its client's writes only, and Realloc keeps those that fit.
THEOREM ContractTheorem ==
    ASSUME NoWrap
    PROVE  Spec => VirtualAllocatorContract
<1>1. Init => Promised!Init
  <2> SUFFICES ASSUME Init PROVE Promised!Init
      OBVIOUS
  <2>1. DOMAIN buffers = {}
        BY DEF Init
  <2> QED BY <2>1 DEF Promised!Init
<1>2. IInv /\ [Next]_vars => [Promised!Next]_(Promised!vars)
      BY StepKept DEF Kept
<1> QED BY <1>1, <1>2, Invariance, PTL DEF Spec, VirtualAllocatorContract, Promised!Spec

\* Without a sum that wraps, a buffer has the size that was asked for.
THEOREM AllocGivesSizeTheorem ==
    ASSUME NoWrap
    PROVE  Spec => []AllocGivesSize
<1>1. IInv => AllocGivesSize
      BY DEF IInv, BuffersInv, Own, AllocGivesSize
<1> QED BY <1>1, Invariance, PTL
===============================================================================
