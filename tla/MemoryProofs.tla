---------------------------- MODULE MemoryProofs ----------------------------
(***************************************************************************)
(* The address space stays well-formed, first fit finds the first fit, and  *)
(* nothing given back stays recorded, for every page size, width of an      *)
(* address, layout and sequence of calls.                                   *)
(***************************************************************************)
EXTENDS Memory, TLAPS, WellFoundedInduction

(* Rounding. *)
LEMMA ModBounds ==
    ASSUME NEW n \in Nat, NEW p \in Nat \ {0}
    PROVE  /\ n % p \in 0 .. p - 1
           /\ n % p <= n
           /\ n < p => n % p = n
  OBVIOUS

LEMMA ModSpace ==
    ASSUME NEW n \in Nat
    PROVE  n % Space \in Nat /\ n % Space <= n /\ (n < Space => n % Space = n)
BY ModBounds, MemoryConstants

LEMMA ModMonotone ==
    ASSUME NEW n \in Nat, NEW m \in Nat, NEW p \in Nat \ {0}, n <= m
    PROVE  n - (n % p) <= m - (m % p)
  OBVIOUS

LEMMA Rounding ==
    ASSUME NEW n \in Nat
    PROVE  /\ RoundDown(n) \in Nat /\ RoundDown(n) <= n
           /\ RoundUp(n) \in Nat /\ (n # 0 => RoundUp(n) # 0)
           /\ WrapUp(n) \in Nat /\ WrapUp(n) <= RoundUp(n)
<1>1. \A x \in Nat : RoundDown(x) \in Nat /\ RoundDown(x) <= x /\ RoundDown(x) > x - Page
    BY ModBounds, MemoryConstants DEF RoundDown
<1> DEFINE up == n + Page - 1
<1>2. up \in Nat
    BY MemoryConstants
<1>3. up % Space \in Nat /\ up % Space <= up
    BY <1>2, ModSpace
<1>4. WrapUp(n) <= RoundUp(n)
    <2>1. (up % Space) - ((up % Space) % Page) <= up - (up % Page)
        <3> HIDE DEF up
        <3> QED BY <1>2, <1>3, ModMonotone, MemoryConstants
    <2> QED BY <2>1 DEF WrapUp, RoundUp, RoundDown
<1>5. n # 0 => RoundUp(n) # 0
    BY <1>1, <1>2, MemoryConstants DEF RoundUp
<1> QED BY <1>1, <1>2, <1>3, <1>4, <1>5 DEF RoundUp, WrapUp

-----------------------------------------------------------------------------
(* The least element of a set of naturals. *)
LEMMA NatHasMin ==
    ASSUME NEW T \in SUBSET Nat, T # {}
    PROVE  \E x \in T : \A y \in T : x <= y
<1> DEFINE R == {ss \in Nat \X Nat : ss[1] < ss[2]}
<1>1. IsWellFoundedOn(R, Nat)
    BY NatLessThanWellFounded, Zenon DEF OpToRel
<1>2. \A x, y \in Nat : ~ (<<y, x>> \in R) => x <= y
    OBVIOUS
<1> HIDE DEF R
<1>3. \E x \in T : \A y \in T : ~ (<<y, x>> \in R)
    BY <1>1, WFMin
<1> QED BY <1>2, <1>3

-----------------------------------------------------------------------------
(* What one region must satisfy by itself, given bounds and break. *)
Inside(r) ==
    /\ r \in RegionType
    /\ End(r) <= layout.max_addr
    /\ layout.reserved_until # 0 => r.addr >= brk
    /\ layout.brk_limit < layout.mmap_base =>
          End(r) <= layout.brk_limit \/ r.addr >= layout.mmap_base

(* What the bounds and the break must satisfy. *)
Bounds ==
    /\ layout \in Layouts
    /\ brk \in Address
    /\ layout.initial_brk <= brk /\ brk <= layout.max_addr
    /\ layout.brk_limit < layout.mmap_base => brk <= layout.brk_limit
    /\ data_limit \in Nat
    /\ held \subseteq Address

AllApart(rs) == \A r, q \in rs : r # q => Apart(r, q)
AllInside(rs) == \A r \in rs : Inside(r)

LEMMA SpaceApartParts ==
    SpaceApart <=> /\ Bounds /\ AllInside(Regions) /\ AllApart(Regions)
                   /\ mappings \cap reserved = {}
BY DEF SpaceApart, TypeOK, RegionsApart, HeapApart, ControlApart, Bounds,
       AllInside, Inside, AllApart, Regions

LEMMA LayoutFacts ==
    ASSUME Bounds
    PROVE  /\ layout.initial_brk \in Nat /\ layout.max_addr \in Nat
           /\ layout.brk_limit \in Nat /\ layout.mmap_base \in Nat
           /\ layout.max_addr < Space /\ brk \in Nat
           /\ layout.reserved_until \in {0, layout.initial_brk}
           /\ layout.initial_brk <= layout.mmap_base
           /\ layout.initial_brk <= layout.brk_limit
           /\ layout.mmap_base <= layout.max_addr
BY MemoryConstants DEF Bounds, Layout, Address

LEMMA RegionFacts ==
    ASSUME NEW r \in RegionType
    PROVE  r.addr \in Nat /\ r.len \in Nat \ {0} /\ End(r) \in Nat /\ r.addr < End(r)
BY MemoryConstants DEF RegionType, Address, End

(* A range that a placement may take: inside the bounds and apart from what  *)
(* is there.                                                                 *)
Fits(a, n) ==
    /\ a \in Nat /\ n \in Nat \ {0}
    /\ Inside([addr |-> a, len |-> n])
    /\ ~ Overlaps(Regions, a, n)

LEMMA InsideRange ==
    ASSUME Bounds, NEW a \in Nat, NEW n \in Nat \ {0}, a + n <= layout.max_addr
    PROVE  /\ [addr |-> a, len |-> n] \in RegionType
           /\ End([addr |-> a, len |-> n]) = a + n
BY LayoutFacts, MemoryConstants DEF RegionType, Address, End

(* Adding a range that fits keeps everything apart. *)
LEMMA InsertKeeps ==
    ASSUME NEW rs, NEW a \in Nat, NEW n \in Nat \ {0},
           AllInside(rs), AllApart(rs), ~ Overlaps(rs, a, n),
           Inside([addr |-> a, len |-> n])
    PROVE  AllInside(Insert(rs, a, n)) /\ AllApart(Insert(rs, a, n))
<1> DEFINE new == [addr |-> a, len |-> n]
<1>1. AllInside(Insert(rs, a, n))
    BY DEF AllInside, Insert
<1>2. \A r \in rs : Apart(r, new) /\ Apart(new, r)
    <2> SUFFICES ASSUME NEW r \in rs PROVE Apart(r, new) /\ Apart(new, r)
        OBVIOUS
    <2>1. r \in RegionType
        BY DEF AllInside, Inside
    <2>2. ~ (a < End(r) /\ a + n > r.addr)
        BY DEF Overlaps, Overlap
    <2>3. End(new) = a + n /\ new.addr = a
        BY DEF End
    <2> QED BY <2>1, <2>2, <2>3, RegionFacts DEF Apart
<1> QED BY <1>1, <1>2 DEF AllApart, Insert

(* Leaving some out, or replacing each by what lies within it, does too. *)
LEMMA FewerKeeps ==
    ASSUME NEW rs, NEW qs \in SUBSET rs, AllInside(rs), AllApart(rs)
    PROVE  AllInside(qs) /\ AllApart(qs)
BY DEF AllInside, AllApart

LEMMA NoOverlapApart ==
    ASSUME NEW rs, NEW qs, NEW a, NEW n, ~ Overlaps(rs, a, n), qs \subseteq rs
    PROVE  ~ Overlaps(qs, a, n)
BY DEF Overlaps

(* What Unmapped leaves: pieces of the old mappings, each inside its         *)
(* mapping and outside the range taken out.                                  *)
Hit(m, a, e) == a < e /\ m.addr < e /\ End(m) > a
PieceOf(r, m, a, e) ==
    \/ r = m /\ ~ Hit(m, a, e)
    \/ r = Region(m.addr, a) /\ Hit(m, a, e) /\ m.addr < a
    \/ r = Region(e, End(m)) /\ Hit(m, a, e) /\ End(m) > e
Within(r, m) == m.addr <= r.addr /\ End(r) <= End(m)

LEMMA UnmappedPieces ==
    ASSUME NEW ms, NEW a, NEW e, NEW r \in Unmapped(ms, a, e)
    PROVE  \E m \in ms : PieceOf(r, m, a, e)
BY DEF Unmapped, PieceOf, Hit

LEMMA PieceFacts ==
    ASSUME Bounds, NEW m, Inside(m), NEW a \in Nat, NEW e \in Nat,
           NEW r, PieceOf(r, m, a, e)
    PROVE  /\ Inside(r) /\ Within(r, m)
           /\ a < e => End(r) <= a \/ e <= r.addr
<1>1. m \in RegionType /\ m.addr \in Nat /\ m.len \in Nat \ {0} /\ End(m) \in Nat
    BY RegionFacts DEF Inside
<1>2. /\ m.addr < End(m) /\ End(m) <= layout.max_addr
      /\ layout.max_addr \in Nat /\ layout.max_addr < Space
    BY <1>1, RegionFacts, LayoutFacts DEF Inside
<1>3. CASE r = m /\ ~ Hit(m, a, e)
    BY <1>1, <1>2, <1>3 DEF Within, Hit
<1>4. CASE r = Region(m.addr, a) /\ Hit(m, a, e) /\ m.addr < a
    <2>1. r = [addr |-> m.addr, len |-> a - m.addr] /\ a - m.addr \in Nat \ {0}
        BY <1>1, <1>4 DEF Region
    <2>2. r \in RegionType /\ r.addr = m.addr /\ End(r) = a
        BY <1>1, <1>2, <1>4, <2>1, InsideRange DEF Hit
    <2> QED BY <1>1, <1>2, <1>4, <2>2, LayoutFacts DEF Inside, Within, Hit
<1>5. CASE r = Region(e, End(m)) /\ Hit(m, a, e) /\ End(m) > e
    <2>1. r = [addr |-> e, len |-> End(m) - e] /\ End(m) - e \in Nat \ {0}
        BY <1>1, <1>5 DEF Region
    <2>2. r \in RegionType /\ r.addr = e /\ End(r) = End(m)
        BY <1>1, <1>2, <1>5, <2>1, InsideRange DEF Hit
    <2> QED BY <1>1, <1>2, <1>5, <2>2, LayoutFacts DEF Inside, Within, Hit
<1> QED BY <1>3, <1>4, <1>5 DEF PieceOf

LEMMA WithinApart ==
    ASSUME NEW m \in RegionType, NEW k \in RegionType, NEW r \in RegionType,
           NEW q \in RegionType, Within(r, m), Within(q, k), Apart(m, k)
    PROVE  Apart(r, q)
BY RegionFacts DEF Within, Apart

(* The two remnants of a mapping have the range taken out between them. *)
LEMMA SiblingsApart ==
    ASSUME Bounds, NEW m, Inside(m), NEW a \in Nat, NEW e \in Nat,
           NEW r, NEW q, PieceOf(r, m, a, e), PieceOf(q, m, a, e), r # q
    PROVE  Apart(r, q)
<1>1. m.addr \in Nat /\ End(m) \in Nat /\ m.addr < End(m)
    BY RegionFacts DEF Inside
<1>2. Hit(m, a, e) => /\ End(Region(m.addr, a)) = a
                      /\ Region(e, End(m)).addr = e
    BY <1>1 DEF Hit, Region, End
<1> QED BY <1>1, <1>2 DEF PieceOf, Hit, Apart

(* The mappings after an unmapping, with the slots rs, keep the space. *)
LEMMA UnmappedKeeps ==
    ASSUME NEW ms, NEW rs, NEW a \in Nat, NEW e \in Nat, Bounds,
           AllInside(ms \cup rs), AllApart(ms \cup rs), ms \cap rs = {}
    PROVE  /\ AllInside(Unmapped(ms, a, e) \cup rs)
           /\ AllApart(Unmapped(ms, a, e) \cup rs)
           /\ Unmapped(ms, a, e) \cap rs = {}
<1> DEFINE left == Unmapped(ms, a, e)
<1>1. \A r \in left : \E m \in ms : PieceOf(r, m, a, e)
    BY UnmappedPieces
<1> HIDE DEF left
<1>2. \A m \in ms : Inside(m) /\ m \in RegionType
    BY DEF AllInside, Inside
<1>3. \A r \in rs : Inside(r) /\ r \in RegionType /\ Within(r, r)
    BY RegionFacts DEF AllInside, Inside, Within
<1>4. \A r \in left : Inside(r) /\ r \in RegionType
    BY <1>1, <1>2, PieceFacts DEF Inside
<1>5. ASSUME NEW r \in left, NEW q \in left, r # q PROVE Apart(r, q)
    <2>1. PICK m \in ms : PieceOf(r, m, a, e)
        BY <1>1
    <2>2. PICK k \in ms : PieceOf(q, k, a, e)
        BY <1>1
    <2>3. CASE m # k
        <3>1. Within(r, m) /\ Within(q, k) /\ Apart(m, k)
            BY <1>2, <2>1, <2>2, <2>3, PieceFacts DEF AllApart
        <3> QED BY <1>2, <1>4, <3>1, WithinApart
    <2>4. CASE m = k
        BY <1>2, <1>5, <2>1, <2>2, <2>4, SiblingsApart
    <2> QED BY <2>3, <2>4
<1>6. ASSUME NEW r \in left, NEW q \in rs PROVE Apart(r, q) /\ Apart(q, r)
    <2>1. PICK m \in ms : PieceOf(r, m, a, e)
        BY <1>1
    <2>2. Within(r, m) /\ m # q
        BY <1>2, <2>1, PieceFacts
    <2>3. Apart(m, q) /\ Apart(q, m)
        BY <2>2 DEF AllApart
    <2> QED BY <1>2, <1>3, <1>4, <2>2, <2>3, WithinApart
<1>7. left \cap rs = {}
    BY <1>3, <1>6, RegionFacts DEF Apart
<1>8. AllInside(left \cup rs)
    BY <1>3, <1>4 DEF AllInside
<1>9. ASSUME NEW r \in left \cup rs, NEW q \in left \cup rs, r # q PROVE Apart(r, q)
    <2>1. CASE r \in rs /\ q \in rs
        BY <1>9, <2>1 DEF AllApart
    <2> QED BY <1>5, <1>6, <1>9, <2>1
<1> QED BY <1>7, <1>8, <1>9 DEF AllApart, left

-----------------------------------------------------------------------------
(* First fit. *)
LEMMA FloorFacts ==
    ASSUME Bounds
    PROVE  Floor \in Nat /\ Floor <= layout.max_addr /\ Floor >= brk
           /\ Floor >= layout.mmap_base
BY LayoutFacts DEF Floor, Larger, Bounds

(* The cursor is one address: the greatest of the floor and the ends of the  *)
(* regions behind it.                                                        *)
LEMMA OneCursor ==
    ASSUME Bounds, NEW rs, AllInside(rs)
    PROVE  \E c \in Nat :
              /\ CursorAfter(rs) = {c}
              /\ c >= Floor /\ \A r \in rs : End(r) <= c
              /\ c = Floor \/ \E r \in rs : c = End(r)
<1> DEFINE ends == {Floor} \cup {End(r) : r \in rs}
           T == {Space - c : c \in ends}
<1>1. \A r \in rs : End(r) \in Nat /\ End(r) <= Space
    BY RegionFacts, LayoutFacts, MemoryConstants DEF AllInside, Inside
<1>2. \A c \in ends : c \in Nat /\ c <= Space
    BY <1>1, FloorFacts, LayoutFacts, MemoryConstants
<1>3. T \in SUBSET Nat /\ T # {}
    BY <1>2, MemoryConstants
<1>4. PICK c \in ends : \A d \in ends : Space - c <= Space - d
    <2> HIDE DEF ends
    <2>1. \E x \in T : \A y \in T : x <= y
        <3> HIDE DEF T
        <3> QED BY <1>3, NatHasMin
    <2> QED BY <2>1
<1>5. \A d \in ends : d <= c
    <2> HIDE DEF ends
    <2> QED BY <1>2, <1>4, MemoryConstants
<1>6. c \in Nat /\ c >= Floor /\ (\A r \in rs : End(r) <= c)
    BY <1>2, <1>5
<1>7. \A d \in CursorAfter(rs) : d \in ends /\ d >= c
    BY <1>4 DEF CursorAfter
<1>8. CursorAfter(rs) = {c}
    <2>1. c \in CursorAfter(rs)
        BY <1>6 DEF CursorAfter
    <2>2. \A d \in CursorAfter(rs) : d = c
        <3> HIDE DEF ends
        <3> QED BY <1>2, <1>5, <1>7
    <2> QED BY <2>1, <2>2
<1> QED BY <1>4, <1>6, <1>8

Free(n) == {a \in Address : /\ a >= Floor /\ a + n <= layout.max_addr
                            /\ ~ Overlaps(Regions, a, n)}
Roomy(n) == {r \in Regions : RoomBefore(r, n) # {}}

(* Below a free range that has a region above it the scan has stopped.       *)
LEMMA FreeBelowIsRoomy ==
    ASSUME Bounds, AllInside(Regions), NEW n \in Nat \ {0}, NEW b \in Free(n),
           NEW q \in Regions, b + n <= q.addr
    PROVE  \E r \in Roomy(n) : r.addr <= q.addr
<1> DEFINE above == {r \in Regions : b + n <= r.addr}
           T == {r.addr : r \in above}
<1>1. b \in Nat /\ b >= Floor /\ b + n <= layout.max_addr
    BY MemoryConstants DEF Free, Address
<1>2. \A r \in Regions : r.addr \in Nat /\ End(r) \in Nat /\ r.addr < End(r)
    BY RegionFacts DEF AllInside, Inside
<1>3. \A r \in Regions : b >= End(r) \/ b + n <= r.addr
    BY <1>1, <1>2 DEF Free, Overlaps, Overlap
<1>4. T \in SUBSET Nat /\ T # {}
    BY <1>2
<1>5. PICK r \in above : \A k \in above : r.addr <= k.addr
    <2>1. \E x \in T : \A y \in T : x <= y
        <3> HIDE DEF T
        <3> QED BY <1>4, NatHasMin
    <2> QED BY <2>1
<1>6. \A k \in Passed(r) : End(k) <= b
    BY <1>2, <1>3, <1>5 DEF Passed
<1>7. PICK c \in Nat : /\ CursorAfter(Passed(r)) = {c}
                       /\ c = Floor \/ \E k \in Passed(r) : c = End(k)
    <2>1. AllInside(Passed(r))
        BY DEF AllInside, Passed
    <2> QED BY <2>1, OneCursor
<1>8. c <= b
    BY <1>1, <1>6, <1>7
<1>9. c \in RoomBefore(r, n)
    BY <1>1, <1>2, <1>5, <1>7, <1>8 DEF RoomBefore
<1> QED BY <1>2, <1>5, <1>9 DEF Roomy

LEMMA RoomBeforeIsFirst ==
    ASSUME Bounds, AllInside(Regions), NEW n \in Nat \ {0},
           NEW r \in Roomy(n), \A q \in Roomy(n) : r.addr <= q.addr,
           NEW c \in RoomBefore(r, n)
    PROVE  c \in Free(n) /\ \A b \in Free(n) : c <= b
<1>1. \A k \in Regions : k.addr \in Nat /\ End(k) \in Nat /\ k.addr < End(k)
                         /\ End(k) <= layout.max_addr
    BY RegionFacts DEF AllInside, Inside
<1>2. /\ c \in Nat /\ c >= Floor /\ \A k \in Passed(r) : End(k) <= c
      /\ c = Floor \/ \E k \in Passed(r) : c = End(k)
    <2>1. AllInside(Passed(r))
        BY DEF AllInside, Passed
    <2> QED BY <2>1, OneCursor DEF RoomBefore
<1>3. r \in Regions /\ c + n <= r.addr
    BY DEF RoomBefore, Roomy
<1>4. \A k \in Regions : ~ Overlap(k, c, n)
    BY <1>1, <1>2, <1>3 DEF Overlap, Passed
<1>5. c \in Free(n)
    <2>1. c + n <= layout.max_addr /\ layout.max_addr < Space
        BY <1>1, <1>2, <1>3, LayoutFacts
    <2>2. c \in Address
        BY <1>2, <2>1, LayoutFacts, MemoryConstants DEF Address
    <2> QED BY <1>2, <1>4, <2>1, <2>2 DEF Free, Overlaps
<1>6. ASSUME NEW b \in Free(n), b < c PROVE FALSE
    <2>1. b \in Nat /\ b >= Floor
        BY MemoryConstants DEF Free, Address
    <2>2. PICK k \in Passed(r) : c = End(k)
        BY <1>2, <1>6, <2>1, FloorFacts
    <2>3. k \in Regions /\ k.addr < r.addr
        BY DEF Passed
    <2>4. b + n <= k.addr
        BY <1>1, <1>6, <2>1, <2>2, <2>3 DEF Free, Overlaps, Overlap
    <2>5. PICK q \in Roomy(n) : q.addr <= k.addr
        BY <2>3, <2>4, FreeBelowIsRoomy
    <2> QED BY <1>1, <1>3, <2>3, <2>5 DEF Roomy
<1>7. \A b \in Free(n) : b \in Nat
    BY MemoryConstants DEF Free, Address
<1> QED BY <1>2, <1>5, <1>6, <1>7

LEMMA LastCursorIsFirst ==
    ASSUME Bounds, AllInside(Regions), NEW n \in Nat \ {0}, Roomy(n) = {},
           NEW c \in CursorAfter(Regions)
    PROVE  /\ c \in Nat
           /\ \A b \in Free(n) : c <= b
           /\ c + n <= layout.max_addr => c \in Free(n)
<1>1. \A k \in Regions : k.addr \in Nat /\ End(k) \in Nat /\ k.addr < End(k)
    BY RegionFacts DEF AllInside, Inside
<1>2. /\ c \in Nat /\ c >= Floor /\ \A k \in Regions : End(k) <= c
      /\ c = Floor \/ \E k \in Regions : c = End(k)
    BY OneCursor
<1>3. c + n <= layout.max_addr => c \in Free(n)
    <2>1. c + n <= layout.max_addr => c \in Address
        BY <1>2, LayoutFacts, MemoryConstants DEF Address
    <2> QED BY <1>1, <1>2, <2>1 DEF Free, Overlaps, Overlap
<1>4. ASSUME NEW b \in Free(n) PROVE c <= b
    <2>1. b \in Nat /\ b >= Floor
        BY MemoryConstants DEF Free, Address
    <2>2. \A k \in Regions : ~ (b + n <= k.addr)
        BY FreeBelowIsRoomy
    <2>3. \A k \in Regions : End(k) <= b
        BY <1>1, <2>1, <2>2 DEF Free, Overlaps, Overlap
    <2> QED BY <1>2, <2>1, <2>3
<1> QED BY <1>2, <1>3, <1>4

LEMMA FindGapIsFirstFit ==
    ASSUME Bounds, AllInside(Regions), NEW n \in Nat \ {0}
    PROVE  find_gap(n) = {a \in Free(n) : \A b \in Free(n) : a <= b}
<1> DEFINE least == {a \in Free(n) : \A b \in Free(n) : a <= b}
           first == {r \in Roomy(n) : \A q \in Roomy(n) : r.addr <= q.addr}
<1>1. \A b \in Free(n) : b \in Nat
    BY MemoryConstants DEF Free, Address
<1>2. find_gap(n) = IF Roomy(n) # {}
                    THEN UNION {RoomBefore(r, n) : r \in first}
                    ELSE {c \in CursorAfter(Regions) : c + n <= layout.max_addr}
    BY DEF find_gap, Roomy
<1>3. find_gap(n) \subseteq least
    <2> SUFFICES ASSUME NEW c \in find_gap(n) PROVE c \in least
        OBVIOUS
    <2>1. CASE Roomy(n) # {}
        BY <1>2, <2>1, RoomBeforeIsFirst
    <2>2. CASE Roomy(n) = {}
        BY <1>2, <2>2, LastCursorIsFirst
    <2> QED BY <2>1, <2>2
<1>4. ASSUME NEW a \in least PROVE a \in find_gap(n)
    <2>1. find_gap(n) # {}
        <3>1. CASE Roomy(n) # {}
            <4> DEFINE T == {r.addr : r \in Roomy(n)}
            <4>1. \A r \in Roomy(n) : r.addr \in Nat
                BY RegionFacts DEF AllInside, Inside, Roomy
            <4>2. T \in SUBSET Nat /\ T # {}
                BY <3>1, <4>1
            <4>3. \E x \in T : \A y \in T : x <= y
                <5> HIDE DEF T
                <5> QED BY <4>2, NatHasMin
            <4>4. PICK r \in Roomy(n) : \A q \in Roomy(n) : r.addr <= q.addr
                BY <4>3
            <4>5. RoomBefore(r, n) # {}
                BY DEF Roomy
            <4> QED BY <1>2, <3>1, <4>4, <4>5
        <3>2. CASE Roomy(n) = {}
            <4>1. PICK c \in Nat : CursorAfter(Regions) = {c}
                BY OneCursor
            <4>2. c <= a /\ a \in Nat /\ a + n <= layout.max_addr
                BY <1>1, <3>2, <4>1, LastCursorIsFirst DEF Free
            <4>3. c + n <= layout.max_addr
                BY <4>1, <4>2, LayoutFacts
            <4> QED BY <1>2, <3>2, <4>1, <4>3
        <3> QED BY <3>1, <3>2
    <2>2. PICK c \in find_gap(n) : c \in least
        BY <1>3, <2>1
    <2>3. c = a
        BY <1>1, <2>2
    <2> QED BY <2>3
<1> QED BY <1>3, <1>4

-----------------------------------------------------------------------------
(* The invariant, step by step.  SpaceApart is inductive as it stands; for   *)
(* NothingLeaks the regions must be known to be well-formed.                 *)
IInv == SpaceApart /\ NothingLeaks

Kept(ms, h) == \A m \in ms : Units(m.addr, End(m)) \subseteq h

LEMMA NothingLeaksKept == NothingLeaks <=> Kept(mappings, held)
BY DEF NothingLeaks, Mapped, Kept

(* A step that leaves the bounds and the break alone. *)
LEMMA StepKeeps ==
    ASSUME Bounds, UNCHANGED <<layout, brk>>, data_limit' \in Nat, held' \subseteq Address,
           AllInside(mappings' \cup reserved'), AllApart(mappings' \cup reserved'),
           mappings' \cap reserved' = {}, Kept(mappings', held')
    PROVE  IInv'
<1>1. Bounds'
    BY DEF Bounds
<1>2. AllInside(Regions)' /\ AllApart(Regions)'
    BY DEF AllInside, AllApart, Inside, Regions
<1>3. SpaceApart'
    BY <1>1, <1>2 DEF SpaceApart, TypeOK, RegionsApart, HeapApart, ControlApart,
       Bounds, AllInside, Inside, AllApart, Regions
<1>4. NothingLeaks'
    BY DEF NothingLeaks, Mapped, Kept
<1> QED BY <1>3, <1>4 DEF IInv

(* The facts every step starts from. *)
LEMMA Given ==
    ASSUME IInv
    PROVE  /\ Bounds /\ AllInside(Regions) /\ AllApart(Regions)
           /\ mappings \cap reserved = {} /\ Kept(mappings, held)
           /\ AllInside(mappings) /\ AllInside(reserved)
           /\ AllApart(mappings) /\ AllApart(reserved)
           /\ data_limit \in Nat /\ held \subseteq Address
<1>1. Bounds /\ AllInside(Regions) /\ AllApart(Regions) /\ mappings \cap reserved = {}
    BY SpaceApartParts DEF IInv
<1>2. Kept(mappings, held)
    BY NothingLeaksKept DEF IInv
<1> QED BY <1>1, <1>2 DEF Bounds, AllInside, AllApart, Regions

LEMMA RangeFits ==
    ASSUME IInv, NEW a \in Nat, NEW n \in Nat \ {0}, a + n <= layout.max_addr,
           a >= Floor, ~ Overlaps(Regions, a, n)
    PROVE  Fits(a, n)
<1>1. [addr |-> a, len |-> n] \in RegionType /\ End([addr |-> a, len |-> n]) = a + n
    BY Given, InsideRange
<1> QED BY <1>1, Given, FloorFacts, LayoutFacts DEF Fits, Inside

LEMMA GapFits ==
    ASSUME IInv, NEW n \in Nat \ {0}, NEW a \in find_gap(n)
    PROVE  Fits(a, n)
<1>1. a \in Free(n)
    BY Given, FindGapIsFirstFit
<1> QED BY <1>1, RangeFits, MemoryConstants DEF Free, Address

(* The heap, the prefix and the control pages refuse a placement. *)
LEMMA PlaceableInside ==
    ASSUME IInv, NEW rs, NEW a \in Nat, NEW n \in Nat \ {0}, Placeable(rs, a, n)
    PROVE  Inside([addr |-> a, len |-> n])
<1>1. a + n <= layout.max_addr
    BY DEF Placeable
<1>2. [addr |-> a, len |-> n] \in RegionType /\ End([addr |-> a, len |-> n]) = a + n
    BY <1>1, Given, InsideRange
<1>3. layout.reserved_until # 0 => a >= brk
    BY Given, LayoutFacts DEF Placeable, overlaps_reserved_prefix, overlaps_brk_heap, Bounds
<1>4. layout.brk_limit < layout.mmap_base =>
         a + n <= layout.brk_limit \/ a >= layout.mmap_base
    BY Given, LayoutFacts DEF Placeable, overlaps_host_control
<1> QED BY <1>1, <1>2, <1>3, <1>4 DEF Inside

LEMMA InsertMapping ==
    ASSUME IInv, NEW a, NEW n, Fits(a, n), mappings' = Insert(mappings, a, n),
           held' = held \cup Units(a, a + n), UNCHANGED <<layout, reserved, brk, data_limit>>
    PROVE  IInv'
<1> DEFINE new == [addr |-> a, len |-> n]
<1>1. a \in Nat /\ n \in Nat \ {0} /\ Inside(new) /\ ~ Overlaps(Regions, a, n)
    BY DEF Fits
<1>2. AllInside(Insert(Regions, a, n)) /\ AllApart(Insert(Regions, a, n))
    BY <1>1, Given, InsertKeeps
<1>3. mappings' \cup reserved' = Insert(Regions, a, n)
    BY DEF Insert, Regions
<1>4. new \notin Regions
    BY <1>1 DEF Overlaps, Overlap, End
<1>5. mappings' \cap reserved' = {}
    BY <1>4, Given DEF Insert, Regions
<1>6. Kept(mappings', held')
    BY <1>1, Given DEF Kept, Insert, End
<1>7. held' \subseteq Address
    BY Given DEF Units
<1> QED BY <1>2, <1>3, <1>5, <1>6, <1>7, Given, StepKeeps

LEMMA MmapKeeps ==
    ASSUME IInv, NEW hint \in Nat, NEW len \in Nat, Mmap(hint, len)
    PROVE  IInv'
<1> DEFINE n == RoundUp(len)
<1>1. n \in Nat \ {0} /\ RoundDown(hint) \in Nat
    BY Rounding DEF Mmap
<1>2. PICK a \in Placed(hint, n) : /\ mappings' = Insert(mappings, a, n)
                                   /\ held' = held \cup Units(a, a + n)
    BY DEF Mmap
<1>3. Fits(a, n)
    <2>1. CASE HintFree(hint, n)
        <3>1. a = RoundDown(hint) /\ a >= Floor /\ can_grow_at(a, n)
            BY <2>1 DEF Placed, HintFree
        <3>2. a + n <= layout.max_addr /\ ~ Overlaps(Regions, a, n)
            BY <3>1 DEF can_grow_at, Placeable, Overlaps, Regions
        <3> QED BY <1>1, <3>1, <3>2, RangeFits
    <2>2. CASE ~ HintFree(hint, n)
        <3> HIDE DEF n
        <3> QED BY <1>1, <2>2, GapFits DEF Placed
    <2> QED BY <2>1, <2>2
<1> QED BY <1>2, <1>3, InsertMapping DEF Mmap

LEMMA MmapFixedKeeps ==
    ASSUME IInv, NEW hint \in Nat, NEW len \in Nat, MmapFixed(hint, len)
    PROVE  IInv'
<1> DEFINE n == RoundUp(len)
           kept == Replaced(hint, n)
<1>1. n \in Nat \ {0}
    BY Rounding DEF MmapFixed
<1>2. /\ Placeable(reserved, hint, n)
      /\ mappings' = Insert(kept, hint, n)
      /\ held' = held \cup Units(hint, hint + n)
      /\ UNCHANGED <<layout, reserved, brk, data_limit>>
    BY DEF MmapFixed
<1>3. kept \subseteq mappings /\ ~ Overlaps(kept \cup reserved, hint, n)
    BY <1>2 DEF Replaced, Placeable, Overlaps
<1> HIDE DEF n, kept
<1>4. Inside([addr |-> hint, len |-> n])
    BY <1>1, <1>2, PlaceableInside
<1>5. AllInside(kept \cup reserved) /\ AllApart(kept \cup reserved)
    BY <1>3, Given, FewerKeeps DEF Regions
<1>6. /\ AllInside(Insert(kept \cup reserved, hint, n))
      /\ AllApart(Insert(kept \cup reserved, hint, n))
    BY <1>1, <1>3, <1>4, <1>5, InsertKeeps
<1>7. mappings' \cup reserved' = Insert(kept \cup reserved, hint, n)
    BY <1>2 DEF Insert
<1>8. [addr |-> hint, len |-> n] \notin reserved
    BY <1>1, <1>3 DEF Overlaps, Overlap, End
<1>9. mappings' \cap reserved' = {}
    BY <1>2, <1>3, <1>8, Given DEF Insert
<1>10. Kept(mappings', held')
    BY <1>1, <1>2, <1>3, Given DEF Kept, Insert, End
<1>11. held' \subseteq Address
    BY <1>2, Given DEF Units
<1> QED BY <1>2, <1>6, <1>7, <1>9, <1>10, <1>11, Given, StepKeeps

(* Taking out a range, and forgetting no more than it. *)
LEMMA UnmappedKept ==
    ASSUME Bounds, NEW ms, AllInside(ms), NEW h, Kept(ms, h),
           NEW a \in Nat, NEW e \in Nat, NEW gone \in SUBSET Units(a, e)
    PROVE  Kept(Unmapped(ms, a, e), h \ gone)
<1> SUFFICES ASSUME NEW r \in Unmapped(ms, a, e), NEW u \in Address,
                    r.addr <= u, u < End(r)
             PROVE  u \in h /\ u \notin gone
    BY DEF Kept, Units
<1>1. PICK m \in ms : PieceOf(r, m, a, e)
    BY UnmappedPieces
<1>2. Inside(m)
    BY DEF AllInside
<1>3. Inside(r) /\ Within(r, m) /\ (a < e => End(r) <= a \/ e <= r.addr)
    BY <1>1, <1>2, PieceFacts
<1>4. /\ m.addr \in Nat /\ End(m) \in Nat /\ r.addr \in Nat /\ End(r) \in Nat
      /\ u \in Nat
    BY <1>2, <1>3, RegionFacts, MemoryConstants DEF Inside, Address
<1>5. u \in h
    BY <1>3, <1>4 DEF Kept, Units, Within
<1>6. u \notin Units(a, e)
    BY <1>3, <1>4 DEF Units
<1> QED BY <1>5, <1>6

LEMMA UnmapStep ==
    ASSUME IInv, NEW a \in Nat, NEW e \in Nat, NEW gone \in SUBSET Units(a, e),
           mappings' = Unmapped(mappings, a, e), held' = held \ gone,
           UNCHANGED <<layout, reserved, brk, data_limit>>
    PROVE  IInv'
<1>1. /\ AllInside(mappings' \cup reserved') /\ AllApart(mappings' \cup reserved')
      /\ mappings' \cap reserved' = {}
    BY Given, UnmappedKeeps DEF Regions
<1>2. Kept(mappings', held')
    BY Given, UnmappedKept
<1> QED BY <1>1, <1>2, Given, StepKeeps

LEMMA MunmapKeeps ==
    ASSUME IInv, NEW a \in Nat, NEW len \in Nat, Munmap(a, len)
    PROVE  IInv'
<1>1. a + RoundUp(len) \in Nat
    BY Rounding
<1> QED BY <1>1, UnmapStep DEF Munmap

LEMMA SaturatedNat ==
    ASSUME NEW n \in Nat
    PROVE  Saturated(n) \in Nat /\ Saturated(n) <= n /\ Saturated(n) < Space
BY MemoryConstants DEF Saturated

LEMMA MremapShrinkKeeps ==
    ASSUME IInv, NEW a \in Nat, NEW old \in Nat, NEW new \in Nat,
           MremapShrink(a, old, new)
    PROVE  IInv'
<1> DEFINE at == a + WrapUp(new)
           from == at % Space
           to == Saturated(from + (WrapUp(old) - WrapUp(new)))
<1>1. /\ WrapUp(new) \in Nat /\ WrapUp(old) \in Nat /\ RoundUp(new) \in Nat
      /\ WrapUp(new) <= RoundUp(new) /\ WrapUp(old) - WrapUp(new) \in Nat
    BY Rounding DEF MremapShrink
<1>2. at \in Nat /\ at <= a + RoundUp(new)
    BY <1>1
<1>3. from \in Nat /\ from <= a + RoundUp(new)
    <2>1. \A x \in Nat : x % Space \in Nat /\ x % Space <= x
        BY ModSpace
    <2> HIDE DEF at
    <2> QED BY <1>1, <1>2, <2>1
<1>4. to \in Nat
    <2> HIDE DEF from
    <2> QED BY <1>1, <1>3, SaturatedNat
<1>5. Units(a + RoundUp(new), to) \subseteq Units(from, to)
    <2> HIDE DEF from, to
    <2> QED BY <1>1, <1>3, <1>4, MemoryConstants DEF Units, Address
<1>6. /\ mappings' = Unmapped(mappings, from, to)
      /\ held' = held \ Units(a + RoundUp(new), to)
      /\ UNCHANGED <<layout, reserved, brk, data_limit>>
    BY DEF MremapShrink
<1> HIDE DEF from, to
<1> QED BY <1>3, <1>4, <1>5, <1>6, UnmapStep

LEMMA MremapMoveKeeps ==
    ASSUME IInv, NEW a \in Nat, NEW old \in Nat, NEW new \in Nat,
           MremapMove(a, old, new)
    PROVE  IInv'
<1> DEFINE n == WrapUp(new)
           to == Saturated(a + WrapUp(old))
<1>1. n \in Nat \ {0} /\ to \in Nat
    BY Rounding, SaturatedNat DEF MremapMove
<1>2. PICK b \in find_gap(n) :
         /\ mappings' = Unmapped(Insert(mappings, b, n), a, to)
         /\ held' = (held \cup Units(b, b + n)) \ Units(a, to)
         /\ UNCHANGED <<layout, reserved, brk, data_limit>>
    BY DEF MremapMove
<1> HIDE DEF n, to
<1>3. Fits(b, n)
    BY <1>1, GapFits
<1> DEFINE ms == Insert(mappings, b, n)
<1>4. ms \cup reserved = Insert(Regions, b, n)
    BY DEF Insert, Regions
<1>5. AllInside(ms \cup reserved) /\ AllApart(ms \cup reserved)
    <2>1. AllInside(Insert(Regions, b, n)) /\ AllApart(Insert(Regions, b, n))
        BY <1>3, Given, InsertKeeps DEF Fits
    <2> QED BY <1>4, <2>1
<1>6. ms \cap reserved = {}
    <2>1. [addr |-> b, len |-> n] \notin Regions
        BY <1>3 DEF Fits, Overlaps, Overlap, End
    <2> QED BY <2>1, Given DEF Insert, Regions
<1>7. Kept(ms, held \cup Units(b, b + n))
    BY <1>3, Given DEF Kept, Insert, End, Fits
<1> HIDE DEF ms
<1>8. /\ AllInside(mappings' \cup reserved') /\ AllApart(mappings' \cup reserved')
      /\ mappings' \cap reserved' = {}
    BY <1>1, <1>2, <1>5, <1>6, Given, UnmappedKeeps DEF ms
<1>9. Kept(mappings', held')
    <2>1. AllInside(ms)
        BY <1>5 DEF AllInside
    <2> QED BY <1>1, <1>2, <1>7, <2>1, Given, UnmappedKept DEF ms
<1>10. held' \subseteq Address
    BY <1>2, Given DEF Units
<1> QED BY <1>2, <1>8, <1>9, <1>10, Given, StepKeeps

LEMMA MremapGrowKeeps ==
    ASSUME IInv, NEW a \in Nat, NEW old \in Nat, NEW new \in Nat,
           MremapGrow(a, old, new)
    PROVE  IInv'
<1> DEFINE o == WrapUp(old)
           n == WrapUp(new)
           m == [addr |-> a, len |-> o]
           big == [addr |-> a, len |-> n]
           rest == Regions \ {m}
<1>1. o \in Nat /\ n \in Nat \ {0} /\ n > o
    BY Rounding DEF MremapGrow
<1>2. /\ m \in mappings
      /\ can_grow_at((a + o) % Space, n - o)
      /\ mappings' = Insert(mappings \ {m}, a, n)
      /\ held' = held \cup Units(a, a + n)
      /\ UNCHANGED <<layout, reserved, brk, data_limit>>
    BY DEF MremapGrow
<1> HIDE DEF o, n
<1>3. Inside(m) /\ End(m) = a + o /\ o # 0 /\ a + o < Space
    <2>1. Inside(m)
        BY <1>2, Given DEF AllInside
    <2>2. m.addr = a /\ m.len = o /\ End(m) = a + o
        BY DEF End
    <2> HIDE DEF m
    <2>3. m \in RegionType /\ End(m) <= layout.max_addr
        BY <2>1 DEF Inside
    <2>4. o # 0
        BY <2>2, <2>3, RegionFacts
    <2>5. a + o < Space
        BY <1>1, <2>2, <2>3, Given, LayoutFacts, MemoryConstants
    <2> QED BY <2>1, <2>2, <2>4, <2>5
<1>4. (a + o) % Space = a + o
    <2> DEFINE x == a + o
    <2>1. x \in Nat /\ x < Space
        BY <1>1, <1>3
    <2> HIDE DEF x
    <2>2. x % Space = x
        BY <2>1, ModSpace
    <2> QED BY <2>2 DEF x
<1>5. Placeable(reserved, a + o, n - o) /\ ~ Overlaps(Regions, a + o, n - o)
    BY <1>2, <1>4 DEF can_grow_at, Placeable, Overlaps, Regions
<1>6. a + n <= layout.max_addr
    BY <1>1, <1>5 DEF Placeable
<1>7. big \in RegionType /\ End(big) = a + n
    BY <1>1, <1>6, Given, InsideRange
<1>8. layout.brk_limit < layout.mmap_base =>
         a + n <= layout.brk_limit \/ a >= layout.mmap_base
    BY <1>1, <1>3, <1>5, Given, LayoutFacts
       DEF Placeable, overlaps_host_control, Inside
<1>9. Inside(big)
    BY <1>3, <1>6, <1>7, <1>8 DEF Inside
<1>10. ASSUME NEW r \in rest PROVE ~ Overlap(r, a, n)
    <2>1. r \in RegionType /\ Apart(r, m) /\ r \in Regions
        BY <1>2, Given DEF AllInside, AllApart, Inside, Regions
    <2>2. a + o >= End(r) \/ a + n <= r.addr
        BY <1>1, <1>5, <2>1, RegionFacts DEF Overlaps, Overlap
    <2>3. End(r) <= a \/ a + o <= r.addr
        BY <1>3, <2>1 DEF Apart
    <2> QED BY <1>1, <1>3, <2>1, <2>2, <2>3, RegionFacts DEF Overlap
<1>11. AllInside(Insert(rest, a, n)) /\ AllApart(Insert(rest, a, n))
    BY <1>1, <1>9, <1>10, Given, FewerKeeps, InsertKeeps DEF Overlaps
<1>12. m \notin reserved
    BY <1>2, Given
<1>13. mappings' \cup reserved' = Insert(rest, a, n)
    BY <1>2, <1>12 DEF Insert, Regions
<1>14. big \notin reserved
    <2>1. big \notin rest
        BY <1>1, <1>7, <1>10 DEF Overlap
    <2> QED BY <1>12, <2>1 DEF Regions
<1>15. mappings' \cap reserved' = {}
    BY <1>2, <1>14, Given DEF Insert
<1>16. Kept(mappings', held')
    BY <1>2, <1>7, Given DEF Kept, Insert
<1>17. held' \subseteq Address
    BY <1>2, Given DEF Units
<1> QED BY <1>2, <1>11, <1>13, <1>15, <1>16, <1>17, Given, StepKeeps

LEMMA BrkKeeps ==
    ASSUME IInv, NEW new \in Nat, Brk(new)
    PROVE  IInv'
<1>1. /\ new >= layout.initial_brk /\ new <= layout.max_addr /\ new <= layout.brk_limit
      /\ new > brk => ~ Overlaps(Regions, brk, new - brk)
      /\ brk' = new /\ UNCHANGED <<layout, mappings, reserved, data_limit, held>>
    BY DEF Brk, Regions
<1>2. /\ layout \in Layouts /\ layout.max_addr < Space /\ layout.max_addr \in Nat
      /\ layout.brk_limit \in Nat /\ layout.mmap_base \in Nat /\ brk \in Nat
      /\ brk <= layout.max_addr
    BY Given, LayoutFacts DEF Bounds
<1>3. Bounds'
    BY <1>1, <1>2, Given, MemoryConstants DEF Bounds, Address
<1>4. ASSUME NEW r \in Regions, layout.reserved_until # 0 PROVE r.addr >= new
    <2>1. r \in RegionType /\ r.addr >= brk
        BY <1>4, Given DEF AllInside, Inside
    <2>2. r.addr \in Nat /\ End(r) \in Nat /\ r.addr < End(r)
        BY <2>1, RegionFacts
    <2>3. new > brk => brk >= End(r) \/ new <= r.addr
        BY <1>1, <1>2, <2>2 DEF Overlaps, Overlap
    <2> QED BY <1>2, <2>1, <2>2, <2>3
<1>5. AllInside(Regions)'
    BY <1>1, <1>4, Given DEF AllInside, Inside, Regions
<1>6. SpaceApart'
    BY <1>1, <1>3, <1>5, Given DEF SpaceApart, TypeOK, RegionsApart, HeapApart,
       ControlApart, Bounds, AllInside, Inside, AllApart, Regions
<1>7. NothingLeaks'
    BY <1>1 DEF IInv, NothingLeaks, Mapped
<1> QED BY <1>6, <1>7 DEF IInv

LEMMA ReserveKeeps ==
    ASSUME IInv, ReserveHostRegion
    PROVE  IInv'
<1>1. SlotLen \in Nat \ {0}
    BY MemoryConstants
<1>2. PICK a \in find_gap(SlotLen) : reserved' = Insert(reserved, a, SlotLen)
    BY DEF ReserveHostRegion
<1>3. UNCHANGED <<layout, mappings, brk, data_limit, held>>
    BY DEF ReserveHostRegion
<1>4. Fits(a, SlotLen)
    BY <1>1, GapFits
<1>5. /\ AllInside(Insert(Regions, a, SlotLen))
      /\ AllApart(Insert(Regions, a, SlotLen))
    BY <1>4, Given, InsertKeeps DEF Fits
<1>6. mappings' \cup reserved' = Insert(Regions, a, SlotLen)
    BY <1>2, <1>3 DEF Insert, Regions
<1>7. [addr |-> a, len |-> SlotLen] \notin Regions
    BY <1>1, <1>4 DEF Fits, Overlaps, Overlap, End
<1>8. mappings' \cap reserved' = {}
    BY <1>2, <1>3, <1>7, Given DEF Insert, Regions
<1> QED BY <1>3, <1>5, <1>6, <1>8, Given, StepKeeps

LEMMA ForkKeeps ==
    ASSUME IInv, Fork
    PROVE  IInv'
<1>1. /\ reserved' \subseteq reserved /\ data_limit' = Unlimited
      /\ UNCHANGED <<layout, mappings, brk, held>>
    BY DEF Fork
<1>2. mappings' \cup reserved' \subseteq Regions
    BY <1>1 DEF Regions
<1>3. AllInside(mappings' \cup reserved') /\ AllApart(mappings' \cup reserved')
    BY <1>2, Given, FewerKeeps
<1>4. mappings' \cap reserved' = {} /\ data_limit' \in Nat
    BY <1>1, Given, MemoryConstants DEF Unlimited
<1> QED BY <1>1, <1>3, <1>4, Given, StepKeeps

(* A fresh memory manager, in a new process and after exec. *)
LEMMA InitEstablishes == Init => IInv
<1> SUFFICES ASSUME Init PROVE IInv
    OBVIOUS
<1>1. Bounds
    BY MemoryConstants DEF Init, Bounds, Layout, Address, Unlimited
<1>2. Regions = {}
    BY DEF Init, Regions
<1>3. SpaceApart
    BY <1>1, <1>2, SpaceApartParts DEF Init, AllInside, AllApart
<1>4. NothingLeaks
    BY DEF Init, NothingLeaks, Mapped
<1> QED BY <1>3, <1>4 DEF IInv

LEMMA ExecKeeps ==
    ASSUME Exec
    PROVE  IInv'
<1>1. Bounds'
    BY MemoryConstants DEF Exec, Bounds, Layout, Address, Unlimited
<1>2. Regions' = {}
    BY DEF Exec, Regions
<1>3. SpaceApart'
    BY <1>1, <1>2 DEF Exec, SpaceApart, TypeOK, RegionsApart, HeapApart,
       ControlApart, Bounds, Regions
<1>4. NothingLeaks'
    BY DEF Exec, NothingLeaks, Mapped
<1> QED BY <1>3, <1>4 DEF IInv

LEMMA NextKeeps == IInv /\ [Next]_vars => IInv'
<1> SUFFICES ASSUME IInv, [Next]_vars PROVE IInv'
    OBVIOUS
<1>1. Hints \subseteq Nat /\ Lens \subseteq Nat /\ Limits \subseteq Nat
    BY MemoryConstants
<1>2. CASE \E h \in Hints, n \in Lens : Mmap(h, n)
    BY <1>1, <1>2, MmapKeeps
<1>3. CASE \E h \in Hints, n \in Lens : MmapFixed(h, n)
    BY <1>1, <1>3, MmapFixedKeeps
<1>4. CASE \E h \in Hints, n \in Lens : Munmap(h, n)
    BY <1>1, <1>4, MunmapKeeps
<1>5. CASE \E h \in Hints, n, o \in Lens : MremapShrink(h, o, n)
    BY <1>1, <1>5, MremapShrinkKeeps
<1>6. CASE \E h \in Hints, n, o \in Lens : MremapGrow(h, o, n)
    BY <1>1, <1>6, MremapGrowKeeps
<1>7. CASE \E h \in Hints, n, o \in Lens : MremapMove(h, o, n)
    BY <1>1, <1>7, MremapMoveKeeps
<1>8. CASE \E b \in Hints : Brk(b)
    BY <1>1, <1>8, BrkKeeps
<1>9. CASE \E l \in Limits : SetDataLimit(l)
    <2>1. data_limit' \in Nat /\ UNCHANGED <<layout, mappings, reserved, brk, held>>
        BY <1>1, <1>9 DEF SetDataLimit
    <2> QED BY <2>1, Given, StepKeeps DEF Regions
<1>10. CASE ReserveHostRegion
    BY <1>10, ReserveKeeps
<1>11. CASE Fork
    BY <1>11, ForkKeeps
<1>12. CASE Exec
    BY <1>12, ExecKeeps
<1>13. CASE UNCHANGED vars
    BY <1>13, Given, StepKeeps DEF vars, Regions
<1> QED BY <1>2, <1>3, <1>4, <1>5, <1>6, <1>7, <1>8, <1>9, <1>10, <1>11,
           <1>12, <1>13 DEF Next

LEMMA FirstFitFromSpace == IInv => FirstFit
<1> SUFFICES ASSUME IInv, NEW l \in Lens, l # 0
             PROVE  LET n == RoundUp(l) IN
                    find_gap(n) = {a \in Free(n) : \A b \in Free(n) : a <= b}
    BY DEF FirstFit, Free
<1>1. RoundUp(l) \in Nat \ {0}
    BY Rounding, MemoryConstants
<1> QED BY <1>1, Given, FindGapIsFirstFit

(* However mmap, MAP_FIXED, munmap, mremap, brk, thread creation, fork and   *)
(* exec follow each other, mappings, control slots, heap and control pages   *)
(* never overlap and stay below max_addr (MemoryManager).                    *)
THEOREM SpaceStaysApart == Spec => []SpaceApart
<1>1. IInv /\ [Next]_vars => IInv'
    BY NextKeeps
<1>2. IInv => SpaceApart
    BY DEF IInv
<1> QED BY <1>1, <1>2, InitEstablishes, PTL DEF Spec

(* find_gap's scan over mappings and slots returns the lowest free range at  *)
(* or above the floor in every reachable address space, and finds one        *)
(* whenever one exists.                                                      *)
THEOREM ScanIsFirstFit == Spec => []FirstFit
<1>1. IInv /\ [Next]_vars => IInv'
    BY NextKeeps
<1> QED BY <1>1, InitEstablishes, FirstFitFromSpace, PTL DEF Spec

(* What munmap and mremap took out of the address space is in no mapping any *)
(* more, also where the range was the middle of one (MemoryManager::munmap). *)
THEOREM NothingEverLeaks == Spec => []NothingLeaks
<1>1. IInv /\ [Next]_vars => IInv'
    BY NextKeeps
<1>2. IInv => NothingLeaks
    BY DEF IInv
<1> QED BY <1>1, <1>2, InitEstablishes, PTL DEF Spec
=============================================================================
