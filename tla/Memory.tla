------------------------------- MODULE Memory -------------------------------
(***************************************************************************)
(* The address space of one process as the kernel keeps it                  *)
(* (crates/kernel/src/memory.rs, and sys_mmap, sys_munmap, sys_mremap and   *)
(* sys_brk of syscalls.rs): the program's mappings, the control slots the   *)
(* host reserves for threads, and the heap below the program break.  After  *)
(* a fork the module follows the child, after an exec the new image.        *)
(*                                                                          *)
(* Addresses are counted in units, Page of them to a Wasm page, so that a   *)
(* break inside a page is a state of the model; an address is less than     *)
(* Space, the range of a usize, and sums overflow where the code's do.      *)
(* Protection, mapping flags other than MAP_FIXED, and contents are left    *)
(* out: the code records the first two and never looks at them.             *)
(***************************************************************************)
EXTENDS Integers, FiniteSets

CONSTANTS
    Page,           \* units to a page (64 KiB)
    Space,          \* addresses a usize can hold
    Layouts,        \* layouts the host gives a process (registerProcess)
    SlotLen,        \* length of a thread's control slot
    Hints,          \* addresses the program passes
    Lens,           \* lengths the program passes
    Limits,         \* soft RLIMIT_DATA limits the program sets
    MaxRegions      \* bound on mappings and slots together

Address == 0 .. Space - 1

Layout ==
    [initial_brk : Address, max_addr : Address, brk_limit : Address,
     mmap_base : Address, reserved_until : Address]

ASSUME MemoryConstants ==
    /\ Page \in Nat \ {0} /\ Space \in Nat \ {0} /\ SlotLen \in Nat \ {0}
    /\ Hints \subseteq Nat /\ Lens \subseteq Nat /\ Limits \subseteq Nat
    /\ MaxRegions \in Nat
    /\ Layouts \subseteq Layout
    /\ \A l \in Layouts :
          /\ l.reserved_until \in {0, l.initial_brk}
          /\ l.initial_brk <= l.mmap_base
          /\ l.initial_brk <= l.brk_limit
          /\ l.mmap_base <= l.max_addr

VARIABLES
    layout,         \* the bounds (MemoryLayoutMetadata)
    mappings,       \* the program's mappings
    reserved,       \* reserved_regions: control slots of threads
    brk,            \* program_break
    data_limit,     \* RLIMIT_DATA as the memory manager knows it
    held            \* history: units the program was given and has kept

vars == <<layout, mappings, reserved, brk, data_limit, held>>

Region(from, to) == [addr |-> from, len |-> to - from]
End(r) == r.addr + r.len
Units(a, e) == {u \in Address : a <= u /\ u < e}
Overlap(r, a, n) == a < End(r) /\ a + n > r.addr
Overlaps(rs, a, n) == \E r \in rs : Overlap(r, a, n)
Unlimited == Space
Regions == mappings \cup reserved
Larger(a, b) == IF a >= b THEN a ELSE b

(* checked_add, saturating_add and the bare + of a release build *)
RoundDown(n) == n - (n % Page)
Rounds(n) == n + Page - 1 < Space
RoundUp(n) == RoundDown(n + Page - 1)
WrapUp(n) == RoundDown((n + Page - 1) % Space)
Saturated(n) == IF n < Space THEN n ELSE Space - 1

-----------------------------------------------------------------------------
(* What a range may not touch.                                              *)

overlaps_host_control(a, n) ==
    /\ layout.brk_limit < layout.mmap_base
    /\ a < layout.mmap_base /\ a + n > layout.brk_limit

overlaps_reserved_prefix(a, n) ==
    /\ layout.reserved_until # 0
    /\ a < layout.reserved_until /\ n > 0

overlaps_brk_heap(a, n) ==
    /\ brk > layout.initial_brk
    /\ a < brk /\ a + n > layout.initial_brk

\* A range that neither the host, with its slots rs, nor, in a compact layout,
\* the heap occupies.
Placeable(rs, a, n) ==
    /\ a + n <= layout.max_addr
    /\ ~ overlaps_reserved_prefix(a, n)
    /\ ~ Overlaps(rs, a, n)
    /\ ~ overlaps_host_control(a, n)
    /\ ~ (layout.reserved_until # 0 /\ overlaps_brk_heap(a, n))

can_grow_at(a, n) == Placeable(reserved, a, n) /\ ~ Overlaps(mappings, a, n)

-----------------------------------------------------------------------------
(* find_gap.  The scan visits the regions by address and keeps a cursor: the *)
(* greatest of the floor and the ends of the regions behind it.  It stops at *)
(* the first region that leaves room between the cursor and itself, and      *)
(* otherwise tries the room below max_addr.  The result is a set of at most  *)
(* one address.                                                              *)

\* Mutant: the break is forgotten once mmap has its own base.
FloorAtBase == layout.mmap_base

Floor == Larger(layout.mmap_base, brk)
\* Mutant: the scan overlooks the host's slots behind the cursor.
PassedMappings(r) == {q \in mappings : q.addr < r.addr}

Passed(r) == {q \in Regions : q.addr < r.addr}

CursorAfter(rs) ==
    {c \in {Floor} \cup {End(r) : r \in rs} : c >= Floor /\ \A r \in rs : End(r) <= c}
RoomBefore(r, n) == {c \in CursorAfter(Passed(r)) : c + n <= r.addr}

find_gap(n) ==
    LET roomy == {r \in Regions : RoomBefore(r, n) # {}}
        first == {r \in roomy : \A q \in roomy : r.addr <= q.addr}
    IN IF roomy # {}
       THEN UNION {RoomBefore(r, n) : r \in first}
       ELSE {c \in CursorAfter(Regions) : c + n <= layout.max_addr}

-----------------------------------------------------------------------------
Init ==
    /\ layout \in Layouts
    /\ mappings = {} /\ reserved = {}
    /\ brk = layout.initial_brk
    /\ data_limit = Unlimited
    /\ held = {}

\* Mutant: the middle of a mapping is not split out.
UnmappedAtEnds(ms, a, e) ==
    LET hit == {m \in ms : a < e /\ m.addr < e /\ End(m) > a}
        inside == {m \in hit : m.addr < a /\ End(m) > e}
    IN (ms \ hit) \cup inside
       \cup {Region(m.addr, a) : m \in {m \in hit \ inside : m.addr < a}}
       \cup {Region(e, End(m)) : m \in {m \in hit \ inside : End(m) > e}}

\* What is left of the mappings ms when [a, e) is taken out of them.
Unmapped(ms, a, e) ==
    LET hit == {m \in ms : a < e /\ m.addr < e /\ End(m) > a}
    IN (ms \ hit)
       \cup {Region(m.addr, a) : m \in {m \in hit : m.addr < a}}
       \cup {Region(e, End(m)) : m \in {m \in hit : End(m) > e}}

Insert(ms, a, n) == ms \cup {[addr |-> a, len |-> n]}

\* MAP_FIXED: every mapping the range touches goes, whole.
Replaced(a, n) == {m \in mappings : ~ Overlap(m, a, n)}

RoomForOne == Cardinality(Regions) < MaxRegions

\* Where a mapping of n units with a hint that is only a hint is placed.
HintFree(hint, n) == RoundDown(hint) >= Floor /\ can_grow_at(RoundDown(hint), n)
Placed(hint, n) == IF HintFree(hint, n) THEN {RoundDown(hint)} ELSE find_gap(n)

MmapFixed(hint, len) ==
    /\ hint # 0 /\ len # 0 /\ Rounds(len) /\ RoomForOne
    /\ LET n == RoundUp(len) IN
       /\ Placeable(reserved, hint, n)
       /\ mappings' = Insert(Replaced(hint, n), hint, n)
       /\ held' = held \cup Units(hint, hint + n)
    /\ UNCHANGED <<layout, reserved, brk, data_limit>>

Mmap(hint, len) ==
    /\ len # 0 /\ Rounds(len) /\ RoomForOne
    /\ LET n == RoundUp(len) IN
       \E a \in Placed(hint, n) :
          /\ mappings' = Insert(mappings, a, n)
          /\ held' = held \cup Units(a, a + n)
    /\ UNCHANGED <<layout, reserved, brk, data_limit>>

\* sys_munmap: a range that touches a thread's slot is refused.
Munmap(a, len) ==
    /\ len # 0 /\ a % Page = 0 /\ Rounds(len) /\ a + RoundUp(len) < Space
    /\ ~ Overlaps(reserved, a, RoundUp(len))
    /\ Cardinality(reserved \cup Unmapped(mappings, a, a + RoundUp(len))) <= MaxRegions
    /\ mappings' = Unmapped(mappings, a, a + RoundUp(len))
    /\ held' = held \ Units(a, a + RoundUp(len))
    /\ UNCHANGED <<layout, reserved, brk, data_limit>>

MremapShrink(a, old, new) ==
    /\ old # 0 /\ new # 0 /\ WrapUp(new) < WrapUp(old)
    /\ LET from == (a + WrapUp(new)) % Space
           to == Saturated(from + (WrapUp(old) - WrapUp(new))) IN
       /\ Cardinality(reserved \cup Unmapped(mappings, from, to)) <= MaxRegions
       /\ mappings' = Unmapped(mappings, from, to)
       /\ held' = held \ Units(a + RoundUp(new), to)
    /\ UNCHANGED <<layout, reserved, brk, data_limit>>

\* Growing in place also needs a mapping of exactly the old range.
MremapGrow(a, old, new) ==
    /\ old # 0 /\ new # 0 /\ WrapUp(new) > WrapUp(old)
    /\ can_grow_at((a + WrapUp(old)) % Space, WrapUp(new) - WrapUp(old))
    /\ LET m == [addr |-> a, len |-> WrapUp(old)] IN
       /\ m \in mappings
       /\ mappings' = Insert(mappings \ {m}, a, WrapUp(new))
       /\ held' = held \cup Units(a, a + WrapUp(new))
    /\ UNCHANGED <<layout, reserved, brk, data_limit>>

\* MREMAP_MAYMOVE: a new mapping, then the old range is unmapped, out of the
\* new mapping too where the old range was not mapped and the new one took it.
MremapMove(a, old, new) ==
    /\ old # 0 /\ new # 0 /\ WrapUp(new) > WrapUp(old) /\ RoomForOne
    /\ ~ can_grow_at((a + WrapUp(old)) % Space, WrapUp(new) - WrapUp(old))
    /\ Rounds(WrapUp(new))
    /\ \E b \in find_gap(WrapUp(new)) :
       LET to == Saturated(a + WrapUp(old)) IN
          /\ mappings' = Unmapped(Insert(mappings, b, WrapUp(new)), a, to)
          /\ held' = (held \cup Units(b, b + WrapUp(new))) \ Units(a, to)
    /\ UNCHANGED <<layout, reserved, brk, data_limit>>

\* sys_brk: the break moves, or the call returns it unchanged.
Brk(new) ==
    /\ new # 0 /\ new # brk
    /\ new >= layout.initial_brk
    /\ new <= layout.max_addr /\ new <= layout.brk_limit
    /\ new > brk => ~ Overlaps(mappings \cup reserved, brk, new - brk)
    /\ new > layout.initial_brk => new - layout.initial_brk <= data_limit
    /\ brk' = new
    /\ UNCHANGED <<layout, mappings, reserved, data_limit, held>>

\* setrlimit(RLIMIT_DATA)
SetDataLimit(soft) ==
    /\ data_limit' = soft
    /\ UNCHANGED <<layout, mappings, reserved, brk, held>>

\* kernel_reserve_host_region: a control slot for a new thread.
ReserveHostRegion ==
    /\ RoomForOne
    /\ \E a \in find_gap(SlotLen) : reserved' = Insert(reserved, a, SlotLen)
    /\ UNCHANGED <<layout, mappings, brk, data_limit, held>>

\* reserve_host_region_at, in the child of a thread that forked.
reserve_host_region_at(r) ==
    /\ r.addr % Page = 0
    /\ Placeable({}, r.addr, r.len)
    /\ ~ Overlaps(mappings, r.addr, r.len)

\* The child of fork: bounds, break and mappings are copied; the slots are
\* not, except the one of the thread that called fork.  RLIMIT_DATA reaches
\* the child's rlimits but not its memory manager.
Fork ==
    /\ \/ reserved' = {}
       \/ \E r \in reserved : reserve_host_region_at(r) /\ reserved' = {r}
    /\ data_limit' = Unlimited
    /\ UNCHANGED <<layout, mappings, brk, held>>

\* exec: a new memory manager, laid out for the new image.
Exec ==
    /\ layout' \in Layouts
    /\ mappings' = {} /\ reserved' = {}
    /\ brk' = layout'.initial_brk
    /\ data_limit' = Unlimited
    /\ held' = {}

Next ==
    \/ \E h \in Hints, n \in Lens :
          \/ Mmap(h, n) \/ MmapFixed(h, n) \/ Munmap(h, n)
          \/ \E o \in Lens :
                MremapShrink(h, o, n) \/ MremapGrow(h, o, n) \/ MremapMove(h, o, n)
    \/ \E b \in Hints : Brk(b)
    \/ \E l \in Limits : SetDataLimit(l)
    \/ ReserveHostRegion \/ Fork \/ Exec

Spec == Init /\ [][Next]_vars

-----------------------------------------------------------------------------
RegionType == [addr : Address, len : 1 .. Space]

(* Every variable has its type; regions are not empty and end below the      *)
(* bound of the address space, and the break lies between its base and the   *)
(* bound (MemoryManager's fields).                                           *)
TypeOK ==
    /\ layout \in Layouts
    /\ mappings \subseteq RegionType /\ reserved \subseteq RegionType
    /\ \A r \in Regions : End(r) <= layout.max_addr
    /\ brk \in Address
    /\ layout.initial_brk <= brk /\ brk <= layout.max_addr
    /\ data_limit \in Nat
    /\ held \subseteq Address

Apart(r, q) == End(r) <= q.addr \/ End(q) <= r.addr

(* However mmap, MAP_FIXED, munmap, mremap, brk, thread creation and fork    *)
(* follow each other, no two mappings share a byte, no mapping reaches into  *)
(* a thread's control slot, and no two slots overlap: the guarantee behind   *)
(* "mmap remains coherent" of docs/architecture.md.                          *)
RegionsApart ==
    /\ mappings \cap reserved = {}
    /\ \A r, q \in Regions : r # q => Apart(r, q)

(* In a compact layout the heap, the prefix below it and everything mmap or  *)
(* the host placed are apart: brk never grows into a mapping or a thread's   *)
(* slot, and no placement enters the heap, also after the break has been     *)
(* moved down and up again.                                                  *)
HeapApart ==
    layout.reserved_until # 0 => \A r \in Regions : r.addr >= brk

(* In a layout with control pages between brk_limit and mmap_base neither    *)
(* the heap nor a region reaches into them.                                  *)
ControlApart ==
    layout.brk_limit < layout.mmap_base =>
        /\ brk <= layout.brk_limit
        /\ \A r \in Regions :
              End(r) <= layout.brk_limit \/ r.addr >= layout.mmap_base

(* The address space is well-formed: everything in it ends below max_addr,   *)
(* and nothing in it overlaps anything else.                                 *)
SpaceApart == TypeOK /\ RegionsApart /\ HeapApart /\ ControlApart

(* The scan of find_gap computes first fit: the lowest address at or above   *)
(* the floor with n free units under max_addr, and none when there is none.  *)
FirstFit ==
    \A n \in {RoundUp(l) : l \in {l \in Lens : l # 0 /\ Rounds(l)}} :
       LET free == {a \in Address : /\ a >= Floor /\ a + n <= layout.max_addr
                                    /\ ~ Overlaps(Regions, a, n)}
       IN find_gap(n) = {a \in free : \A b \in free : a <= b}

Mapped == UNION {Units(m.addr, End(m)) : m \in mappings}

(* The kernel records nothing as mapped that the program has given back:     *)
(* munmap and mremap take out exactly their pages, also out of the middle    *)
(* of a mapping.                                                             *)
NothingLeaks == Mapped \subseteq held

(* The pages a program was given and has kept stay recorded, and so are not  *)
(* handed out again.  docs/posix-status.md: MAP_FIXED "replaces the complete *)
(* rounded page range".                                                      *)
HeldStaysMapped == held \subseteq Mapped
=============================================================================
