-------------------------- MODULE SharedMemoryProofs --------------------------
(***************************************************************************)
(* What shared memory promises to programs that lock, for any finite set of *)
(* processes and any cells and values.  The inductive invariant is stated   *)
(* of the authoritative bytes b, the mappings m, the mappings T torn by a   *)
(* shmat, the mappings K that may hold an unpublished store after its lock  *)
(* was given up, the locks l and the values t stored last.                  *)
(***************************************************************************)
EXTENDS SharedMemory, TLAPS, FiniteSetTheorems

Bytes == [Cells -> Values]
Maps == [Procs -> {Unmapped} \cup MappingType]
Holders == Procs \cup {NoProc}
Shmats == [p : Holders, ro : BOOLEAN, todo : SUBSET Procs, torn : SUBSET Procs]
MappersOf(m) == {p \in Procs : m[p].mapped}

(* An unpublished store is the last one, and its cell still locked, unless   *)
(* nobody else maps the object. *)
StoresKept(m, T, K, l, t) ==
    \A c \in Cells, p \in MappersOf(m) \ T : Changed(m[p], c) =>
        /\ m[p].mem[c] = t[c]
        /\ l[c] = p \/ (MappersOf(m) = {p} /\ p \in K)

(* The bytes are current where nothing is unpublished. *)
BytesCurrent(b, m, T, t) ==
    \A c \in Cells :
        (\A p \in MappersOf(m) \ T : ~ Changed(m[p], c)) => b[c] = t[c]

(* The holder of a lock has the last store, and has seen the bytes. *)
HolderCurrent(b, m, l, t) ==
    \A c \in Cells, p \in MappersOf(m) :
        l[c] = p => m[p].mem[c] = t[c] /\ m[p].snapshot[c] = b[c]

Current(b, m, T, K, l, t) ==
    /\ StoresKept(m, T, K, l, t)
    /\ BytesCurrent(b, m, T, t)
    /\ HolderCurrent(b, m, l, t)

ReadOnlyClean(m, T) ==
    \A p \in MappersOf(m) \ T : m[p].readOnly => m[p].mem = m[p].snapshot
SeenIsSeen(b, m) ==
    \A p \in MappersOf(m) : m[p].seen => m[p].snapshot = b

LocksMapped(m, l) == \A c \in Cells : l[c] # NoProc => l[c] \in MappersOf(m)

-----------------------------------------------------------------------------
(* What the host does to a view *)

ViewOf(b, m) == [bytes |-> b, map |-> m, refreshed |-> {}]

(* w is b and m after what p changed was published and p refreshed. *)
Refreshed(b, m, p, w) ==
    /\ w.bytes \in Bytes /\ w.map \in Maps
    /\ MappersOf(w.map) = MappersOf(m)
    /\ \A q \in Procs \ {p} : ~ m[q].mapped => w.map[q] = m[q]
    /\ \A q \in MappersOf(m) :
          /\ w.map[q].readOnly = m[q].readOnly
          /\ q # p => /\ w.map[q].mem = m[q].mem
                      /\ w.map[q].snapshot = m[q].snapshot
                      /\ w.map[q].seen => m[q].seen /\ ~ Dirty(m[p])
    /\ w.map[p].seen
    /\ \A c \in Cells : w.bytes[c] = IF Changed(m[p], c) THEN m[p].mem[c] ELSE b[c]
    /\ \/ /\ w.refreshed = {} /\ w.bytes = b /\ w.map = m
          /\ ~ Dirty(m[p])
       \/ /\ w.refreshed = {p}
          /\ w.map[p].mem = w.bytes /\ w.map[p].snapshot = w.bytes

LEMMA MappingFields ==
    ASSUME NEW m \in Maps, NEW p \in Procs
    PROVE  /\ p \in MappersOf(m) => m[p] \in MappingType
           /\ p \notin MappersOf(m) => m[p] = Unmapped
           /\ m[p] \in MappingType => p \in MappersOf(m)
           /\ m[p] = Unmapped => p \notin MappersOf(m)
<1>1. m[p] \in {Unmapped} \cup MappingType
    BY DEF Maps
<1>2. Unmapped.mapped = FALSE
    BY DEF Unmapped
<1>3. \A x \in MappingType : x.mapped = TRUE
    BY DEF MappingType
<1> QED BY <1>1, <1>2, <1>3 DEF MappersOf

LEMMA MergedIs ==
    ASSUME NEW b \in Bytes, NEW m \in Maps, NEW p \in MappersOf(m)
    PROVE  /\ Merged(b, m[p]) \in Bytes
           /\ \A c \in Cells :
                 Merged(b, m[p])[c] = IF Changed(m[p], c) THEN m[p].mem[c] ELSE b[c]
           /\ ~ Dirty(m[p]) => Merged(b, m[p]) = b
<1>1. p \in Procs /\ m[p] \in MappingType
    BY MappingFields DEF MappersOf
<1>2. m[p].mem \in [Cells -> Values]
    BY <1>1 DEF MappingType
<1> QED BY <1>2 DEF Merged, Bytes, Dirty

LEMMA MergeRefreshes ==
    ASSUME NEW b \in Bytes, NEW m \in Maps, NEW p \in MappersOf(m)
    PROVE  Refreshed(b, m, p, MergedAndRefreshed(ViewOf(b, m), p))
<1> DEFINE w == MergedAndRefreshed(ViewOf(b, m), p)
           L == Merged(b, m[p])
           O == Overtaken(ViewOf(b, m), p)
<1>0. SUFFICES Refreshed(b, m, p, w)
    OBVIOUS
<1>1. p \in Procs /\ m[p] \in MappingType
    BY MappingFields DEF MappersOf
<1>2. /\ L \in Bytes
      /\ \A c \in Cells : L[c] = IF Changed(m[p], c) THEN m[p].mem[c] ELSE b[c]
      /\ ~ Dirty(m[p]) => L = b
    BY MergedIs
<1>3. ViewOf(b, m).bytes = b /\ ViewOf(b, m).map = m /\ ViewOf(b, m).refreshed = {}
    BY DEF ViewOf
<1>4. CASE ~ Dirty(m[p]) /\ m[p].seen
  <2>1. w = ViewOf(b, m)
    BY <1>3, <1>4 DEF MergedAndRefreshed
  <2>2. w.bytes = b /\ w.map = m /\ w.refreshed = {}
    BY <1>3, <2>1
  <2>3. \A c \in Cells : b[c] = IF Changed(m[p], c) THEN m[p].mem[c] ELSE b[c]
    BY <1>4 DEF Dirty
  <2> HIDE DEF w
  <2> QED BY <2>2, <2>3, <1>4 DEF Refreshed
<1>5. CASE ~ (~ Dirty(m[p]) /\ m[p].seen)
  <2>1. /\ O \in Maps /\ O[p] = m[p]
        /\ \A q \in Procs : ~ m[q].mapped => O[q] = m[q]
        /\ \A q \in MappersOf(m) :
              /\ O[q] \in MappingType
              /\ O[q].readOnly = m[q].readOnly
              /\ O[q].mem = m[q].mem
              /\ O[q].snapshot = m[q].snapshot
              /\ q # p /\ O[q].seen => m[q].seen /\ ~ Dirty(m[p])
    <3>1. O = [q \in Procs |-> IF q # p /\ m[q].mapped /\ Dirty(m[p])
                               THEN [m[q] EXCEPT !.seen = FALSE] ELSE m[q]]
        BY <1>3 DEF Overtaken
    <3>2. \A q \in MappersOf(m) : q \in Procs /\ m[q] \in MappingType /\ m[q].mapped
        BY MappingFields DEF MappersOf
    <3>3. \A x \in MappingType :
             LET y == [x EXCEPT !.seen = FALSE]
             IN  /\ y \in MappingType /\ y.readOnly = x.readOnly /\ y.mem = x.mem
                 /\ y.snapshot = x.snapshot /\ ~ y.seen
        BY DEF MappingType
    <3>4. \A q \in MappersOf(m) :
              /\ O[q] \in MappingType
              /\ O[q].readOnly = m[q].readOnly
              /\ O[q].mem = m[q].mem
              /\ O[q].snapshot = m[q].snapshot
              /\ q # p /\ O[q].seen => m[q].seen /\ ~ Dirty(m[p])
        BY <3>1, <3>2, <3>3
    <3>5. \A q \in Procs : ~ m[q].mapped => O[q] = m[q]
        BY <3>1
    <3>6. O[p] = m[p]
        BY <3>1, <1>1
    <3>7. O \in Maps
      <4>1. \A q \in Procs : O[q] \in {Unmapped} \cup MappingType
        BY <3>4, <3>5 DEF MappersOf, Maps
      <4> QED BY <4>1, <3>1 DEF Maps
    <3> QED BY <3>4, <3>5, <3>6, <3>7
  <2> HIDE DEF O, L
  <2>2. w = [bytes |-> L, refreshed |-> {p},
             map |-> [O EXCEPT ![p].mem = L, ![p].snapshot = L, ![p].seen = TRUE]]
    BY <1>3, <1>5 DEF MergedAndRefreshed, O, L
  <2>3. /\ w.bytes = L /\ w.refreshed = {p}
        /\ w.map = [O EXCEPT ![p].mem = L, ![p].snapshot = L, ![p].seen = TRUE]
    BY <2>2
  <2> HIDE DEF w
  <2>4. /\ w.map[p] \in MappingType
        /\ w.map[p].mem = L /\ w.map[p].snapshot = L /\ w.map[p].seen
        /\ w.map[p].readOnly = m[p].readOnly
    <3>1. w.map[p] = [[[O[p] EXCEPT !.mem = L] EXCEPT !.snapshot = L] EXCEPT !.seen = TRUE]
        BY <2>1, <2>3, <1>1 DEF Maps
    <3>2. w.map[p] = [[[m[p] EXCEPT !.mem = L] EXCEPT !.snapshot = L] EXCEPT !.seen = TRUE]
        BY <3>1, <2>1
    <3>3. \A x \in MappingType :
             LET y == [[[x EXCEPT !.mem = L] EXCEPT !.snapshot = L] EXCEPT !.seen = TRUE]
             IN  /\ y \in MappingType /\ y.readOnly = x.readOnly
                 /\ y.mem = L /\ y.snapshot = L /\ y.seen
        BY <1>2 DEF MappingType, Bytes
    <3> QED BY <3>2, <3>3, <1>1
  <2>5. \A q \in Procs : q # p => w.map[q] = O[q]
    BY <2>1, <2>3, <1>1 DEF Maps
  <2>6. w.map \in Maps
    BY <2>1, <2>3, <2>4, <2>5 DEF Maps
  <2>7. MappersOf(w.map) = MappersOf(m)
    <3>1. \A q \in Procs : q \in MappersOf(w.map) <=> q \in MappersOf(m)
        BY <2>1, <2>4, <2>5, <2>6, MappingFields DEF MappersOf
    <3> QED BY <3>1 DEF MappersOf
  <2>8. \A q \in MappersOf(m) : q \in Procs
    BY DEF MappersOf
  <2>9. \A q \in Procs \ {p} : ~ m[q].mapped => w.map[q] = m[q]
    BY <2>1, <2>5
  <2>10. \A q \in MappersOf(m) : q # p =>
            /\ w.map[q].readOnly = m[q].readOnly /\ w.map[q].mem = m[q].mem
            /\ w.map[q].snapshot = m[q].snapshot
            /\ w.map[q].seen => m[q].seen /\ ~ Dirty(m[p])
    BY <2>1, <2>5, <2>8
  <2>11. /\ w.bytes \in Bytes
         /\ \A c \in Cells : w.bytes[c] = IF Changed(m[p], c) THEN m[p].mem[c] ELSE b[c]
    BY <2>3, <1>2
  <2> QED BY <2>3, <2>4, <2>6, <2>7, <2>9, <2>10, <2>11 DEF Refreshed
<1> QED BY <1>4, <1>5

LEMMA MergeSeen ==
    ASSUME NEW b \in Bytes, NEW m \in Maps, NEW p \in MappersOf(m),
           NEW w, Refreshed(b, m, p, w),
           ReadOnlyClean(m, {}), SeenIsSeen(b, m)
    PROVE  /\ ReadOnlyClean(w.map, {}) /\ SeenIsSeen(w.bytes, w.map)
           /\ w.map[p].snapshot = w.bytes
           /\ \A c \in Cells : ~ Changed(w.map[p], c)
           /\ \A q \in MappersOf(m) \ {p}, c \in Cells :
                 Changed(w.map[q], c) <=> Changed(m[q], c)
<1>1. \A q \in MappersOf(m) : q \in Procs
    BY DEF MappersOf
<1>2. ~ Dirty(m[p]) => w.bytes = b
  <2>1. ~ Dirty(m[p]) => \A c \in Cells : w.bytes[c] = b[c]
    BY DEF Refreshed, Dirty
  <2> QED BY <2>1 DEF Refreshed, Bytes
<1>3. w.map[p].snapshot = w.bytes
    BY DEF Refreshed, SeenIsSeen
<1>4. \A c \in Cells : ~ Changed(w.map[p], c)
    BY DEF Refreshed, Dirty, Changed
<1>5. \A q \in MappersOf(m) \ {p}, c \in Cells : Changed(w.map[q], c) <=> Changed(m[q], c)
    BY DEF Refreshed, Changed
<1>6. SeenIsSeen(w.bytes, w.map)
    BY <1>2, <1>3 DEF Refreshed, SeenIsSeen
<1>7. ReadOnlyClean(w.map, {})
    BY <1>3 DEF Refreshed, ReadOnlyClean
<1> QED BY <1>3, <1>4, <1>5, <1>6, <1>7

(* A mapping that changed a cell without holding its lock has no peers. *)
LEMMA OnlyHolderChanges ==
    ASSUME NEW m, NEW T, NEW K, NEW l, NEW t, StoresKept(m, T, K, l, t),
           NEW p \in MappersOf(m), NEW q \in MappersOf(m) \ T, p # q,
           NEW c \in Cells, Changed(m[q], c)
    PROVE  l[c] = q /\ m[q].mem[c] = t[c]
BY DEF StoresKept

LEMMA MergeCurrent ==
    ASSUME NEW b \in Bytes, NEW m \in Maps, NEW p \in MappersOf(m),
           NEW w, Refreshed(b, m, p, w),
           ReadOnlyClean(m, {}), SeenIsSeen(b, m),
           NEW K, NEW l, NEW t, Current(b, m, {}, K, l, t)
    PROVE  Current(w.bytes, w.map, {}, {}, l, t)
<1> USE DEF Current
<1>0. MappersOf(w.map) = MappersOf(m)
    BY DEF Refreshed
<1>1. /\ w.map[p].snapshot = w.bytes
      /\ \A c \in Cells : ~ Changed(w.map[p], c)
      /\ \A q \in MappersOf(m) \ {p}, c \in Cells : Changed(w.map[q], c) <=> Changed(m[q], c)
    BY MergeSeen
<1>2. \A q \in MappersOf(m) \ {p} : /\ w.map[q].mem = m[q].mem
                                   /\ w.map[q].snapshot = m[q].snapshot
    BY DEF Refreshed
<1>3. \A c \in Cells : w.bytes[c] = IF Changed(m[p], c) THEN m[p].mem[c] ELSE b[c]
    BY DEF Refreshed
<1>4. \A q \in MappersOf(m) \ {p}, c \in Cells :
         Changed(m[q], c) => l[c] = q /\ m[q].mem[c] = t[c]
    BY OnlyHolderChanges
<1>5. StoresKept(w.map, {}, {}, l, t)
    BY <1>0, <1>1, <1>2, <1>4 DEF StoresKept
<1>6. BytesCurrent(w.bytes, w.map, {}, t)
  <2> SUFFICES ASSUME NEW c \in Cells,
                      \A q \in MappersOf(m) : ~ Changed(w.map[q], c)
               PROVE  w.bytes[c] = t[c]
    BY <1>0 DEF BytesCurrent
  <2>1. CASE Changed(m[p], c)
    BY <2>1, <1>3 DEF StoresKept
  <2>2. CASE ~ Changed(m[p], c)
    BY <2>2, <1>1, <1>3 DEF BytesCurrent
  <2> QED BY <2>1, <2>2
<1>7. HolderCurrent(w.bytes, w.map, l, t)
  <2> SUFFICES ASSUME NEW c \in Cells, NEW q \in MappersOf(m), l[c] = q
               PROVE  w.map[q].mem[c] = t[c] /\ w.map[q].snapshot[c] = w.bytes[c]
    BY <1>0 DEF HolderCurrent
  <2>0. m[q].mem[c] = t[c] /\ m[q].snapshot[c] = b[c]
    BY DEF HolderCurrent
  <2>1. CASE q = p
    <3>1. w.bytes[c] = t[c]
      <4>1. CASE Changed(m[p], c)
        BY <4>1, <1>3, <2>0, <2>1
      <4>2. CASE ~ Changed(m[p], c)
        <5>1. \A r \in MappersOf(m) : ~ Changed(m[r], c)
            BY <4>2, <1>4, <2>1
        <5> QED BY <5>1, <4>2, <1>3 DEF BytesCurrent
      <4> QED BY <4>1, <4>2
    <3>2. w.map[p].mem[c] = t[c]
      <4>1. w.map = m \/ w.map[p].mem = w.bytes
        BY DEF Refreshed
      <4> QED BY <4>1, <3>1, <2>0, <2>1
    <3> QED BY <3>1, <3>2, <1>1, <2>1
  <2>2. CASE q # p
    <3>1. ~ Changed(m[p], c)
        BY <2>2, OnlyHolderChanges
    <3> QED BY <3>1, <2>0, <2>2, <1>2, <1>3
  <2> QED BY <2>1, <2>2
<1> QED BY <1>5, <1>6, <1>7

-----------------------------------------------------------------------------
(* How the steps change what is current *)

(* A lock is taken by a mapping that has seen the bytes. *)
LEMMA TakeCurrent ==
    ASSUME NEW b, NEW m \in Maps, NEW K, NEW l \in [Cells -> Holders], NEW t,
           Current(b, m, {}, K, l, t),
           NEW p \in MappersOf(m), NEW d \in Cells, l[d] = NoProc,
           ReadOnlyClean(m, {}), m[p].snapshot = b
    PROVE  Current(b, m, {}, K, [l EXCEPT ![d] = p], t)
<1> USE DEF Current
<1> DEFINE n == [l EXCEPT ![d] = p]
<1>0. p \in Procs /\ p # NoProc /\ m[p] \in MappingType
    BY MappingFields, SharedMemoryConstants DEF MappersOf
<1>1. n[d] = p /\ \A c \in Cells : c # d => n[c] = l[c]
    OBVIOUS
<1>2. NoProc \notin MappersOf(m)
    BY SharedMemoryConstants DEF MappersOf
<1> HIDE DEF n
<1>3. StoresKept(m, {}, K, n, t)
    BY <1>1, <1>2 DEF StoresKept
<1>4. HolderCurrent(b, m, n, t)
  <2>1. m[p].mem[d] = t[d]
    <3>1. \A q \in MappersOf(m) \ {p} : ~ Changed(m[q], d)
        BY <1>2, OnlyHolderChanges
    <3>2. CASE Changed(m[p], d)
        BY <3>2 DEF StoresKept
    <3>3. CASE ~ Changed(m[p], d)
      <4>1. b[d] = t[d]
        BY <3>1, <3>3 DEF BytesCurrent
      <4>2. m[p].mem[d] = m[p].snapshot[d]
        BY <3>3 DEF Changed, ReadOnlyClean
      <4> QED BY <4>1, <4>2
    <3> QED BY <3>2, <3>3
  <2> QED BY <2>1, <1>1 DEF HolderCurrent
<1> QED BY <1>3, <1>4 DEF n

(* A lock is given up by a mapping that has published, or has no peers. *)
LEMMA GiveCurrent ==
    ASSUME NEW b, NEW m \in Maps, NEW K, NEW l \in [Cells -> Holders], NEW t,
           Current(b, m, {}, K, l, t),
           NEW p \in MappersOf(m), NEW d \in Cells, l[d] = p,
           ~ Changed(m[p], d) \/ (MappersOf(m) = {p} /\ p \in K)
    PROVE  Current(b, m, {}, K, [l EXCEPT ![d] = NoProc], t)
<1> DEFINE n == [l EXCEPT ![d] = NoProc]
<1>1. n[d] = NoProc /\ \A c \in Cells : c # d => n[c] = l[c]
    OBVIOUS
<1>2. NoProc \notin MappersOf(m)
    BY SharedMemoryConstants DEF MappersOf
<1> HIDE DEF n
<1>3. StoresKept(m, {}, K, n, t)
    BY <1>1, <1>2 DEF StoresKept, Current
<1>4. HolderCurrent(b, m, n, t)
    BY <1>1, <1>2 DEF HolderCurrent, Current
<1> QED BY <1>3, <1>4 DEF n, Current

(* A mapping with nothing to publish goes, and with it its locks. *)
LEMMA LeaveCurrent ==
    ASSUME NEW b, NEW m \in Maps, NEW K, NEW l, NEW t, Current(b, m, {}, K, l, t),
           NEW p \in Procs, \A c \in Cells : p \in MappersOf(m) => ~ Changed(m[p], c),
           NEW n, \A c \in Cells : n[c] = l[c] \/ (l[c] = p /\ n[c] = NoProc)
    PROVE  Current(b, [m EXCEPT ![p] = Unmapped], {}, K, n, t)
<1> DEFINE r == [m EXCEPT ![p] = Unmapped]
<1>1. MappersOf(r) = MappersOf(m) \ {p} /\ \A q \in MappersOf(r) : r[q] = m[q]
  <2>1. r[p] = Unmapped /\ \A q \in Procs : q # p => r[q] = m[q]
    BY DEF Maps
  <2>2. ~ Unmapped.mapped
    BY DEF Unmapped
  <2> HIDE DEF r
  <2> QED BY <2>1, <2>2 DEF MappersOf
<1>2. NoProc \notin MappersOf(m)
    BY SharedMemoryConstants DEF MappersOf
<1> HIDE DEF r
<1>3. StoresKept(r, {}, K, n, t)
  <2> SUFFICES ASSUME NEW c \in Cells, NEW q \in MappersOf(r), Changed(r[q], c)
               PROVE  r[q].mem[c] = t[c] /\ (n[c] = q \/ (MappersOf(r) = {q} /\ q \in K))
    BY DEF StoresKept
  <2>1. q \in MappersOf(m) /\ q # p /\ Changed(m[q], c) /\ r[q] = m[q]
    BY <1>1
  <2>2. m[q].mem[c] = t[c] /\ (l[c] = q \/ (MappersOf(m) = {q} /\ q \in K))
    BY <2>1 DEF StoresKept, Current
  <2> QED BY <2>1, <2>2, <1>1
<1>4. BytesCurrent(b, r, {}, t)
    BY <1>1 DEF BytesCurrent, Current
<1>5. HolderCurrent(b, r, n, t)
    BY <1>1, <1>2 DEF HolderCurrent, Current
<1> QED BY <1>3, <1>4, <1>5 DEF r, Current

(* A new mapping starts from the bytes, where only holders have changes. *)
LEMMA JoinCurrent ==
    ASSUME NEW b, NEW m \in Maps, NEW K, NEW J, NEW l, NEW t, Current(b, m, {}, K, l, t),
           \A q \in MappersOf(m), c \in Cells : Changed(m[q], c) => l[c] = q,
           NEW p \in Procs, p \notin MappersOf(m), \A c \in Cells : l[c] # p,
           NEW e \in MappingType, e.mem = b, e.snapshot = b
    PROVE  Current(b, [m EXCEPT ![p] = e], {}, J, l, t)
<1> DEFINE r == [m EXCEPT ![p] = e]
<1>1. r[p] = e /\ \A q \in Procs : q # p => r[q] = m[q]
    BY DEF Maps
<1>2. e.mapped
    BY DEF MappingType
<1> HIDE DEF r
<1>3. MappersOf(r) = MappersOf(m) \cup {p} /\ \A q \in MappersOf(m) : r[q] = m[q]
    BY <1>1, <1>2 DEF MappersOf
<1>4. \A c \in Cells : ~ Changed(r[p], c)
    BY <1>1 DEF Changed
<1>5. StoresKept(r, {}, J, l, t)
    BY <1>3, <1>4 DEF StoresKept, Current
<1>6. BytesCurrent(b, r, {}, t)
    BY <1>3 DEF BytesCurrent, Current
<1>7. HolderCurrent(b, r, l, t)
    BY <1>3 DEF HolderCurrent, Current
<1> QED BY <1>5, <1>6, <1>7 DEF r, Current

(* r is m after p stored v at d. *)
Stored(m, r, p, d, v) ==
    /\ r \in Maps /\ MappersOf(r) = MappersOf(m)
    /\ \A q \in Procs \ {p} : r[q] = m[q]
    /\ ~ m[p].readOnly /\ ~ r[p].readOnly /\ r[p].snapshot = m[p].snapshot
    /\ \A c \in Cells : r[p].mem[c] = IF c = d THEN v ELSE m[p].mem[c]

(* A store under the cell's lock, of a mapping that is not torn. *)
LEMMA StoreCurrent ==
    ASSUME NEW b, NEW m \in Maps, NEW T, NEW K, NEW l, NEW t \in Bytes,
           Current(b, m, T, K, l, t),
           NEW p \in MappersOf(m) \ T, NEW d \in Cells, l[d] = p, NEW v,
           NEW r, Stored(m, r, p, d, v)
    PROVE  Current(b, r, T, K, l, [t EXCEPT ![d] = v])
<1> USE DEF Current, Stored
<1> DEFINE n == [t EXCEPT ![d] = v]
<1>1. n[d] = v /\ \A c \in Cells : c # d => n[c] = t[c]
    BY DEF Bytes
<1> HIDE DEF n
<1>2. \A q \in MappersOf(m) : q \in Procs
    BY DEF MappersOf
<1>3. \A q \in MappersOf(m) \ T, c \in Cells :
         (q # p \/ c # d) => (Changed(r[q], c) <=> Changed(m[q], c))
    BY <1>2 DEF Changed
<1>4. \A q \in MappersOf(m) \ (T \cup {p}) : ~ Changed(m[q], d)
    BY OnlyHolderChanges
<1>5. StoresKept(r, T, K, l, n)
  <2> SUFFICES ASSUME NEW c \in Cells, NEW q \in MappersOf(m) \ T, Changed(r[q], c)
               PROVE  r[q].mem[c] = n[c] /\ (l[c] = q \/ (MappersOf(m) = {q} /\ q \in K))
    BY DEF StoresKept
  <2>1. CASE c = d
    <3>1. q = p
        BY <2>1, <1>3, <1>4
    <3> QED BY <2>1, <3>1, <1>1
  <2>2. CASE c # d
    <3>1. r[q].mem[c] = m[q].mem[c]
        BY <2>2, <1>2
    <3> QED BY <3>1, <2>2, <1>1, <1>3 DEF StoresKept
  <2> QED BY <2>1, <2>2
<1>6. BytesCurrent(b, r, T, n)
  <2> SUFFICES ASSUME NEW c \in Cells,
                      \A q \in MappersOf(m) \ T : ~ Changed(r[q], c)
               PROVE  b[c] = n[c]
    BY DEF BytesCurrent
  <2>1. CASE c = d
    <3>1. r[p].mem[d] = r[p].snapshot[d]
        BY <2>1 DEF Changed
    <3>2. m[p].snapshot[d] = b[d]
        BY DEF HolderCurrent
    <3> QED BY <2>1, <3>1, <3>2, <1>1
  <2>2. CASE c # d
    BY <2>2, <1>1, <1>3 DEF BytesCurrent
  <2> QED BY <2>1, <2>2
<1>7. HolderCurrent(b, r, l, n)
  <2> SUFFICES ASSUME NEW c \in Cells, NEW q \in MappersOf(m), l[c] = q
               PROVE  r[q].mem[c] = n[c] /\ r[q].snapshot[c] = b[c]
    BY DEF HolderCurrent
  <2>1. m[q].mem[c] = t[c] /\ m[q].snapshot[c] = b[c] /\ r[q].snapshot = m[q].snapshot
    BY <1>2 DEF HolderCurrent
  <2>2. CASE c = d
    BY <2>1, <2>2, <1>1
  <2>3. CASE c # d
    BY <2>1, <2>3, <1>1, <1>2
  <2> QED BY <2>2, <2>3
<1> QED BY <1>5, <1>6, <1>7 DEF n

(* m with another memory at p *)
Rewritten(m, p, x) == [m EXCEPT ![p].mem = x]

LEMMA RewrittenIs ==
    ASSUME NEW m \in Maps, NEW p \in MappersOf(m), NEW x \in Bytes
    PROVE  LET r == Rewritten(m, p, x)
           IN  /\ r \in Maps /\ MappersOf(r) = MappersOf(m)
               /\ \A q \in Procs \ {p} : r[q] = m[q]
               /\ r[p].mem = x /\ r[p].snapshot = m[p].snapshot
               /\ r[p].readOnly = m[p].readOnly /\ r[p].seen = m[p].seen
<1> DEFINE r == Rewritten(m, p, x)
<1>1. p \in Procs /\ m[p] \in MappingType
    BY MappingFields DEF MappersOf
<1>2. r[p] = [m[p] EXCEPT !.mem = x] /\ \A q \in Procs \ {p} : r[q] = m[q]
    BY <1>1 DEF Rewritten, Maps
<1>3. \A y \in MappingType :
         LET z == [y EXCEPT !.mem = x]
         IN  /\ z \in MappingType /\ z.mem = x /\ z.snapshot = y.snapshot
             /\ z.readOnly = y.readOnly /\ z.seen = y.seen
    BY DEF MappingType, Bytes
<1>4. /\ r[p] \in MappingType /\ r[p].mem = x /\ r[p].snapshot = m[p].snapshot
      /\ r[p].readOnly = m[p].readOnly /\ r[p].seen = m[p].seen
    BY <1>1, <1>2, <1>3
<1>5. r \in Maps
    BY <1>2, <1>4 DEF Rewritten, Maps
<1> HIDE DEF r
<1>6. \A q \in Procs : q \in MappersOf(r) <=> q \in MappersOf(m)
    BY <1>2, <1>4, <1>5, MappingFields DEF MappersOf
<1>7. MappersOf(r) = MappersOf(m)
    BY <1>6 DEF MappersOf
<1> QED BY <1>2, <1>4, <1>5, <1>7 DEF r

(* shmat has published what p changed, and not yet overwritten its memory. *)
LEMMA ScanCurrent ==
    ASSUME NEW b \in Bytes, NEW m \in Maps, NEW p \in MappersOf(m),
           NEW w, Refreshed(b, m, p, w),
           ReadOnlyClean(m, {}), SeenIsSeen(b, m),
           NEW K, NEW J, NEW l, NEW t, Current(b, m, {}, K, l, t)
    PROVE  Current(w.bytes, Rewritten(w.map, p, m[p].mem), w.refreshed, J, l, t)
<1> DEFINE r == Rewritten(w.map, p, m[p].mem)
<1>0. p \in Procs /\ m[p] \in MappingType /\ m[p].mem \in Bytes
    BY MappingFields DEF MappersOf, MappingType, Bytes
<1>1. w.map \in Maps /\ MappersOf(w.map) = MappersOf(m)
    BY DEF Refreshed
<1>2. /\ MappersOf(r) = MappersOf(m) /\ \A q \in Procs \ {p} : r[q] = w.map[q]
      /\ r[p].mem = m[p].mem /\ r[p].snapshot = w.map[p].snapshot
      /\ r[p].readOnly = w.map[p].readOnly
    BY <1>0, <1>1, RewrittenIs
<1>3. Current(w.bytes, w.map, {}, {}, l, t)
    BY MergeCurrent
<1>4. \A c \in Cells : ~ Changed(w.map[p], c)
    BY MergeSeen
<1>5. w.refreshed = {p} \/ (w.refreshed = {} /\ w.map[p].mem = m[p].mem)
    BY DEF Refreshed
<1> HIDE DEF r
<1>6. \A q \in MappersOf(m) : q \in Procs
    BY DEF MappersOf
<1>7. \A q \in MappersOf(m) \ w.refreshed, c \in Cells :
         /\ Changed(r[q], c) <=> Changed(w.map[q], c)
         /\ r[q].mem = w.map[q].mem
    BY <1>2, <1>5, <1>6 DEF Changed
<1>8. StoresKept(r, w.refreshed, J, l, t)
    BY <1>1, <1>2, <1>3, <1>7 DEF StoresKept, Current
<1>9. BytesCurrent(w.bytes, r, w.refreshed, t)
    BY <1>1, <1>2, <1>3, <1>4, <1>5, <1>7 DEF BytesCurrent, Current
<1>10. HolderCurrent(w.bytes, r, l, t)
  <2> SUFFICES ASSUME NEW c \in Cells, NEW q \in MappersOf(m), l[c] = q
               PROVE  r[q].mem[c] = t[c] /\ r[q].snapshot[c] = w.bytes[c]
    BY <1>2 DEF HolderCurrent
  <2>1. /\ w.map[q].mem[c] = t[c] /\ w.map[q].snapshot[c] = w.bytes[c]
        /\ m[q].mem[c] = t[c]
    BY <1>1, <1>3 DEF HolderCurrent, Current
  <2> QED BY <2>1, <1>2, <1>6
<1> QED BY <1>8, <1>9, <1>10 DEF r, Current

(* The memory of a torn mapping is overwritten with the bytes. *)
LEMMA RefreshCurrent ==
    ASSUME NEW b \in Bytes, NEW m \in Maps, NEW p \in MappersOf(m), m[p].snapshot = b,
           NEW T, T = {p}, NEW K, NEW l, NEW t, Current(b, m, T, K, l, t)
    PROVE  Current(b, Rewritten(m, p, b), {}, K, l, t)
<1> DEFINE r == Rewritten(m, p, b)
<1>1. /\ MappersOf(r) = MappersOf(m) /\ \A q \in Procs \ {p} : r[q] = m[q]
      /\ r[p].mem = b /\ r[p].snapshot = b
    BY RewrittenIs
<1> HIDE DEF r
<1>2. \A c \in Cells : ~ Changed(r[p], c)
    BY <1>1 DEF Changed
<1>3. \A q \in MappersOf(m) \ {p} : r[q] = m[q]
    BY <1>1 DEF MappersOf
<1>4. StoresKept(r, {}, K, l, t)
    BY <1>1, <1>2, <1>3 DEF StoresKept, Current
<1>5. BytesCurrent(b, r, {}, t)
    BY <1>1, <1>3 DEF BytesCurrent, Current
<1>6. HolderCurrent(b, r, l, t)
  <2> SUFFICES ASSUME NEW c \in Cells, NEW q \in MappersOf(m), l[c] = q
               PROVE  r[q].mem[c] = t[c] /\ r[q].snapshot[c] = b[c]
    BY <1>1 DEF HolderCurrent
  <2>1. CASE q = p
    <3>1. \A s \in MappersOf(m) \ T : ~ Changed(m[s], c)
        BY <2>1, OnlyHolderChanges DEF Current
    <3>2. b[c] = t[c]
        BY <3>1 DEF BytesCurrent, Current
    <3> QED BY <3>2, <1>1, <2>1
  <2>2. CASE q # p
    BY <2>2, <1>3 DEF HolderCurrent, Current
  <2> QED BY <2>1, <2>2
<1> QED BY <1>4, <1>5, <1>6 DEF r, Current

-----------------------------------------------------------------------------
(* The inductive invariant *)

Quiet == IF shmat = NoShmat THEN Procs ELSE shmat.todo

Typing ==
    /\ kind \in Kinds /\ state \in {"none", "there", "removed"}
    /\ proc \in [Procs -> {"none", "live", "dead"}]
    /\ shmat \in Shmats /\ lock \in [Cells -> Holders]
    /\ truth \in Bytes /\ spoilt \in BOOLEAN

Attachments ==
    /\ \A p \in MappersOf(map) : proc[p] = "live"
    /\ LocksMapped(map, lock)
    /\ state = "none" => MappersOf(map) = {} /\ killed = {} /\ shmat = NoShmat
    /\ killed \subseteq Procs /\ \A p \in killed : proc[p] = "dead"
    /\ kind = "anonymous" => killed = {}

(* shmat works for a process that has not mapped the segment, and overwrites *)
(* one memory at a time.                                                     *)
ShmatOK ==
    /\ shmat.todo \cup shmat.torn \subseteq MappersOf(map)
    /\ \A p, q \in shmat.torn : p = q /\ map[p].seen
    /\ shmat # NoShmat => /\ kind = "sysv" /\ state = "there"
                          /\ shmat.p \in Procs \ MappersOf(map)
                          /\ proc[shmat.p] = "live"

CountOK(st, n, m) ==
    /\ n \in 0 .. Cardinality(Procs)
    /\ st # "removed" => n = Cardinality(MappersOf(m) \cup killed)

ViewOK(st, sp, b, m, T, K, l, t) ==
    /\ b \in Bytes /\ m \in Maps /\ ReadOnlyClean(m, T)
    /\ st # "removed" => SeenIsSeen(b, m)
    /\ st # "removed" /\ ~ sp => Current(b, m, T, K, l, t)

IInv ==
    /\ Typing /\ Attachments /\ ShmatOK /\ CountOK(state, count, map)
    /\ ViewOK(state, spoilt, bytes, map, shmat.torn, Quiet, lock, truth)

-----------------------------------------------------------------------------
(* Counting *)

(* What is counted: the mappings, and what shmat left behind. *)
LEMMA CountedFinite ==
    ASSUME NEW m, killed \subseteq Procs
    PROVE  LET S == MappersOf(m) \cup killed
           IN  /\ IsFiniteSet(S) /\ Cardinality(S) \in Nat
               /\ Cardinality(Procs) \in Nat /\ Cardinality(S) <= Cardinality(Procs)
<1> DEFINE S == MappersOf(m) \cup killed
<1>1. IsFiniteSet(Procs) /\ S \subseteq Procs
    BY SharedMemoryConstants DEF MappersOf
<1> HIDE DEF S
<1>2. IsFiniteSet(S) /\ Cardinality(S) <= Cardinality(Procs)
    BY <1>1, FS_Subset
<1>3. Cardinality(S) \in Nat /\ Cardinality(Procs) \in Nat
    BY <1>1, <1>2, FS_CardinalityType
<1> QED BY <1>2, <1>3 DEF S

(* r is m, counted n times, with the mapping e of p added. *)
Joined(m, n, p, e, r) ==
    /\ CountOK("there", n + 1, r)
    /\ MappersOf(r) = MappersOf(m) \cup {p}
    /\ r \in Maps /\ r[p] = e
    /\ \A q \in MappersOf(m) : r[q] = m[q]

LEMMA JoinCount ==
    ASSUME NEW m \in Maps, NEW n, CountOK("there", n, m), killed \subseteq Procs,
           NEW p \in Procs, p \notin MappersOf(m) \cup killed, NEW e \in MappingType,
           NEW r, r = [m EXCEPT ![p] = e]
    PROVE  Joined(m, n, p, e, r)
<1>1. r[p] = e /\ r \in Maps /\ \A q \in Procs : q # p => r[q] = m[q]
    BY DEF Maps
<1>2. e.mapped
    BY DEF MappingType
<1>3. MappersOf(r) = MappersOf(m) \cup {p} /\ \A q \in MappersOf(m) : r[q] = m[q]
    BY <1>1, <1>2 DEF MappersOf
<1> DEFINE S == MappersOf(m) \cup killed
<1>4. MappersOf(r) \cup killed = S \cup {p}
    BY <1>3
<1>5. IsFiniteSet(S) /\ p \notin S
    BY CountedFinite
<1> HIDE DEF S
<1>6. Cardinality(S \cup {p}) = Cardinality(S) + 1
    BY <1>5, FS_AddElement
<1>7. n = Cardinality(S)
    BY DEF CountOK, S
<1>8. CountOK("there", n + 1, r)
  <2>1. n + 1 = Cardinality(MappersOf(r) \cup killed)
    BY <1>4, <1>6, <1>7
  <2>2. n + 1 \in Nat /\ Cardinality(Procs) \in Nat /\ n + 1 <= Cardinality(Procs)
    BY <2>1, CountedFinite
  <2>3. n + 1 \in 0 .. Cardinality(Procs)
    BY <2>2
  <2> QED BY <2>1, <2>3 DEF CountOK
<1> QED BY <1>1, <1>3, <1>8 DEF Joined

LEMMA LeaveCount ==
    ASSUME NEW m, NEW p \in MappersOf(m) \ killed, killed \subseteq Procs, NEW n,
           n = Cardinality(MappersOf(m) \cup killed)
    PROVE  n \in Nat \ {0} /\ n - 1 = Cardinality((MappersOf(m) \ {p}) \cup killed)
<1> DEFINE S == MappersOf(m) \cup killed
<1>1. IsFiniteSet(S) /\ p \in S /\ Cardinality(S) \in Nat
    BY CountedFinite
<1>2. (MappersOf(m) \ {p}) \cup killed = S \ {p}
    OBVIOUS
<1>3. n = Cardinality(S)
    OBVIOUS
<1> HIDE DEF S
<1>4. Cardinality(S \ {p}) = Cardinality(S) - 1 /\ Cardinality(S) # 0
    BY <1>1, FS_RemoveElement, FS_EmptySet
<1> QED BY <1>1, <1>2, <1>3, <1>4

(* Of a backing, whose mappings are all that is counted. *)
LEMMA SoleCount ==
    ASSUME NEW m, NEW p \in MappersOf(m), killed = {}, NEW n,
           n = Cardinality(MappersOf(m) \cup killed)
    PROVE  n \in Nat \ {0} /\ (n = 1 <=> MappersOf(m) = {p})
<1>0. p \notin killed /\ killed \subseteq Procs
    OBVIOUS
<1>1. n \in Nat \ {0} /\ n - 1 = Cardinality((MappersOf(m) \ {p}) \cup killed)
    BY <1>0, LeaveCount
<1>2. (MappersOf(m) \ {p}) \cup killed = MappersOf(m) \ {p}
    OBVIOUS
<1>3. IsFiniteSet(MappersOf(m) \ {p})
  <2>1. IsFiniteSet(MappersOf(m) \cup killed)
    BY <1>0, CountedFinite
  <2> QED BY <2>1, FS_Subset
<1>4. n = 1 <=> MappersOf(m) \ {p} = {}
    BY <1>1, <1>2, <1>3, FS_EmptySet
<1> QED BY <1>1, <1>4

LEMMA LeaveIs ==
    ASSUME NEW m \in Maps, NEW p \in Procs
    PROVE  /\ MappersOf([m EXCEPT ![p] = Unmapped]) = MappersOf(m) \ {p}
           /\ [m EXCEPT ![p] = Unmapped] \in Maps
           /\ \A q \in MappersOf(m) \ {p} : [m EXCEPT ![p] = Unmapped][q] = m[q]
<1> DEFINE r == [m EXCEPT ![p] = Unmapped]
<1>1. r[p] = Unmapped /\ r \in Maps /\ \A q \in Procs : q # p => r[q] = m[q]
    BY DEF Maps
<1>2. ~ Unmapped.mapped
    BY DEF Unmapped
<1> HIDE DEF r
<1>3. MappersOf(r) = MappersOf(m) \ {p} /\ \A q \in MappersOf(m) \ {p} : r[q] = m[q]
    BY <1>1, <1>2 DEF MappersOf
<1> QED BY <1>1, <1>3 DEF r

-----------------------------------------------------------------------------
(* The boundary of a system call *)

(* p has published what it changed and has seen all of the bytes. *)
UpToDate(b, m, p) ==
    /\ m[p].seen /\ m[p].snapshot = b
    /\ \A c \in Cells : ~ Changed(m[p], c)

LEMMA ForcedIs ==
    ASSUME IInv, shmat = NoShmat, NEW p \in Procs
    PROVE  LET w == Forced(p)
           IN  /\ ViewOK(state, spoilt, w.bytes, w.map, {}, Procs, lock, truth)
               /\ MappersOf(w.map) = MappersOf(map)
               /\ p \in MappersOf(map) /\ state = "there" => UpToDate(w.bytes, w.map, p)
<1> DEFINE w == Forced(p)
<1>0. /\ ViewOK(state, spoilt, bytes, map, {}, Procs, lock, truth)
      /\ bytes \in Bytes /\ map \in Maps
    BY DEF IInv, Quiet, NoShmat, ViewOK
<1>1. CASE Mapped(p) /\ state = "there"
  <2>1. p \in MappersOf(map)
    BY <1>1 DEF MappersOf, Mapped
  <2>2. w = MergedAndRefreshed(ViewOf(bytes, map), p)
    BY <1>1 DEF Forced, View, ViewOf
  <2> HIDE DEF w
  <2>3. Refreshed(bytes, map, p, w)
    BY <1>0, <2>1, <2>2, MergeRefreshes
  <2>4. ReadOnlyClean(map, {}) /\ SeenIsSeen(bytes, map)
    BY <1>0, <1>1 DEF ViewOK
  <2>5. /\ ReadOnlyClean(w.map, {}) /\ SeenIsSeen(w.bytes, w.map)
        /\ w.map[p].snapshot = w.bytes
        /\ \A c \in Cells : ~ Changed(w.map[p], c)
    BY <1>0, <2>1, <2>3, <2>4, MergeSeen
  <2>6. ~ spoilt => Current(w.bytes, w.map, {}, {}, lock, truth)
    BY <1>0, <1>1, <2>1, <2>3, <2>4, MergeCurrent DEF ViewOK
  <2>7. ~ spoilt => Current(w.bytes, w.map, {}, Procs, lock, truth)
    BY <2>6 DEF Current, StoresKept
  <2>8. /\ w.bytes \in Bytes /\ w.map \in Maps /\ MappersOf(w.map) = MappersOf(map)
        /\ w.map[p].seen
    BY <2>3 DEF Refreshed
  <2>9. ViewOK(state, spoilt, w.bytes, w.map, {}, Procs, lock, truth)
    BY <2>5, <2>7, <2>8 DEF ViewOK
  <2> QED BY <2>5, <2>8, <2>9 DEF UpToDate, w
<1>2. CASE ~ (Mapped(p) /\ state = "there")
  <2>1. w = View
    BY <1>2 DEF Forced
  <2>2. w.bytes = bytes /\ w.map = map
    BY <2>1 DEF View
  <2>3. ~ (p \in MappersOf(map) /\ state = "there")
    BY <1>2 DEF MappersOf, Mapped
  <2> HIDE DEF w
  <2> QED BY <1>0, <2>2, <2>3 DEF w
<1> QED BY <1>1, <1>2

(* A mapping that an ordinary boundary skips has no peers, and has seen the  *)
(* bytes unless it is blind.                                                 *)
LEMMA BoundaryIs ==
    ASSUME IInv, shmat = NoShmat, NEW p \in Procs
    PROVE  LET w == Boundary(p)
           IN  /\ ViewOK(state, spoilt, w.bytes, w.map, {}, Procs, lock, truth)
               /\ MappersOf(w.map) = MappersOf(map)
               /\ p \in MappersOf(map) /\ state = "there" =>
                     \/ UpToDate(w.bytes, w.map, p)
                     \/ /\ w.bytes = bytes /\ w.map = map /\ MappersOf(map) = {p}
                        /\ map[p].seen \/ Blind(p)
<1> DEFINE w == Boundary(p)
<1>1. CASE Mapped(p) /\ Scanned(p)
  <2>1. w = Forced(p)
    BY <1>1 DEF Boundary
  <2> QED BY <2>1, ForcedIs
<1>2. CASE ~ (Mapped(p) /\ Scanned(p))
  <2>1. w.bytes = bytes /\ w.map = map
    BY <1>2 DEF Boundary, View
  <2>2. ViewOK(state, spoilt, bytes, map, {}, Procs, lock, truth) /\ map \in Maps
    BY DEF IInv, Quiet, NoShmat, ViewOK
  <2>3. ASSUME p \in MappersOf(map), state = "there"
        PROVE  MappersOf(map) = {p} /\ (map[p].seen \/ Blind(p))
    <3>0. Mapped(p) /\ ~ Scanned(p) /\ Mappers = MappersOf(map)
        BY <1>2, <2>3 DEF MappersOf, Mapped, Mappers
    <3>1. kind \in {"anonymous", "sysv"}
        BY SharedMemoryConstants DEF IInv, Typing
    <3>2. CASE kind = "anonymous"
      <4>1. ~ (count > 1) /\ map[p].seen
        BY <3>0, <3>2 DEF Scanned
      <4>2. count = Cardinality(MappersOf(map) \cup killed) /\ killed = {}
        BY <2>3, <3>2 DEF IInv, CountOK, Attachments
      <4>3. count \in Nat \ {0} /\ (count = 1 <=> MappersOf(map) = {p})
        BY <4>2, <2>3, SoleCount
      <4> QED BY <4>1, <4>3
    <3>3. CASE kind = "sysv"
      <4>1. Peers(p) = {}
        BY <3>0, <3>3 DEF Scanned
      <4>2. MappersOf(map) = {p}
        BY <4>1, <3>0, <2>3 DEF Peers
      <4> QED BY <4>1, <4>2, <3>0, <3>3 DEF Blind
    <3> QED BY <3>1, <3>2, <3>3
  <2> HIDE DEF w
  <2> QED BY <2>1, <2>2, <2>3 DEF w
<1> QED BY <1>1, <1>2

-----------------------------------------------------------------------------
(* Each step preserves the invariant *)

LEMMA StoreStep ==
    ASSUME IInv, NEW p \in Procs, NEW d \in Cells, NEW v \in Values, Store(p, d, v)
    PROVE  IInv'
<1>g. /\ proc[p] = "live" /\ Mapped(p) /\ ~ map[p].readOnly /\ lock[d] = p
      /\ map' = [map EXCEPT ![p].mem[d] = v]
      /\ Spoils(p \in shmat.torn, [truth EXCEPT ![d] = v])
      /\ UNCHANGED <<kind, state, bytes, count, proc, shmat, killed, lock>>
    BY DEF Store, object
<1>0. /\ bytes \in Bytes /\ map \in Maps /\ truth \in Bytes /\ Zero \in Bytes
      /\ spoilt \in BOOLEAN
    BY SharedMemoryConstants DEF IInv, ViewOK, Typing, Zero, Bytes
<1>1. p \in MappersOf(map) /\ map[p] \in MappingType
    BY <1>g, <1>0, MappingFields DEF Mapped, MappersOf
<1> DEFINE x == [map[p].mem EXCEPT ![d] = v]
<1>2. x \in Bytes /\ \A c \in Cells : x[c] = IF c = d THEN v ELSE map[p].mem[c]
    BY <1>1 DEF MappingType, Bytes
<1>3. map' = Rewritten(map, p, x)
    BY <1>g, <1>0 DEF Rewritten, Maps
<1> HIDE DEF x
<1>4. /\ map' \in Maps /\ MappersOf(map)' = MappersOf(map)
      /\ \A q \in Procs \ {p} : map'[q] = map[q]
      /\ map'[p].mem = x
      /\ map'[p].snapshot = map[p].snapshot
      /\ map'[p].readOnly = map[p].readOnly /\ map'[p].seen = map[p].seen
  <2>1. MappersOf(map') = MappersOf(map)
    BY <1>0, <1>1, <1>2, <1>3, RewrittenIs
  <2>2. MappersOf(map)' = MappersOf(map')
    BY DEF MappersOf
  <2> QED BY <1>0, <1>1, <1>2, <1>3, <2>1, <2>2, RewrittenIs
<1>5. \A c \in Cells : map'[p].mem[c] = IF c = d THEN v ELSE map[p].mem[c]
    BY <1>2, <1>4
<1>6. \A q \in MappersOf(map) : /\ map'[q].snapshot = map[q].snapshot
                                /\ map'[q].seen = map[q].seen
                                /\ map'[q].readOnly = map[q].readOnly
                                /\ q # p => map'[q].mem = map[q].mem
    BY <1>4 DEF MappersOf
<1>7. UNCHANGED <<kind, state, bytes, count, proc, shmat, killed, lock>>
    BY <1>g
<1>8. truth' \in Bytes /\ spoilt' \in BOOLEAN
    BY <1>g, <1>0 DEF Spoils, Bytes
<1>9. Quiet' = Quiet
    BY <1>7 DEF Quiet, NoShmat
<1>10. ViewOK(state, spoilt, bytes, map, shmat.torn, Quiet, lock, truth)'
  <2>1. ReadOnlyClean(map, shmat.torn)
    BY DEF IInv, ViewOK
  <2>2. ReadOnlyClean(map', shmat.torn)
    BY <2>1, <1>g, <1>1, <1>4, <1>6 DEF ReadOnlyClean
  <2>3. state # "removed" => SeenIsSeen(bytes, map')
    BY <1>4, <1>6 DEF IInv, ViewOK, SeenIsSeen
  <2>4. ASSUME state # "removed", ~ spoilt'
        PROVE  Current(bytes, map', shmat.torn, Quiet, lock, truth')
    <3>1. ~ spoilt /\ p \notin shmat.torn /\ truth' = [truth EXCEPT ![d] = v]
        BY <2>4, <1>g, <1>0 DEF Spoils
    <3>2. Current(bytes, map, shmat.torn, Quiet, lock, truth)
        BY <2>4, <3>1 DEF IInv, ViewOK
    <3>3. ~ map'[p].readOnly /\ lock[d] = p /\ ~ map[p].readOnly
        BY <1>g, <1>4
    <3>4. p \in MappersOf(map) \ shmat.torn /\ MappersOf(map') = MappersOf(map)
        BY <3>1, <1>1, <1>4 DEF MappersOf
    <3>5. Current(bytes, map', shmat.torn, Quiet, lock, [truth EXCEPT ![d] = v])
      <4>1. Stored(map, map', p, d, v)
        BY <3>3, <3>4, <1>4, <1>5 DEF Stored
      <4> QED BY <4>1, <3>2, <3>3, <3>4, <1>0, StoreCurrent
    <3> QED BY <3>1, <3>5
  <2> QED BY <2>2, <2>3, <2>4, <1>0, <1>4, <1>7, <1>9 DEF ViewOK
<1>11. Typing'
    BY <1>7, <1>8 DEF IInv, Typing
<1>12. Attachments' /\ CountOK(state, count, map)'
    BY <1>4, <1>7 DEF IInv, Attachments, CountOK, LocksMapped, NoShmat
<1>13. ShmatOK'
  <2>1. \A q \in shmat.torn : map[q].seen => map'[q].seen
    BY <1>6 DEF IInv, ShmatOK
  <2> QED BY <2>1, <1>4, <1>7 DEF IInv, ShmatOK, NoShmat
<1> QED BY <1>10, <1>11, <1>12, <1>13 DEF IInv

(* Nothing but the mappings' contents, the bytes and the locks change. *)
LEMMA CallStep ==
    ASSUME IInv, NEW p \in Procs, SystemCall(p),
           truth' \in Bytes, spoilt' \in BOOLEAN, lock' \in [Cells -> Holders],
           LocksMapped(map, lock'),
           state # "removed" /\ ~ spoilt' =>
               Current(bytes', map', {}, Procs, lock', truth')
    PROVE  IInv'
<1> USE DEF SystemCall
<1>1. /\ shmat = NoShmat /\ bytes' = Boundary(p).bytes /\ map' = Boundary(p).map
      /\ UNCHANGED <<kind, state, count, proc, shmat, killed>>
    BY DEF Calls
<1>2. /\ ViewOK(state, spoilt, bytes', map', {}, Procs, lock, truth)
      /\ MappersOf(map') = MappersOf(map)
    BY <1>1, BoundaryIs
<1>3. MappersOf(map)' = MappersOf(map)
    BY <1>2 DEF MappersOf
<1>4. shmat.torn = {} /\ Quiet' = Procs /\ Quiet = Procs
    BY <1>1 DEF Quiet, NoShmat
<1>5. ViewOK(state, spoilt, bytes, map, shmat.torn, Quiet, lock, truth)'
    BY <1>1, <1>2, <1>4 DEF ViewOK
<1>6. Typing'
    BY <1>1 DEF IInv, Typing
<1>7. Attachments' /\ ShmatOK' /\ CountOK(state, count, map)'
    BY <1>1, <1>3 DEF IInv, Attachments, ShmatOK, CountOK, LocksMapped, NoShmat
<1> QED BY <1>5, <1>6, <1>7 DEF IInv

LEMMA OtherCallStep ==
    ASSUME IInv, NEW p \in Procs, OtherCall(p)
    PROVE  IInv'
<1>1. /\ SystemCall(p) /\ shmat = NoShmat /\ UNCHANGED <<lock, truth, spoilt>>
      /\ bytes' = Boundary(p).bytes /\ map' = Boundary(p).map
    BY DEF OtherCall, SystemCall, Calls
<1>2. ViewOK(state, spoilt, bytes', map', {}, Procs, lock, truth)
    BY <1>1, BoundaryIs
<1>3. /\ truth' \in Bytes /\ spoilt' \in BOOLEAN /\ lock' \in [Cells -> Holders]
      /\ LocksMapped(map, lock')
    BY <1>1 DEF IInv, Typing, Attachments
<1> QED BY <1>1, <1>2, <1>3, CallStep DEF ViewOK

LEMMA AcquireStep ==
    ASSUME IInv, NEW p \in Procs, NEW d \in Cells, Acquire(p, d)
    PROVE  IInv'
<1>1. /\ SystemCall(p) /\ shmat = NoShmat /\ p \in MappersOf(map)
      /\ lock[d] = NoProc /\ lock' = [lock EXCEPT ![d] = p]
      /\ bytes' = Boundary(p).bytes /\ map' = Boundary(p).map
      /\ spoilt' = (spoilt \/ Blind(p))
      /\ truth' = IF spoilt \/ Blind(p) THEN Zero ELSE truth
    BY DEF Acquire, SystemCall, Calls, MappersOf, Mapped, Spoils
<1>2. /\ ViewOK(state, spoilt, bytes', map', {}, Procs, lock, truth)
      /\ MappersOf(map') = MappersOf(map)
      /\ state = "there" =>
            \/ UpToDate(bytes', map', p)
            \/ /\ bytes' = bytes /\ map' = map
               /\ map[p].seen \/ Blind(p)
    BY <1>1, BoundaryIs
<1>3. /\ lock \in [Cells -> Holders] /\ truth \in Bytes /\ LocksMapped(map, lock)
      /\ spoilt \in BOOLEAN /\ Zero \in Bytes
    BY SharedMemoryConstants DEF IInv, Typing, Attachments, Zero, Bytes
<1>4. truth' \in Bytes /\ spoilt' \in BOOLEAN
    BY <1>1, <1>3 DEF Blind
<1>5. lock' \in [Cells -> Holders] /\ LocksMapped(map, lock')
    BY <1>1, <1>3 DEF Holders, LocksMapped
<1>6. ASSUME state # "removed", ~ spoilt'
      PROVE  Current(bytes', map', {}, Procs, lock', truth')
  <2>1. ~ spoilt /\ ~ Blind(p) /\ truth' = truth
    BY <1>1, <1>6
  <2>2. state = "there"
    BY <1>1, <1>6 DEF IInv, Attachments, Typing
  <2>3. /\ Current(bytes', map', {}, Procs, lock, truth)
        /\ ReadOnlyClean(map', {}) /\ SeenIsSeen(bytes', map') /\ map' \in Maps
    BY <1>2, <1>6, <2>1 DEF ViewOK
  <2>4. map'[p].snapshot = bytes'
    BY <1>1, <1>2, <2>1, <2>2, <2>3 DEF UpToDate, SeenIsSeen
  <2> QED BY <1>1, <1>2, <1>3, <2>1, <2>3, <2>4, TakeCurrent
<1> QED BY <1>1, <1>4, <1>5, <1>6, CallStep

LEMMA ReleaseStep ==
    ASSUME IInv, NEW p \in Procs, NEW d \in Cells, Release(p, d)
    PROVE  IInv'
<1>1. /\ SystemCall(p) /\ shmat = NoShmat
      /\ lock[d] = p /\ lock' = [lock EXCEPT ![d] = NoProc]
      /\ bytes' = Boundary(p).bytes /\ map' = Boundary(p).map
      /\ truth' = truth /\ spoilt' = spoilt
    BY DEF Release, SystemCall, Calls
<1>3. /\ lock \in [Cells -> Holders] /\ truth \in Bytes /\ LocksMapped(map, lock)
      /\ spoilt \in BOOLEAN
    BY DEF IInv, Typing, Attachments
<1>4. p \in MappersOf(map)
    BY <1>1, <1>3, SharedMemoryConstants DEF LocksMapped
<1>2. /\ ViewOK(state, spoilt, bytes', map', {}, Procs, lock, truth)
      /\ MappersOf(map') = MappersOf(map)
      /\ state = "there" => UpToDate(bytes', map', p) \/ MappersOf(map) = {p}
    BY <1>1, <1>4, BoundaryIs
<1>5. lock' \in [Cells -> Holders] /\ LocksMapped(map, lock')
    BY <1>1, <1>3 DEF Holders, LocksMapped
<1>6. ASSUME state # "removed", ~ spoilt'
      PROVE  Current(bytes', map', {}, Procs, lock', truth')
  <2>2. state = "there"
    BY <1>4, <1>6 DEF IInv, Attachments, Typing
  <2>3. Current(bytes', map', {}, Procs, lock, truth) /\ map' \in Maps
    BY <1>1, <1>2, <1>6 DEF ViewOK
  <2>4. ~ Changed(map'[p], d) \/ MappersOf(map') = {p}
    BY <1>2, <2>2 DEF UpToDate
  <2> QED BY <1>1, <1>2, <1>3, <1>4, <2>3, <2>4, GiveCurrent
<1> QED BY <1>1, <1>3, <1>5, <1>6, CallStep

(* p's mapping goes from the view w. *)
LEMMA DetachStep ==
    ASSUME IInv, shmat = NoShmat, NEW p \in Procs, NEW w, Detached(p, w),
           ViewOK(state, spoilt, w.bytes, w.map, {}, Procs, lock, truth),
           MappersOf(w.map) = MappersOf(map), p \notin killed,
           p \in MappersOf(map) /\ state = "there" =>
               \/ UpToDate(w.bytes, w.map, p)
               \/ kind = "anonymous" /\ MappersOf(map) = {p},
           UNCHANGED <<kind, shmat, killed, truth, spoilt>>,
           proc' \in [Procs -> {"none", "live", "dead"}],
           \A q \in Procs \ {p} : proc'[q] = proc[q],
           lock' \in [Cells -> Holders],
           \A c \in Cells : IF lock[c] = p THEN lock'[c] = NoProc ELSE lock'[c] = lock[c]
    PROVE  IInv'
<1>1. Mapped(p) <=> p \in MappersOf(map)
    BY DEF Mapped, MappersOf
<1>2. /\ bytes' = w.bytes /\ map' = [w.map EXCEPT ![p] = Unmapped]
      /\ count' = IF p \in MappersOf(map) /\ state = "there" THEN count - 1 ELSE count
      /\ state' = IF kind = "anonymous" /\ p \in MappersOf(map) /\ count = 1
                  THEN "removed" ELSE state
    BY <1>1 DEF Detached
<1>3. w.bytes \in Bytes /\ w.map \in Maps /\ ReadOnlyClean(w.map, {})
    BY DEF ViewOK
<1>4. /\ MappersOf(map') = MappersOf(map) \ {p} /\ map' \in Maps
      /\ \A q \in MappersOf(map) \ {p} : map'[q] = w.map[q]
    BY <1>2, <1>3, LeaveIs
<1>5. MappersOf(map)' = MappersOf(map')
    BY DEF MappersOf
<1>6. /\ state \in {"none", "there", "removed"}
      /\ state = "none" => MappersOf(map) = {} /\ killed = {}
      /\ killed \subseteq Procs /\ \A q \in killed : proc[q] = "dead"
      /\ kind = "anonymous" => killed = {}
      /\ CountOK(state, count, map) /\ LocksMapped(map, lock)
      /\ \A q \in MappersOf(map) : q \in Procs /\ proc[q] = "live"
    BY DEF IInv, Typing, Attachments, MappersOf
<1>7. Typing'
    BY <1>2, <1>6 DEF IInv, Typing
<1>8. Attachments'
  <2>1. \A q \in MappersOf(map') : proc'[q] = "live"
    BY <1>4, <1>6
  <2>2. LocksMapped(map', lock')
    BY <1>4, <1>6 DEF LocksMapped
  <2>3. state' = "none" => MappersOf(map') = {} /\ killed' = {} /\ shmat' = NoShmat
    BY <1>2, <1>4, <1>6
  <2>4. /\ killed' \subseteq Procs /\ \A q \in killed' : proc'[q] = "dead"
        /\ kind' = "anonymous" => killed' = {}
    BY <1>6
  <2> QED BY <2>1, <2>2, <2>3, <2>4, <1>5 DEF Attachments, LocksMapped, NoShmat
<1>9. ShmatOK'
    BY DEF ShmatOK, NoShmat
<1>10. CountOK(state', count', map')
  <2>1. CASE p \in MappersOf(map) /\ state = "there"
    <3>0. count = Cardinality(MappersOf(map) \cup killed)
        BY <2>1, <1>6 DEF CountOK
    <3>1. /\ count \in Nat \ {0}
          /\ count - 1 = Cardinality((MappersOf(map) \ {p}) \cup killed)
        BY <3>0, <2>1, <1>6, LeaveCount
    <3>2. count - 1 \in 0 .. Cardinality(Procs)
        BY <3>1, <1>6, CountedFinite DEF CountOK
    <3> QED BY <2>1, <3>1, <3>2, <1>2, <1>4 DEF CountOK
  <2>2. CASE ~ (p \in MappersOf(map) /\ state = "there")
    <3>1. state # "removed" => p \notin MappersOf(map)
        BY <2>2, <1>6
    <3>2. state # "removed" => MappersOf(map') = MappersOf(map)
        BY <3>1, <1>4
    <3> QED BY <2>2, <3>1, <3>2, <1>2, <1>6 DEF CountOK
  <2> QED BY <2>1, <2>2
<1>11. ViewOK(state', spoilt', bytes', map', {}, Procs, lock', truth')
  <2>1. ReadOnlyClean(map', {})
    BY <1>3, <1>4 DEF ReadOnlyClean
  <2>2. state' # "removed" => state # "removed"
    BY <1>2
  <2>3. state' # "removed" => SeenIsSeen(bytes', map')
    BY <2>2, <1>2, <1>4 DEF ViewOK, SeenIsSeen
  <2>4. ASSUME state' # "removed", ~ spoilt
        PROVE  Current(bytes', map', {}, Procs, lock', truth)
    <3>1. Current(w.bytes, w.map, {}, Procs, lock, truth)
        BY <2>2, <2>4 DEF ViewOK
    <3>2. p \in MappersOf(map) => UpToDate(w.bytes, w.map, p)
      <4> SUFFICES ASSUME p \in MappersOf(map)
                   PROVE  UpToDate(w.bytes, w.map, p)
        OBVIOUS
      <4>1. state = "there"
        BY <2>2, <2>4, <1>6
      <4>a. count = Cardinality(MappersOf(map) \cup killed)
        BY <4>1, <1>6 DEF CountOK
      <4>2. kind = "anonymous" => (count = 1 <=> MappersOf(map) = {p})
        BY <4>a, <1>6, SoleCount
      <4>3. ~ (kind = "anonymous" /\ count = 1)
        BY <2>4, <1>2
      <4> QED BY <4>1, <4>2, <4>3
    <3>3. \A c \in Cells : p \in MappersOf(w.map) => ~ Changed(w.map[p], c)
        BY <3>2 DEF UpToDate
    <3>4. \A c \in Cells : lock'[c] = lock[c] \/ (lock[c] = p /\ lock'[c] = NoProc)
        OBVIOUS
    <3> QED BY <3>1, <3>3, <3>4, <1>2, <1>3, LeaveCurrent
  <2> QED BY <2>1, <2>3, <2>4, <1>2, <1>3, <1>4 DEF ViewOK
<1>12. shmat'.torn = {} /\ Quiet' = Procs
    BY DEF Quiet, NoShmat
<1>13. ViewOK(state, spoilt, bytes, map, shmat.torn, Quiet, lock, truth)'
    BY <1>11, <1>12
<1>14. CountOK(state, count, map)'
    BY <1>10, <1>5 DEF CountOK
<1> QED BY <1>7, <1>8, <1>9, <1>13, <1>14 DEF IInv

LEMMA UnmapStep ==
    ASSUME IInv, NEW p \in Procs, Unmap(p)
    PROVE  IInv'
<1>1. /\ shmat = NoShmat /\ state = "there" /\ p \in MappersOf(map)
      /\ \A c \in Cells : lock[c] # p
      /\ Detached(p, BeforeDetach(p))
      /\ UNCHANGED <<kind, proc, shmat, killed, lock, truth, spoilt>>
    BY DEF Unmap, Calls, NoLocks, Mapped, MappersOf
<1>2. /\ kind \in {"anonymous", "sysv"} /\ lock \in [Cells -> Holders]
      /\ proc \in [Procs -> {"none", "live", "dead"}] /\ p \notin killed
    BY <1>1, SharedMemoryConstants DEF IInv, Typing, Attachments
<1> DEFINE w == BeforeDetach(p)
<1>3. /\ ViewOK(state, spoilt, w.bytes, w.map, {}, Procs, lock, truth)
      /\ MappersOf(w.map) = MappersOf(map)
      /\ UpToDate(w.bytes, w.map, p) \/ (kind = "anonymous" /\ MappersOf(map) = {p})
  <2>1. CASE kind = "sysv"
    <3>1. w = Forced(p)
        BY <2>1 DEF BeforeDetach
    <3> QED BY <3>1, <1>1, ForcedIs
  <2>2. CASE kind = "anonymous"
    <3>1. w = Boundary(p)
        BY <2>2 DEF BeforeDetach
    <3> QED BY <3>1, <2>2, <1>1, BoundaryIs
  <2> QED BY <2>1, <2>2, <1>2
<1> HIDE DEF w
<1> QED BY <1>1, <1>2, <1>3, DetachStep DEF w

LEMMA ExecStep ==
    ASSUME IInv, NEW p \in Procs, Exec(p)
    PROVE  IInv'
<1>1. /\ shmat = NoShmat /\ p \in MappersOf(map) /\ proc[p] = "live"
      /\ \A c \in Cells : lock[c] # p
      /\ Detached(p, Forced(p))
      /\ proc' = IF state = "removed" THEN [proc EXCEPT ![p] = "dead"] ELSE proc
      /\ UNCHANGED <<kind, shmat, killed, lock, truth, spoilt>>
    BY DEF Exec, Calls, NoLocks, Mapped, MappersOf
<1>2. /\ lock \in [Cells -> Holders] /\ proc \in [Procs -> {"none", "live", "dead"}]
      /\ p \notin killed
    BY <1>1 DEF IInv, Typing, Attachments
<1>3. /\ proc' \in [Procs -> {"none", "live", "dead"}]
      /\ \A q \in Procs \ {p} : proc'[q] = proc[q]
    BY <1>1, <1>2
<1> QED BY <1>1, <1>2, <1>3, ForcedIs, DetachStep

LEMMA ExitStep ==
    ASSUME IInv, NEW p \in Procs, Exit(p)
    PROVE  IInv'
<1>1. /\ shmat = NoShmat /\ proc[p] = "live"
      /\ Detached(p, Forced(p))
      /\ proc' = [proc EXCEPT ![p] = "dead"]
      /\ lock' = [c \in Cells |-> IF lock[c] = p THEN NoProc ELSE lock[c]]
      /\ UNCHANGED <<kind, shmat, killed, truth, spoilt>>
    BY DEF Exit, Calls
<1>2. /\ lock \in [Cells -> Holders] /\ proc \in [Procs -> {"none", "live", "dead"}]
      /\ p \notin killed
    BY <1>1 DEF IInv, Typing, Attachments
<1>3. /\ proc' \in [Procs -> {"none", "live", "dead"}]
      /\ \A q \in Procs \ {p} : proc'[q] = proc[q]
      /\ lock' \in [Cells -> Holders]
      /\ \A c \in Cells : IF lock[c] = p THEN lock'[c] = NoProc ELSE lock'[c] = lock[c]
    BY <1>1, <1>2 DEF Holders
<1> QED BY <1>1, <1>2, <1>3, ForcedIs, DetachStep

LEMMA MmapSharedStep ==
    ASSUME IInv, NEW p \in Procs, MmapShared(p)
    PROVE  IInv'
<1>1. /\ shmat = NoShmat /\ proc[p] = "live" /\ state = "none"
      /\ state' = "there" /\ count' = 1
      /\ map' = [map EXCEPT ![p] = Mapping(FALSE)]
      /\ UNCHANGED <<kind, bytes, proc, shmat, killed, lock, truth, spoilt>>
    BY DEF MmapShared, Calls
<1>2. /\ MappersOf(map) = {} /\ map \in Maps /\ bytes \in Bytes /\ LocksMapped(map, lock)
      /\ CountOK("there", count, map) /\ count = 0 /\ killed = {}
      /\ ~ spoilt => Current(bytes, map, {}, Procs, lock, truth)
  <2>1. /\ MappersOf(map) = {} /\ killed = {}
        /\ count = Cardinality(MappersOf(map) \cup killed)
    BY <1>1 DEF IInv, Attachments, CountOK
  <2>2. shmat.torn = {} /\ Quiet = Procs
    BY <1>1 DEF Quiet, NoShmat
  <2>3. count = 0
    BY <2>1, FS_EmptySet
  <2> QED BY <2>1, <2>2, <2>3, <1>1 DEF IInv, Attachments, CountOK, ViewOK
<1> DEFINE e == Mapping(FALSE)
<1>3. e \in MappingType /\ e.mem = bytes /\ e.snapshot = bytes
    BY <1>2 DEF Mapping, MappingType, Bytes
<1> HIDE DEF e
<1>4. map' = [map EXCEPT ![p] = e]
    BY <1>1 DEF e
<1>5. /\ CountOK("there", count + 1, map') /\ MappersOf(map') = {p} /\ map' \in Maps
      /\ map'[p] = e
  <2>0. /\ p \notin MappersOf(map) \cup killed /\ killed \subseteq Procs
        /\ map \in Maps /\ CountOK("there", count, map)
    BY <1>2
  <2>1. /\ CountOK("there", count + 1, map') /\ map' \in Maps /\ map'[p] = e
        /\ MappersOf(map') = MappersOf(map) \cup {p}
    <3>1. Joined(map, count, p, e, map')
        BY <2>0, <1>3, <1>4, JoinCount
    <3> QED BY <3>1 DEF Joined
  <2> QED BY <2>1, <1>2
<1>6. \A c \in Cells : lock[c] = NoProc
    BY <1>2 DEF LocksMapped
<1>7. ~ spoilt => Current(bytes, map', {}, Procs, lock, truth)
    BY <1>2, <1>3, <1>4, <1>6, SharedMemoryConstants, JoinCurrent
<1>8. ViewOK("there", spoilt, bytes, map', {}, Procs, lock, truth)
    BY <1>2, <1>3, <1>5, <1>7 DEF ViewOK, ReadOnlyClean, SeenIsSeen
<1>9. MappersOf(map)' = {p} /\ shmat'.torn = {} /\ Quiet' = Procs
    BY <1>1, <1>5 DEF MappersOf, Quiet, NoShmat
<1>10. Typing'
    BY <1>1 DEF IInv, Typing
<1>11. Attachments' /\ ShmatOK'
    BY <1>1, <1>2, <1>6, <1>9 DEF Attachments, ShmatOK, LocksMapped, NoShmat
<1>12. CountOK(state, count, map)'
    BY <1>1, <1>2, <1>5, <1>9 DEF CountOK
<1>13. ViewOK(state, spoilt, bytes, map, shmat.torn, Quiet, lock, truth)'
    BY <1>1, <1>8, <1>9
<1> QED BY <1>10, <1>11, <1>12, <1>13 DEF IInv

LEMMA ShmgetStep ==
    ASSUME IInv, NEW p \in Procs, shmget(p) \/ shmctl_rmid(p)
    PROVE  IInv'
<1>1. /\ shmat = NoShmat /\ state' \in {"there", "removed"}
      /\ state' # "removed" => state # "removed"
      /\ UNCHANGED <<kind, bytes, count, map, proc, shmat, killed, lock, truth, spoilt>>
    BY DEF shmget, shmctl_rmid, Calls
<1>2. Quiet' = Quiet /\ MappersOf(map)' = MappersOf(map)
    BY <1>1 DEF Quiet, NoShmat, MappersOf
<1>3. Typing' /\ Attachments' /\ ShmatOK' /\ CountOK(state, count, map)'
    BY <1>1, <1>2 DEF IInv, Typing, Attachments, ShmatOK, CountOK, LocksMapped, NoShmat
<1>4. ViewOK(state, spoilt, bytes, map, shmat.torn, Quiet, lock, truth)'
    BY <1>1, <1>2 DEF IInv, ViewOK
<1> QED BY <1>3, <1>4 DEF IInv

LEMMA ForkStep ==
    ASSUME IInv, NEW p \in Procs, NEW child \in Procs, Fork(p, child)
    PROVE  IInv'
<1> DEFINE w == Forced(p)
           e == IF Mapped(p) THEN [w.map[p] EXCEPT !.mem = w.bytes, !.snapshot = w.bytes]
                ELSE Unmapped
<1>1. /\ shmat = NoShmat /\ proc[p] = "live" /\ proc[child] = "none"
      /\ Mapped(p) => state = "there"
      /\ bytes' = w.bytes /\ map' = [w.map EXCEPT ![child] = e]
      /\ count' = ChildCount(p) /\ proc' = [proc EXCEPT ![child] = "live"]
      /\ UNCHANGED <<kind, state, shmat, killed, lock, truth, spoilt>>
    BY DEF Fork, Calls
<1>2. /\ ViewOK(state, spoilt, w.bytes, w.map, {}, Procs, lock, truth)
      /\ MappersOf(w.map) = MappersOf(map)
      /\ p \in MappersOf(map) /\ state = "there" => UpToDate(w.bytes, w.map, p)
    BY <1>1, ForcedIs
<1>3. w.bytes \in Bytes /\ w.map \in Maps /\ ReadOnlyClean(w.map, {})
    BY <1>2 DEF ViewOK
<1>4. /\ proc \in [Procs -> {"none", "live", "dead"}]
      /\ LocksMapped(map, lock) /\ CountOK(state, count, map)
      /\ killed \subseteq Procs /\ \A q \in killed : proc[q] = "dead"
      /\ \A q \in MappersOf(map) : q \in Procs /\ proc[q] = "live"
      /\ Quiet' = Procs /\ shmat.torn = {}
    BY <1>1 DEF IInv, Typing, Attachments, Quiet, NoShmat, MappersOf
<1>5. child \notin MappersOf(map) \cup killed /\ \A c \in Cells : lock[c] # child
    BY <1>1, <1>4, SharedMemoryConstants DEF LocksMapped
<1>6. MappersOf(map)' = MappersOf(map')
    BY DEF MappersOf
<1>7. Typing'
    BY <1>1, <1>4 DEF IInv, Typing
<1>8. /\ proc'[child] = "live" /\ \A q \in MappersOf(map) : proc'[q] = "live"
      /\ \A q \in killed : proc'[q] = "dead"
      /\ kind = "anonymous" => killed = {}
    BY <1>1, <1>4, <1>5 DEF IInv, Attachments
<1>9. CASE Mapped(p)
  <2>1. state = "there" /\ p \in MappersOf(map) /\ count' = count + 1
    BY <1>1, <1>9 DEF Mapped, MappersOf, ChildCount
  <2>2. w.map[p] \in MappingType /\ UpToDate(w.bytes, w.map, p)
    BY <2>1, <1>2, <1>3, MappingFields
  <2>3. e \in MappingType /\ e.mem = w.bytes /\ e.snapshot = w.bytes
    BY <2>2, <1>3, <1>9 DEF MappingType, Bytes
  <2> HIDE DEF e, w
  <2>4. CountOK("there", count, w.map)
    BY <2>1, <1>2, <1>4 DEF CountOK
  <2>5. /\ CountOK("there", count + 1, map') /\ MappersOf(map') = MappersOf(map) \cup {child}
        /\ map' \in Maps /\ map'[child] = e
        /\ \A q \in MappersOf(map) : map'[q] = w.map[q]
    <3>1. child \notin MappersOf(w.map) \cup killed
        BY <1>2, <1>5
    <3>2. Joined(w.map, count, child, e, map')
        BY <3>1, <2>3, <2>4, <1>1, <1>3, <1>4, JoinCount
    <3> QED BY <3>2, <1>2 DEF Joined
  <2>6. ASSUME ~ spoilt
        PROVE  Current(w.bytes, map', {}, Procs, lock, truth)
    <3>1. Current(w.bytes, w.map, {}, Procs, lock, truth)
        BY <2>1, <2>6, <1>2 DEF ViewOK
    <3>2. \A q \in MappersOf(w.map), c \in Cells : Changed(w.map[q], c) => lock[c] = q
        BY <3>1, <2>1, <2>2, <1>2, OnlyHolderChanges DEF Current, UpToDate
    <3> QED BY <3>1, <3>2, <2>3, <1>1, <1>2, <1>3, <1>5, JoinCurrent
  <2>7. ViewOK(state, spoilt, bytes', map', {}, Procs, lock, truth)
    <3>1. ReadOnlyClean(map', {})
        BY <2>3, <2>5, <1>2, <1>3 DEF ReadOnlyClean
    <3>2. SeenIsSeen(bytes', map')
        BY <2>1, <2>3, <2>5, <1>1, <1>2 DEF SeenIsSeen, ViewOK
    <3> QED BY <3>1, <3>2, <2>5, <2>6, <1>1, <1>3 DEF ViewOK
  <2>8. Attachments' /\ ShmatOK'
    BY <2>1, <2>5, <1>1, <1>4, <1>6, <1>8 DEF Attachments, ShmatOK, LocksMapped, NoShmat
  <2>9. CountOK(state, count, map)'
    BY <2>1, <2>5, <1>1, <1>6 DEF CountOK
  <2>10. ViewOK(state, spoilt, bytes, map, shmat.torn, Quiet, lock, truth)'
    BY <2>7, <1>1, <1>4
  <2> QED BY <2>8, <2>9, <2>10, <1>7 DEF IInv
<1>10. CASE ~ Mapped(p)
  <2>1. w.bytes = bytes /\ w.map = map /\ count' = count /\ e = Unmapped
    <3>1. w = View /\ e = Unmapped /\ count' = count
        BY <1>1, <1>10 DEF Forced, ChildCount
    <3>2. View.bytes = bytes /\ View.map = map
        BY DEF View
    <3> HIDE DEF e, w
    <3> QED BY <3>1, <3>2
  <2> HIDE DEF e, w
  <2>2. map[child] = Unmapped
    BY <2>1, <1>3, <1>5, MappingFields
  <2>3. map' = map
    BY <2>1, <2>2, <1>1, <1>3 DEF Maps
  <2>4. Attachments' /\ ShmatOK' /\ CountOK(state, count, map)'
    BY <2>1, <2>3, <1>1, <1>4, <1>6, <1>8
       DEF IInv, Attachments, ShmatOK, CountOK, LocksMapped, NoShmat
  <2>5. ViewOK(state, spoilt, bytes, map, shmat.torn, Quiet, lock, truth)'
    BY <2>1, <2>3, <1>1, <1>2, <1>4
  <2> QED BY <2>4, <2>5, <1>7 DEF IInv
<1> QED BY <1>9, <1>10

LEMMA ShmatBeginStep ==
    ASSUME IInv, NEW p \in Procs, NEW ro \in BOOLEAN, ShmatBegin(p, ro)
    PROVE  IInv'
<1>1. /\ shmat = NoShmat /\ proc[p] = "live" /\ p \notin MappersOf(map) /\ state = "there"
      /\ kind = "sysv"
      /\ shmat' = [p |-> p, ro |-> ro, todo |-> MappersOf(map), torn |-> {}]
      /\ UNCHANGED <<kind, state, bytes, count, map, proc, killed, lock, truth, spoilt>>
    BY DEF ShmatBegin, Calls, Mapped, MappersOf, Mappers, object
<1>2. /\ shmat'.p = p /\ shmat'.todo = MappersOf(map) /\ shmat'.torn = {}
      /\ shmat' \in Shmats
    BY <1>1 DEF Shmats, Holders, MappersOf
<1>3. shmat' # NoShmat
    BY <1>2, SharedMemoryConstants DEF NoShmat
<1>4. Quiet' = MappersOf(map) /\ Quiet = Procs /\ shmat.torn = {}
    BY <1>1, <1>2, <1>3 DEF Quiet, NoShmat
<1>5. MappersOf(map)' = MappersOf(map)
    BY <1>1 DEF MappersOf
<1>6. Typing'
    BY <1>1, <1>2 DEF IInv, Typing
<1>7. Attachments' /\ ShmatOK' /\ CountOK(state, count, map)'
    BY <1>1, <1>2, <1>5 DEF IInv, Attachments, ShmatOK, CountOK, LocksMapped
<1>8. ViewOK(state, spoilt, bytes, map, shmat.torn, Quiet, lock, truth)'
  <2>1. ~ spoilt => Current(bytes, map, {}, MappersOf(map), lock, truth)
    BY <1>1, <1>4 DEF IInv, ViewOK, Current, StoresKept
  <2> QED BY <2>1, <1>1, <1>2, <1>4 DEF IInv, ViewOK
<1> QED BY <1>6, <1>7, <1>8 DEF IInv

LEMMA ShmatScanStep ==
    ASSUME IInv, NEW q \in Procs, ShmatScan(q)
    PROVE  IInv'
<1> DEFINE w == MergedAndRefreshed(View, q)
<1>1. /\ q \in shmat.todo /\ shmat.torn = {}
      /\ bytes' = w.bytes /\ map' = [w.map EXCEPT ![q].mem = map[q].mem]
      /\ shmat' = [shmat EXCEPT !.todo = @ \ {q}, !.torn = w.refreshed]
      /\ UNCHANGED <<kind, state, count, proc, killed, lock, truth, spoilt>>
    BY DEF ShmatScan
<1>2. /\ shmat \in Shmats /\ shmat.todo \subseteq MappersOf(map) /\ q \in MappersOf(map)
      /\ bytes \in Bytes /\ map \in Maps /\ ReadOnlyClean(map, {})
    BY <1>1 DEF IInv, Typing, ShmatOK, ViewOK
<1>3. shmat # NoShmat
    BY <1>1 DEF NoShmat
<1>4. /\ kind = "sysv" /\ state = "there" /\ shmat.p \in Procs \ MappersOf(map)
      /\ proc[shmat.p] = "live"
    BY <1>3 DEF IInv, ShmatOK
<1>5. SeenIsSeen(bytes, map)
    BY <1>4 DEF IInv, ViewOK
<1>6. Refreshed(bytes, map, q, w)
  <2>1. w = MergedAndRefreshed(ViewOf(bytes, map), q)
    BY DEF View, ViewOf
  <2> HIDE DEF w
  <2> QED BY <2>1, <1>2, MergeRefreshes
<1> HIDE DEF w
<1>7. /\ w.map \in Maps /\ w.bytes \in Bytes /\ MappersOf(w.map) = MappersOf(map)
      /\ w.refreshed \subseteq {q}
      /\ w.refreshed = {} => w.map = map
    BY <1>6 DEF Refreshed
<1>8. map[q].mem \in Bytes
    BY <1>2, MappingFields DEF MappingType, Bytes
<1>9. map' = Rewritten(w.map, q, map[q].mem)
    BY <1>1 DEF Rewritten
<1>10. /\ map' \in Maps /\ MappersOf(map') = MappersOf(map)
       /\ \A r \in Procs \ {q} : map'[r] = w.map[r]
       /\ map'[q].mem = map[q].mem /\ map'[q].snapshot = w.map[q].snapshot
       /\ map'[q].readOnly = w.map[q].readOnly /\ map'[q].seen = w.map[q].seen
    BY <1>2, <1>7, <1>8, <1>9, RewrittenIs
<1>11. MappersOf(map)' = MappersOf(map)
    BY <1>10 DEF MappersOf
<1>12. /\ shmat'.p = shmat.p /\ shmat'.todo = shmat.todo \ {q}
       /\ shmat'.torn = w.refreshed /\ shmat' \in Shmats
    BY <1>1, <1>2, <1>7 DEF Shmats
<1>13. shmat' # NoShmat
    BY <1>4, <1>12, SharedMemoryConstants DEF NoShmat
<1>14. Quiet' = shmat.todo \ {q}
    BY <1>12, <1>13 DEF Quiet, NoShmat
<1>15. Typing'
    BY <1>1, <1>12 DEF IInv, Typing
<1>16. Attachments' /\ CountOK(state, count, map)'
    BY <1>1, <1>4, <1>11 DEF IInv, Attachments, CountOK, LocksMapped
<1>17. ShmatOK'
  <2>1. shmat'.todo \cup shmat'.torn \subseteq MappersOf(map)
    BY <1>2, <1>7, <1>12
  <2>2. \A r, s \in shmat'.torn : r = s /\ map'[r].seen
    <3>1. w.map[q].seen
        BY <1>6 DEF Refreshed
    <3>2. map'[q].seen
        BY <3>1, <1>10
    <3> QED BY <3>2, <1>7, <1>12
  <2> QED BY <2>1, <2>2, <1>1, <1>4, <1>11, <1>12 DEF ShmatOK
<1>18. ViewOK(state, spoilt, bytes, map, shmat.torn, Quiet, lock, truth)'
  <2>1. ReadOnlyClean(w.map, {}) /\ SeenIsSeen(w.bytes, w.map)
    BY <1>2, <1>5, <1>6, MergeSeen
  <2>2. \A r \in MappersOf(map) : r \in Procs
    BY DEF MappersOf
  <2>3. SeenIsSeen(bytes', map')
    BY <2>1, <2>2, <1>1, <1>7, <1>10 DEF SeenIsSeen
  <2>4. ReadOnlyClean(map', w.refreshed)
    <3>1. w.refreshed = {q} \/ w.refreshed = {} 
        BY <1>7
    <3> QED BY <3>1, <2>1, <2>2, <1>7, <1>10 DEF ReadOnlyClean
  <2>5. ~ spoilt => Current(bytes', map', w.refreshed, Quiet', lock, truth)
    <3>1. ~ spoilt => Current(bytes, map, {}, Quiet, lock, truth)
        BY <1>1, <1>4 DEF IInv, ViewOK
    <3> QED BY <3>1, <1>1, <1>2, <1>5, <1>6, <1>9, ScanCurrent
  <2> QED BY <2>3, <2>4, <2>5, <1>1, <1>7, <1>10, <1>12 DEF ViewOK
<1> QED BY <1>15, <1>16, <1>17, <1>18 DEF IInv

LEMMA ShmatRefreshStep ==
    ASSUME IInv, NEW q \in Procs, ShmatRefresh(q)
    PROVE  IInv'
<1>1. /\ q \in shmat.torn /\ map' = [map EXCEPT ![q].mem = map[q].snapshot]
      /\ shmat' = [shmat EXCEPT !.torn = {}]
      /\ UNCHANGED <<kind, state, bytes, count, proc, killed, lock, truth, spoilt>>
    BY DEF ShmatRefresh, object
<1>2. /\ shmat \in Shmats /\ q \in MappersOf(map) /\ shmat.torn = {q}
      /\ bytes \in Bytes /\ map \in Maps /\ shmat.todo \subseteq MappersOf(map)
    BY <1>1 DEF IInv, Typing, ShmatOK, ViewOK
<1>3. shmat # NoShmat
    BY <1>1 DEF NoShmat
<1>4. /\ kind = "sysv" /\ state = "there" /\ shmat.p \in Procs \ MappersOf(map)
      /\ proc[shmat.p] = "live"
    BY <1>3 DEF IInv, ShmatOK
<1>5. SeenIsSeen(bytes, map) /\ ReadOnlyClean(map, {q})
    BY <1>2, <1>4 DEF IInv, ViewOK
<1>6. map[q].snapshot \in Bytes
    BY <1>2, MappingFields DEF MappingType, Bytes
<1>7. map' = Rewritten(map, q, map[q].snapshot)
    BY <1>1 DEF Rewritten
<1>8. /\ map' \in Maps /\ MappersOf(map') = MappersOf(map)
      /\ \A r \in Procs \ {q} : map'[r] = map[r]
      /\ map'[q].mem = map[q].snapshot /\ map'[q].snapshot = map[q].snapshot
      /\ map'[q].readOnly = map[q].readOnly /\ map'[q].seen = map[q].seen
    BY <1>2, <1>6, <1>7, RewrittenIs
<1>9. MappersOf(map)' = MappersOf(map)
    BY <1>8 DEF MappersOf
<1>10. /\ shmat'.p = shmat.p /\ shmat'.todo = shmat.todo /\ shmat'.torn = {}
       /\ shmat' \in Shmats
    BY <1>1, <1>2 DEF Shmats
<1>11. shmat' # NoShmat
    BY <1>4, <1>10, SharedMemoryConstants DEF NoShmat
<1>12. Quiet' = Quiet
    BY <1>3, <1>10, <1>11 DEF Quiet, NoShmat
<1>13. Typing'
    BY <1>1, <1>10 DEF IInv, Typing
<1>14. Attachments' /\ ShmatOK' /\ CountOK(state, count, map)'
    BY <1>1, <1>2, <1>4, <1>9, <1>10 DEF IInv, Attachments, ShmatOK, CountOK, LocksMapped
<1>15. ViewOK(state, spoilt, bytes, map, shmat.torn, Quiet, lock, truth)'
  <2>1. \A r \in MappersOf(map) : r \in Procs
    BY DEF MappersOf
  <2>2. ReadOnlyClean(map', {}) /\ SeenIsSeen(bytes, map')
    BY <2>1, <1>5, <1>8 DEF ReadOnlyClean, SeenIsSeen
  <2>3. ~ spoilt => Current(bytes, map', {}, Quiet, lock, truth)
    <3>1. ~ spoilt => Current(bytes, map, {q}, Quiet, lock, truth)
        BY <1>2, <1>4 DEF IInv, ViewOK
    <3>2. map[q].snapshot = bytes
        BY <1>1, <1>2, <1>5 DEF IInv, ShmatOK, SeenIsSeen
    <3> QED BY <3>1, <3>2, <1>2, <1>7, RefreshCurrent
  <2> QED BY <2>2, <2>3, <1>1, <1>2, <1>8, <1>10, <1>12 DEF ViewOK
<1> QED BY <1>13, <1>14, <1>15 DEF IInv

LEMMA ShmatEndStep ==
    ASSUME IInv, NEW ok \in BOOLEAN, ShmatEnd(ok)
    PROVE  IInv'
<1> DEFINE p == shmat.p
           e == Mapping(shmat.ro)
<1>1. /\ shmat # NoShmat /\ shmat.todo = {} /\ shmat.torn = {}
      /\ map' = IF ok THEN [map EXCEPT ![p] = e] ELSE map
      /\ count' = IF ok THEN count + 1 ELSE count
      /\ shmat' = NoShmat
      /\ UNCHANGED <<kind, state, bytes, proc, killed, lock, truth, spoilt>>
    BY DEF ShmatEnd
<1>2. /\ state = "there" /\ p \in Procs \ MappersOf(map) /\ proc[p] = "live"
      /\ shmat.ro \in BOOLEAN /\ map \in Maps /\ bytes \in Bytes
      /\ ReadOnlyClean(map, {}) /\ LocksMapped(map, lock)
      /\ killed \subseteq Procs /\ p \notin killed /\ kind = "sysv"
      /\ \A q \in killed : proc[q] = "dead"
      /\ \A q \in MappersOf(map) : proc[q] = "live"
    BY <1>1 DEF IInv, ShmatOK, Typing, Shmats, ViewOK, Attachments
<1>3. Quiet = {} /\ Quiet' = Procs /\ shmat'.torn = {} /\ NoShmat \in Shmats
    BY <1>1 DEF Quiet, NoShmat, Shmats, Holders
<1>4. SeenIsSeen(bytes, map) /\ CountOK("there", count, map)
    BY <1>2 DEF IInv, ViewOK
<1>5. ~ spoilt => Current(bytes, map, {}, {}, lock, truth)
    BY <1>1, <1>2, <1>3 DEF IInv, ViewOK
<1>6. Typing'
    BY <1>1, <1>3 DEF IInv, Typing
<1>7. CASE ok
  <2>1. e \in MappingType /\ e.mem = bytes /\ e.snapshot = bytes
    BY <1>2 DEF Mapping, MappingType, Bytes
  <2> HIDE DEF e, p
  <2>2. Joined(map, count, p, e, map')
    BY <2>1, <1>1, <1>2, <1>4, <1>7, JoinCount
  <2>3. /\ CountOK("there", count + 1, map') /\ MappersOf(map') = MappersOf(map) \cup {p}
        /\ map' \in Maps /\ map'[p] = e /\ \A q \in MappersOf(map) : map'[q] = map[q]
    BY <2>2 DEF Joined
  <2>4. MappersOf(map)' = MappersOf(map')
    BY DEF MappersOf
  <2>5. Attachments' /\ ShmatOK' /\ CountOK(state, count, map)'
    BY <2>3, <2>4, <1>1, <1>2, <1>7 DEF Attachments, ShmatOK, CountOK, LocksMapped, NoShmat
  <2>6. ~ spoilt => Current(bytes, map', {}, Procs, lock, truth)
    <3>1. \A c \in Cells : lock[c] # p
        BY <1>2, SharedMemoryConstants DEF LocksMapped
    <3>2. ~ spoilt => \A q \in MappersOf(map), c \in Cells : Changed(map[q], c) => lock[c] = q
        BY <1>5 DEF Current, StoresKept
    <3> QED BY <3>1, <3>2, <2>1, <1>1, <1>2, <1>5, <1>7, JoinCurrent
  <2>7. ReadOnlyClean(map', {}) /\ SeenIsSeen(bytes, map')
    BY <2>1, <2>3, <1>2, <1>4 DEF ReadOnlyClean, SeenIsSeen
  <2>8. ViewOK(state, spoilt, bytes, map, shmat.torn, Quiet, lock, truth)'
    BY <2>3, <2>6, <2>7, <1>1, <1>2, <1>3 DEF ViewOK
  <2> QED BY <2>5, <2>8, <1>6 DEF IInv
<1>8. CASE ~ ok
  <2>1. map' = map /\ count' = count
    BY <1>1, <1>8
  <2>2. MappersOf(map)' = MappersOf(map)
    BY <2>1 DEF MappersOf
  <2>3. Attachments' /\ ShmatOK' /\ CountOK(state, count, map)'
    BY <2>1, <2>2, <1>1, <1>2
       DEF IInv, Attachments, ShmatOK, CountOK, LocksMapped, NoShmat
  <2>4. ~ spoilt => Current(bytes, map, {}, Procs, lock, truth)
    BY <1>5 DEF Current, StoresKept
  <2>5. ViewOK(state, spoilt, bytes, map, shmat.torn, Quiet, lock, truth)'
    BY <2>1, <2>4, <1>1, <1>2, <1>3, <1>4 DEF ViewOK
  <2> QED BY <2>3, <2>5, <1>6 DEF IInv
<1> QED BY <1>7, <1>8

(* Nothing is mapped, and one more is counted, by a process that is gone. *)
LEMMA ShmatKilledStep ==
    ASSUME IInv, ShmatKilled
    PROVE  IInv'
<1> DEFINE p == shmat.p
<1>1. /\ shmat # NoShmat /\ shmat.todo = {} /\ shmat.torn = {}
      /\ count' = count + 1 /\ proc' = [proc EXCEPT ![p] = "dead"]
      /\ killed' = killed \cup {p} /\ shmat' = NoShmat
      /\ UNCHANGED <<kind, state, bytes, map, lock, truth, spoilt>>
    BY DEF ShmatKilled
<1>2. /\ state = "there" /\ p \in Procs \ MappersOf(map) /\ proc[p] = "live"
      /\ kind = "sysv" /\ map \in Maps /\ bytes \in Bytes
      /\ ReadOnlyClean(map, {}) /\ LocksMapped(map, lock)
      /\ killed \subseteq Procs /\ p \notin killed
      /\ \A q \in killed : proc[q] = "dead"
      /\ \A q \in MappersOf(map) : proc[q] = "live"
      /\ proc \in [Procs -> {"none", "live", "dead"}]
    BY <1>1 DEF IInv, ShmatOK, Typing, Shmats, ViewOK, Attachments
<1>3. Quiet = {} /\ Quiet' = Procs /\ shmat'.torn = {} /\ NoShmat \in Shmats
    BY <1>1 DEF Quiet, NoShmat, Shmats, Holders
<1>4. SeenIsSeen(bytes, map) /\ count = Cardinality(MappersOf(map) \cup killed)
    BY <1>2 DEF IInv, ViewOK, CountOK
<1> HIDE DEF p
<1>5. Typing'
    BY <1>1, <1>2, <1>3 DEF IInv, Typing
<1>6. MappersOf(map)' = MappersOf(map)
    BY <1>1 DEF MappersOf
<1>7. Attachments'
  <2>1. \A q \in killed' : proc'[q] = "dead" /\ q \in Procs
    BY <1>1, <1>2
  <2>2. \A q \in MappersOf(map) : proc'[q] = "live"
    BY <1>1, <1>2 DEF MappersOf
  <2> QED BY <2>1, <2>2, <1>1, <1>2, <1>6 DEF Attachments, LocksMapped
<1>8. ShmatOK'
    BY <1>1 DEF ShmatOK, NoShmat
<1>9. CountOK(state, count, map)'
  <2> DEFINE S == MappersOf(map) \cup killed
  <2>1. /\ MappersOf(map) \cup killed' = S \cup {p} /\ p \notin S
        /\ S \cup {p} \subseteq Procs
    BY <1>1, <1>2 DEF MappersOf
  <2>2. IsFiniteSet(S) /\ count = Cardinality(S)
    BY <1>2, <1>4, CountedFinite
  <2> HIDE DEF S
  <2>3. Cardinality(S \cup {p}) = count + 1 /\ Cardinality(S) \in Nat
    BY <2>1, <2>2, FS_AddElement, FS_CardinalityType
  <2>4. Cardinality(S \cup {p}) <= Cardinality(Procs) /\ Cardinality(Procs) \in Nat
    BY <2>1, FS_Subset, FS_CardinalityType, SharedMemoryConstants
  <2>5. count' \in 0 .. Cardinality(Procs)
    BY <2>2, <2>3, <2>4, <1>1
  <2>6. count' = Cardinality(MappersOf(map)' \cup killed')
    BY <2>1, <2>3, <1>1, <1>6
  <2> QED BY <2>5, <2>6 DEF CountOK
<1>10. ViewOK(state, spoilt, bytes, map, shmat.torn, Quiet, lock, truth)'
  <2>1. ~ spoilt => Current(bytes, map, {}, {}, lock, truth)
    BY <1>1, <1>2, <1>3 DEF IInv, ViewOK
  <2>2. ~ spoilt => Current(bytes, map, {}, Procs, lock, truth)
    BY <2>1 DEF Current, StoresKept
  <2> QED BY <2>2, <1>1, <1>2, <1>3, <1>4 DEF ViewOK
<1> QED BY <1>5, <1>7, <1>8, <1>9, <1>10 DEF IInv

-----------------------------------------------------------------------------
LEMMA InitOK == Init => IInv
<1> SUFFICES ASSUME Init PROVE IInv
    OBVIOUS
<1> USE DEF Init
<1>1. /\ bytes \in Bytes /\ Zero \in Bytes /\ map \in Maps /\ truth = bytes
    BY SharedMemoryConstants DEF Zero, Bytes, Maps
<1>2. MappersOf(map) = {}
    BY DEF MappersOf, Unmapped
<1>3. NoShmat \in Shmats /\ shmat.torn = {} /\ shmat.todo = {}
    BY DEF NoShmat, Shmats, Holders
<1>4. Typing
    BY <1>1, <1>3, SharedMemoryConstants DEF Typing, Holders
<1>5. Attachments /\ ShmatOK
    BY <1>2, <1>3 DEF Attachments, ShmatOK, LocksMapped
<1>6. CountOK(state, count, map)
  <2>1. MappersOf(map) \cup killed = {} /\ Cardinality(Procs) \in Nat
    BY <1>2, SharedMemoryConstants, FS_CardinalityType
  <2> QED BY <2>1, FS_EmptySet DEF CountOK
<1>7. ViewOK(state, spoilt, bytes, map, shmat.torn, Quiet, lock, truth)
    BY <1>1, <1>2, <1>3 DEF ViewOK, ReadOnlyClean, SeenIsSeen, Current, StoresKept,
                           BytesCurrent, HolderCurrent
<1> QED BY <1>4, <1>5, <1>6, <1>7 DEF IInv

LEMMA StepOK == IInv /\ [Next]_vars => IInv'
<1> SUFFICES ASSUME IInv, [Next]_vars PROVE IInv'
    OBVIOUS
<1>1. CASE UNCHANGED vars
    BY <1>1 DEF vars, object, IInv, Typing, Attachments, ShmatOK, CountOK, ViewOK,
                Quiet, LocksMapped, MappersOf, NoShmat, ReadOnlyClean, SeenIsSeen,
                Current, StoresKept, BytesCurrent, HolderCurrent, Changed
<1>2. CASE (\E ok \in BOOLEAN : ShmatEnd(ok)) \/ ShmatKilled
    BY <1>2, ShmatEndStep, ShmatKilledStep
<1>3. ASSUME NEW p \in Procs,
             \/ MmapShared(p) \/ shmget(p) \/ \E ro \in BOOLEAN : ShmatBegin(p, ro)
             \/ Unmap(p) \/ shmctl_rmid(p) \/ OtherCall(p)
             \/ Exec(p) \/ Exit(p) \/ ShmatScan(p) \/ ShmatRefresh(p)
      PROVE  IInv'
    BY <1>3, MmapSharedStep, ShmgetStep, ShmatBeginStep, UnmapStep, OtherCallStep,
       ExecStep, ExitStep, ShmatScanStep, ShmatRefreshStep
<1>4. ASSUME NEW p \in Procs, NEW c \in Cells,
             Acquire(p, c) \/ Release(p, c) \/ \E v \in Values : Store(p, c, v)
      PROVE  IInv'
    BY <1>4, AcquireStep, ReleaseStep, StoreStep
<1>5. ASSUME NEW p \in Procs, NEW child \in Procs, Fork(p, child)
      PROVE  IInv'
    BY <1>5, ForkStep
<1> QED BY <1>1, <1>2, <1>3, <1>4, <1>5 DEF Next

LEMMA AlwaysIInv == Spec => []IInv
BY InitOK, StepOK, PTL DEF Spec

(* For any processes, cells and values: a process that holds a cell's lock   *)
(* reads the value stored last (synchronizeSharedMemoryForBoundary in         *)
(* kernel-worker.ts), unless one of the two known steps was taken.           *)
THEOREM HolderReadsLastStore == Spec => []Coherent
<1>1. IInv => Coherent
    BY DEF IInv, Coherent, ViewOK, Current, HolderCurrent, Mappers, Mapped, MappersOf
<1> QED BY <1>1, AlwaysIInv, PTL

(* A mapping whose seenVersion is the backing's version has every byte of it *)
(* in its snapshot, so that skipping the comparison loses nothing.           *)
THEOREM SkippingIsSafe == Spec => []SeenMeansSeen
<1>1. IInv => SeenMeansSeen
    BY DEF IInv, SeenMeansSeen, ViewOK, SeenIsSeen, Mappers, Mapped, MappersOf
<1> QED BY <1>1, AlwaysIInv, PTL

(* The reference or attach count is the number of mappings, all of live      *)
(* processes, and of the attachments that a signal cut off between           *)
(* kernel_ipc_shmat and the mapping (handleIpcShmat), through fork, exec,    *)
(* exit and attachments that fail and are undone.                            *)
THEOREM CountsStayExact == Spec => []AttachmentsExact
<1>1. ASSUME IInv PROVE AttachmentsExact
  <2>1. Mappers = MappersOf(map)
    BY DEF Mappers, Mapped, MappersOf
  <2>2. \A p \in Procs : map[p] = Unmapped \/ (map[p] \in MappingType /\ proc[p] = "live")
    <3>1. map \in Maps /\ \A p \in MappersOf(map) : proc[p] = "live"
        BY <1>1 DEF IInv, ViewOK, Attachments
    <3> QED BY <3>1, MappingFields
  <2>3. TypeOK
    BY <1>1, <2>1, <2>2
       DEF TypeOK, IInv, Typing, Attachments, CountOK, ViewOK, ShmatOK, Bytes, Holders
  <2>4. CountExact
    BY <1>1, <2>1 DEF CountExact, IInv, CountOK
  <2> QED BY <2>3, <2>4 DEF AttachmentsExact
<1> QED BY <1>1, AlwaysIInv, PTL

=============================================================================
