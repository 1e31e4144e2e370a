-------------------------- MODULE FileLocksProofs --------------------------
(***************************************************************************)
(* Theorems about FileLocks, for any processes, descriptors, files, open    *)
(* file descriptions and table sizes.                                       *)
(***************************************************************************)
EXTENDS FileLocks, FiniteSetTheorems, WellFoundedInduction, TLAPS

FlagSets == FdFlags \cup {{}}
FdEntry == [slot : Slots, flags : FlagSets]
OfdEntry == [ofd : Ofds, refs : Nat \ {0}]

(* The descriptors of a table f on a slot, and the slots of a table o that   *)
(* refer to an OFD                                                           *)
On(f, s) == {fd \in DOMAIN f : f[fd].slot = s}
Sharing(o, d) == {s \in DOMAIN o : o[s].ofd = d}

(* The slots with more references than descriptors *)
Over(f, o) == {s \in DOMAIN o : o[s].refs # Cardinality(On(f, s))}

(* The tables f and o of one process, when K are the OFDs that exist and n   *)
(* opens have failed: each failure leaves at most one slot over-counted.     *)
TablesOK(f, o, K, n) ==
    /\ f \in [DOMAIN f -> FdEntry] /\ DOMAIN f \subseteq Fds
    /\ o \in [DOMAIN o -> OfdEntry] /\ DOMAIN o \subseteq Slots
    /\ \A fd \in DOMAIN f : f[fd].slot \in DOMAIN o
    /\ \A s \in DOMAIN o : o[s].ofd \in K /\ o[s].refs >= Cardinality(On(f, s))
    /\ Cardinality(Over(f, o)) <= n

(* Only a live process has descriptors, and only a zombie slots besides. *)
EmptyOK(st, f, o) ==
    /\ st # "live" => f = << >>
    /\ st \in {"unborn", "gone"} => o = << >>

TablesInv ==
    /\ proc \in [Procs -> {"unborn", "live", "zombie", "gone"}]
    /\ fileOf \in [DOMAIN fileOf -> Files] /\ DOMAIN fileOf \subseteq Ofds
    /\ failedOpens \in Nat /\ failedOpens <= MaxFailedOpens
    /\ DOMAIN fdt = Procs /\ fdt = [p \in Procs |-> fdt[p]]
    /\ DOMAIN ofdt = Procs /\ ofdt = [p \in Procs |-> ofdt[p]]
    /\ \A p \in Procs : /\ TablesOK(fdt[p], ofdt[p], DOMAIN fileOf, failedOpens)
                        /\ EmptyOK(proc[p], fdt[p], ofdt[p])

(* The counts of one handle, when R references to it exist *)
CountOK(known, R, refs, closes) ==
    /\ ~ known => R = 0 /\ refs = 0 /\ closes = 0
    /\ known /\ R = 0 => closes = 1 /\ refs = 0
    /\ known /\ R # 0 => closes = 0 /\ (refs = R \/ (refs = 0 /\ R = 1))

HandlesInv ==
    /\ hostRefs \in [Ofds -> Nat] /\ hostCloses \in [Ofds -> Nat]
    /\ inFlight \in [Ofds -> Nat] /\ \A d \in Ofds : inFlight[d] <= MaxInFlight
    /\ \A d \in Ofds : CountOK(d \in DOMAIN fileOf, References(d), hostRefs[d], hostCloses[d])

(* Locks in this module are on whole files. *)
Whole(recs) == \A r \in recs : r.start = 0 /\ r.end = Eof

Descends(f, o, fo, file) == \E fd \in DOMAIN f : fo[o[f[fd].slot].ofd] = file

OwnerOK(r) ==
    IF r.owner.kind = "Process"
    THEN r.owner.id \in Procs
            /\ Descends(fdt[r.owner.id], ofdt[r.owner.id], fileOf, r.file)
    ELSE /\ r.owner.id \in DOMAIN fileOf /\ fileOf[r.owner.id] = r.file
         /\ References(r.owner.id) # 0

LocksInv ==
    /\ records \subseteq Records /\ Whole(records)
    /\ \A r \in records : OwnerOK(r)

Requests == [proc : Procs, fd : Fds, kind : LockKinds, type : LockTypes, ofd : Ofds]

(* A request that is parked, and not about to be run again, still meets a    *)
(* conflict, or an event is queued.                                          *)
Conflict(y, r) == Blocks(y, fileOf[r.ofd], OwnerOf(r.proc, r.ofd, r.kind), r.type, WholeFile)
Waits(r) == \E y \in records : Conflict(y, r)

WaitersInv ==
    /\ wake \in BOOLEAN /\ parked \subseteq Requests /\ retrying \subseteq parked
    /\ \A r \in parked : proc[r.proc] = "live" /\ r.ofd \in DOMAIN fileOf
    /\ ~ wake => \A r \in parked \ retrying : Waits(r)

IInv == TablesInv /\ HandlesInv /\ LocksInv /\ WaitersInv

-----------------------------------------------------------------------------
(* Numbers and finite sets *)
LEMMA LeastIs ==
    ASSUME NEW S \in SUBSET Nat, S # {}
    PROVE  Min(S) \in S
<1> DEFINE R == {ss \in Nat \X Nat : ss[1] < ss[2]}
<1>1. IsWellFoundedOn(R, Nat)
    BY NatLessThanWellFounded, Zenon DEF OpToRel
<1>2. \A x, y \in Nat : ~ (<<y, x>> \in R) => x <= y
    OBVIOUS
<1> HIDE DEF R
<1>3. \E x \in S : \A y \in S : ~ (<<y, x>> \in R)
    BY <1>1, WFMin
<1>4. \E x \in S : \A y \in S : x <= y
    BY <1>2, <1>3
<1> QED BY <1>4 DEF Min

LEMMA FdsFinite ==
    IsFiniteSet(Fds) /\ Cardinality(Fds) \in Nat
BY FileLocksConstants, FS_CardinalityType

LEMMA SlotsFinite ==
    /\ IsFiniteSet(Slots) /\ Slots \subseteq Nat
    /\ Cardinality(Slots) = Cardinality(Fds) + MaxFailedOpens + 1
<1>1. Cardinality(Fds) + MaxFailedOpens \in Nat
    BY FdsFinite, FileLocksConstants
<1>2. Slots \subseteq Nat
    BY <1>1 DEF Slots
<1> QED BY <1>1, <1>2, FS_Interval DEF Slots

LEMMA Parts ==
    ASSUME NEW S, NEW T, IsFiniteSet(S), T \subseteq S
    PROVE  /\ IsFiniteSet(T) /\ Cardinality(T) \in Nat /\ Cardinality(S) \in Nat
           /\ Cardinality(T) <= Cardinality(S)
           /\ IsFiniteSet(S \ T) /\ Cardinality(S \ T) = Cardinality(S) - Cardinality(T)
           /\ Cardinality(T) = Cardinality(S) => T = S
           /\ Cardinality(T) = 0 <=> T = {}
<1>1. IsFiniteSet(T) /\ Cardinality(T) <= Cardinality(S) /\ (Cardinality(S) = Cardinality(T) => S = T)
    BY FS_Subset
<1>2. Cardinality(T) \in Nat /\ Cardinality(S) \in Nat
    BY <1>1, FS_CardinalityType
<1>3. S \cap T = T
    OBVIOUS
<1>4. IsFiniteSet(S \ T) /\ Cardinality(S \ T) = Cardinality(S) - Cardinality(T)
    BY <1>3, FS_Difference
<1>5. Cardinality(T) = 0 <=> T = {}
    BY <1>1, FS_EmptySet
<1> QED BY <1>1, <1>2, <1>4, <1>5

LEMMA OneMore ==
    ASSUME NEW S, IsFiniteSet(S), NEW x, x \notin S
    PROVE  /\ IsFiniteSet(S \cup {x}) /\ Cardinality(S \cup {x}) = Cardinality(S) + 1
           /\ Cardinality(S) \in Nat
BY FS_AddElement, FS_CardinalityType

-----------------------------------------------------------------------------
(* The tables of one process *)
LEMMA TablesFinite ==
    ASSUME NEW f, NEW o, NEW K, NEW n, TablesOK(f, o, K, n)
    PROVE  /\ IsFiniteSet(DOMAIN f) /\ IsFiniteSet(DOMAIN o)
           /\ \A s : /\ IsFiniteSet(On(f, s)) /\ Cardinality(On(f, s)) \in Nat
                     /\ Cardinality(On(f, s)) = 0 <=> On(f, s) = {}
           /\ IsFiniteSet(Over(f, o)) /\ Cardinality(Over(f, o)) \in Nat
<1>1. IsFiniteSet(DOMAIN f) /\ IsFiniteSet(DOMAIN o)
    BY FdsFinite, SlotsFinite, FS_Subset DEF TablesOK
<1>2. ASSUME NEW s
      PROVE  /\ IsFiniteSet(On(f, s)) /\ Cardinality(On(f, s)) \in Nat
             /\ Cardinality(On(f, s)) = 0 <=> On(f, s) = {}
  <2>1. On(f, s) \subseteq DOMAIN f
    BY DEF On
  <2> QED BY <1>1, <2>1, Parts
<1>3. Over(f, o) \subseteq DOMAIN o
    BY DEF Over
<1>4. IsFiniteSet(Over(f, o)) /\ Cardinality(Over(f, o)) \in Nat
    BY <1>1, <1>3, Parts
<1> QED BY <1>1, <1>2, <1>4

(* There is always a free slot. *)
LEMMA RoomForOne ==
    ASSUME NEW f, NEW o, NEW K, NEW n \in Nat, TablesOK(f, o, K, n), n <= MaxFailedOpens
    PROVE  Min(Slots \ DOMAIN o) \in Slots \ DOMAIN o
<1> DEFINE used == {s \in DOMAIN o : On(f, s) # {}}
           slotOf == [fd \in DOMAIN f |-> f[fd].slot]
           over == Over(f, o)
<1>1. /\ IsFiniteSet(DOMAIN f) /\ IsFiniteSet(DOMAIN o) /\ IsFiniteSet(over)
      /\ Cardinality(over) \in Nat /\ Cardinality(over) <= n
      /\ \A s : Cardinality(On(f, s)) = 0 <=> On(f, s) = {}
    BY TablesFinite DEF TablesOK
<1>2. Cardinality(DOMAIN f) <= Cardinality(Fds) /\ Cardinality(DOMAIN f) \in Nat
    BY FdsFinite, Parts DEF TablesOK
<1>3. IsFiniteSet(used) /\ Cardinality(used) <= Cardinality(DOMAIN f)
  <2>1. slotOf \in Surjection(DOMAIN f, used)
    BY DEF Surjection, On, TablesOK
  <2> QED BY <1>1, <2>1, FS_Surjection
<1>4. DOMAIN o \subseteq used \cup over
    BY <1>1 DEF Over, TablesOK, OfdEntry
<1>5. /\ IsFiniteSet(used \cup over)
      /\ Cardinality(used \cup over) = Cardinality(used) + Cardinality(over) - Cardinality(used \cap over)
    BY <1>1, <1>3, FS_Union
<1>6. Cardinality(used) \in Nat /\ Cardinality(used \cap over) \in Nat /\ Cardinality(DOMAIN o) \in Nat
    BY <1>1, <1>3, FS_CardinalityType, FS_Intersection
<1>7. Cardinality(DOMAIN o) <= Cardinality(used \cup over)
    BY <1>4, <1>5, FS_Subset
<1>8. Slots \ DOMAIN o # {}
  <2>1. DOMAIN o \subseteq Slots
    BY DEF TablesOK
  <2>2. CASE Slots = DOMAIN o
    <3> HIDE DEF used, over
    <3>1. Cardinality(DOMAIN o) = Cardinality(Fds) + MaxFailedOpens + 1
        BY <2>2, SlotsFinite
    <3> QED BY <1>1, <1>2, <1>3, <1>5, <1>6, <1>7, <3>1, FdsFinite, FileLocksConstants
  <2> QED BY <2>1, <2>2
<1>9. Slots \ DOMAIN o \in SUBSET Nat
    BY SlotsFinite
<1> QED BY <1>8, <1>9, LeastIs

(* What one more descriptor on a slot does to the counts *)
LEMMA OnWith ==
    ASSUME NEW f, NEW k, NEW e, k \notin DOMAIN f, NEW s
    PROVE  On(With(f, k, e), s) = IF s = e.slot THEN On(f, s) \cup {k} ELSE On(f, s)
BY DEF On, With

(* Open and Receive: a new slot with a new descriptor *)
LEMMA AddBoth ==
    ASSUME NEW f, NEW o, NEW K, NEW n \in Nat, TablesOK(f, o, K, n),
           NEW fd \in Fds, fd \notin DOMAIN f, NEW s \in Slots, s \notin DOMAIN o,
           NEW d \in Ofds, d \in K, NEW flags \in FlagSets
    PROVE  LET e == [slot |-> s, flags |-> flags]
               g == [ofd |-> d, refs |-> 1]
           IN  TablesOK(With(f, fd, e), With(o, s, g), K, n)
<1> DEFINE e == [slot |-> s, flags |-> flags]
           g == [ofd |-> d, refs |-> 1]
           f2 == With(f, fd, e)
           o2 == With(o, s, g)
<1>1. e \in FdEntry /\ g \in OfdEntry /\ e.slot = s /\ g.ofd = d /\ g.refs = 1
    BY DEF FdEntry, OfdEntry
<1> HIDE DEF e, g
<1>2. /\ DOMAIN f2 = DOMAIN f \cup {fd} /\ f2[fd] = e /\ \A x \in DOMAIN f : f2[x] = f[x]
      /\ DOMAIN o2 = DOMAIN o \cup {s} /\ o2[s] = g /\ \A x \in DOMAIN o : o2[x] = o[x]
    BY DEF With
<1>3. f2 \in [DOMAIN f2 -> FdEntry] /\ o2 \in [DOMAIN o2 -> OfdEntry]
    BY <1>1 DEF With, TablesOK
<1>4. /\ On(f2, s) = {fd} /\ Cardinality(On(f2, s)) = 1
      /\ \A x \in DOMAIN o : On(f2, x) = On(f, x)
  <2>1. \A x : On(f2, x) = IF x = s THEN On(f, x) \cup {fd} ELSE On(f, x)
    BY <1>1, OnWith
  <2>2. On(f, s) = {}
    BY DEF On, TablesOK
  <2>3. Cardinality({fd}) = 1
    BY FS_Singleton
  <2> QED BY <2>1, <2>2, <2>3
<1> HIDE DEF f2, o2
<1>5. Over(f2, o2) = Over(f, o)
    BY <1>1, <1>2, <1>4 DEF Over
<1>6. \A x \in DOMAIN f2 : f2[x].slot \in DOMAIN o2
    BY <1>1, <1>2 DEF TablesOK
<1>7. \A x \in DOMAIN o2 : o2[x].ofd \in K /\ o2[x].refs >= Cardinality(On(f2, x))
  <2>1. \A x \in DOMAIN o : o[x].ofd \in K /\ o[x].refs >= Cardinality(On(f, x))
    BY DEF TablesOK
  <2>2. ASSUME NEW x \in DOMAIN o
        PROVE  o2[x].ofd \in K /\ o2[x].refs >= Cardinality(On(f2, x))
    BY <1>2, <1>4, <2>1
  <2>3. o2[s].ofd \in K /\ o2[s].refs >= Cardinality(On(f2, s))
    BY <1>1, <1>2, <1>4
  <2> QED BY <1>2, <2>2, <2>3
<1>8. DOMAIN f2 \subseteq Fds /\ DOMAIN o2 \subseteq Slots /\ Cardinality(Over(f2, o2)) <= n
    BY <1>2, <1>5 DEF TablesOK
<1> QED BY <1>3, <1>6, <1>7, <1>8 DEF TablesOK, f2, o2, e, g

(* A failed open leaves a slot that no descriptor reaches. *)
LEMMA AddSlot ==
    ASSUME NEW f, NEW o, NEW K, NEW n \in Nat, TablesOK(f, o, K, n),
           NEW s \in Slots, s \notin DOMAIN o, NEW d \in Ofds, d \in K
    PROVE  TablesOK(f, With(o, s, [ofd |-> d, refs |-> 1]), K, n + 1)
<1> DEFINE g == [ofd |-> d, refs |-> 1]
           o2 == With(o, s, g)
<1>1. g \in OfdEntry /\ g.ofd = d /\ g.refs = 1
    BY DEF OfdEntry
<1> HIDE DEF g
<1>2. DOMAIN o2 = DOMAIN o \cup {s} /\ o2[s] = g /\ \A x \in DOMAIN o : o2[x] = o[x]
    BY DEF With
<1>3. o2 \in [DOMAIN o2 -> OfdEntry]
    BY <1>1 DEF With, TablesOK
<1>4. On(f, s) = {} /\ Cardinality(On(f, s)) = 0
    BY FS_EmptySet DEF On, TablesOK
<1> HIDE DEF o2
<1>5. Over(f, o2) = Over(f, o) \cup {s} /\ s \notin Over(f, o)
    BY <1>1, <1>2, <1>4 DEF Over
<1>6. Cardinality(Over(f, o2)) <= n + 1
  <2>1. Cardinality(Over(f, o2)) = Cardinality(Over(f, o)) + 1
    BY <1>5, OneMore, TablesFinite
  <2>2. Cardinality(Over(f, o)) \in Nat /\ Cardinality(Over(f, o)) <= n
    BY TablesFinite DEF TablesOK
  <2> QED BY <2>1, <2>2
<1>7. \A x \in DOMAIN o2 : o2[x].ofd \in K /\ o2[x].refs >= Cardinality(On(f, x))
  <2>1. \A x \in DOMAIN o : o[x].ofd \in K /\ o[x].refs >= Cardinality(On(f, x))
    BY DEF TablesOK
  <2>2. o2[s].ofd \in K /\ o2[s].refs >= Cardinality(On(f, s))
    BY <1>1, <1>2, <1>4
  <2> QED BY <1>2, <2>1, <2>2
<1> QED BY <1>2, <1>3, <1>6, <1>7 DEF TablesOK, o2, g

More(o, s) == [o EXCEPT ![s].refs = @ + 1]

LEMMA MoreIs ==
    ASSUME NEW o, o \in [DOMAIN o -> OfdEntry], NEW s \in DOMAIN o
    PROVE  /\ DOMAIN More(o, s) = DOMAIN o /\ More(o, s) \in [DOMAIN o -> OfdEntry]
           /\ More(o, s)[s].refs = o[s].refs + 1 /\ o[s].refs \in Nat \ {0}
           /\ \A x \in DOMAIN o : More(o, s)[x].ofd = o[x].ofd /\ (x # s => More(o, s)[x] = o[x])
BY DEF More, OfdEntry

(* Dup and Dup3: one more descriptor on a slot *)
LEMMA MoreBoth ==
    ASSUME NEW f, NEW o, NEW K, NEW n \in Nat, TablesOK(f, o, K, n),
           NEW fd \in Fds, fd \notin DOMAIN f, NEW s \in DOMAIN o, NEW flags \in FlagSets
    PROVE  LET e == [slot |-> s, flags |-> flags]
           IN  TablesOK(With(f, fd, e), More(o, s), K, n)
<1> DEFINE e == [slot |-> s, flags |-> flags]
           f2 == With(f, fd, e)
           o2 == More(o, s)
<1>1. e \in FdEntry /\ e.slot = s
    BY DEF FdEntry, TablesOK
<1> HIDE DEF e
<1>2. DOMAIN f2 = DOMAIN f \cup {fd} /\ f2[fd] = e /\ \A x \in DOMAIN f : f2[x] = f[x]
    BY DEF With
<1>3. f2 \in [DOMAIN f2 -> FdEntry]
    BY <1>1 DEF With, TablesOK
<1>4. /\ DOMAIN o2 = DOMAIN o /\ o2 \in [DOMAIN o -> OfdEntry]
      /\ o2[s].refs = o[s].refs + 1 /\ o[s].refs \in Nat
      /\ \A x \in DOMAIN o : o2[x].ofd = o[x].ofd /\ (x # s => o2[x] = o[x])
    BY MoreIs DEF TablesOK
<1>5. /\ Cardinality(On(f2, s)) = Cardinality(On(f, s)) + 1 /\ Cardinality(On(f, s)) \in Nat
      /\ \A x : x # s => On(f2, x) = On(f, x)
  <2>1. \A x : On(f2, x) = IF x = s THEN On(f, x) \cup {fd} ELSE On(f, x)
    BY <1>1, OnWith
  <2>2. fd \notin On(f, s) /\ IsFiniteSet(On(f, s)) /\ Cardinality(On(f, s)) \in Nat
    BY TablesFinite DEF On
  <2>3. Cardinality(On(f, s) \cup {fd}) = Cardinality(On(f, s)) + 1
    BY <2>2, OneMore
  <2> QED BY <2>1, <2>2, <2>3
<1> HIDE DEF f2, o2
<1>6. \A x \in DOMAIN o : (o2[x].refs # Cardinality(On(f2, x))) <=> (o[x].refs # Cardinality(On(f, x)))
    BY <1>4, <1>5
<1>7. Over(f2, o2) = Over(f, o)
    BY <1>4, <1>6 DEF Over
<1>8. \A x \in DOMAIN f2 : f2[x].slot \in DOMAIN o2
    BY <1>1, <1>2, <1>4 DEF TablesOK
<1>9. \A x \in DOMAIN o2 : o2[x].ofd \in K /\ o2[x].refs >= Cardinality(On(f2, x))
  <2>1. \A x \in DOMAIN o : o[x].ofd \in K /\ o[x].refs >= Cardinality(On(f, x))
    BY DEF TablesOK
  <2> QED BY <1>4, <1>5, <2>1
<1>10. DOMAIN f2 \subseteq Fds /\ DOMAIN o2 \subseteq Slots /\ Cardinality(Over(f2, o2)) <= n
    BY <1>2, <1>4, <1>7 DEF TablesOK
<1> QED BY <1>3, <1>4, <1>8, <1>9, <1>10 DEF TablesOK, f2, o2, e

(* A failed open of /dev/fd/N leaves a reference behind. *)
LEMMA MoreRefs ==
    ASSUME NEW f, NEW o, NEW K, NEW n \in Nat, TablesOK(f, o, K, n), NEW s \in DOMAIN o
    PROVE  TablesOK(f, More(o, s), K, n + 1)
<1> DEFINE o2 == More(o, s)
<1>1. /\ DOMAIN o2 = DOMAIN o /\ o2 \in [DOMAIN o -> OfdEntry]
      /\ o2[s].refs = o[s].refs + 1 /\ o[s].refs \in Nat
      /\ \A x \in DOMAIN o : o2[x].ofd = o[x].ofd /\ (x # s => o2[x] = o[x])
    BY MoreIs DEF TablesOK
<1> HIDE DEF o2
<1>2. Over(f, o2) \subseteq Over(f, o) \cup {s}
    BY <1>1 DEF Over
<1>3. Cardinality(Over(f, o2)) <= n + 1
  <2>1. IsFiniteSet(Over(f, o)) /\ Cardinality(Over(f, o)) \in Nat /\ Cardinality(Over(f, o)) <= n
    BY TablesFinite DEF TablesOK
  <2>2. /\ IsFiniteSet(Over(f, o) \cup {s})
        /\ Cardinality(Over(f, o) \cup {s}) =
              IF s \in Over(f, o) THEN Cardinality(Over(f, o)) ELSE Cardinality(Over(f, o)) + 1
    BY <2>1, FS_AddElement
  <2>3. /\ Cardinality(Over(f, o2)) \in Nat
        /\ Cardinality(Over(f, o2)) <= Cardinality(Over(f, o) \cup {s})
    <3> DEFINE S == Over(f, o) \cup {s}
               T == Over(f, o2)
    <3>1. IsFiniteSet(S) /\ T \subseteq S
        BY <1>2, <2>2
    <3> HIDE DEF S, T
    <3>2. Cardinality(T) \in Nat /\ Cardinality(T) <= Cardinality(S)
        BY <3>1, Parts
    <3> QED BY <3>2 DEF S, T
  <2> QED BY <2>1, <2>2, <2>3
<1>4. \A x \in DOMAIN o2 : o2[x].ofd \in K /\ o2[x].refs >= Cardinality(On(f, x))
  <2>1. \A x \in DOMAIN o : o[x].ofd \in K /\ o[x].refs >= Cardinality(On(f, x))
    BY DEF TablesOK
  <2>2. Cardinality(On(f, s)) \in Nat
    BY TablesFinite
  <2> QED BY <1>1, <2>1, <2>2
<1> QED BY <1>1, <1>3, <1>4 DEF TablesOK, o2

(* Tables do not break when an OFD is made or an open fails elsewhere. *)
LEMMA TablesLater ==
    ASSUME NEW f, NEW o, NEW K, NEW n \in Nat, TablesOK(f, o, K, n),
           NEW L, K \subseteq L, NEW m \in Nat, n <= m
    PROVE  TablesOK(f, o, L, m)
<1>1. Cardinality(Over(f, o)) \in Nat /\ Cardinality(Over(f, o)) <= n
    BY TablesFinite DEF TablesOK
<1>2. Cardinality(Over(f, o)) <= m
    BY <1>1
<1> QED BY <1>2 DEF TablesOK

LEMMA TablesEmpty ==
    ASSUME NEW K, NEW n \in Nat
    PROVE  TablesOK(<< >>, << >>, K, n)
<1>1. DOMAIN << >> = {} /\ << >> \in [{} -> FdEntry] /\ << >> \in [{} -> OfdEntry]
    OBVIOUS
<1>2. Over(<< >>, << >>) = {}
    BY <1>1 DEF Over
<1> QED BY <1>1, <1>2, FS_EmptySet DEF TablesOK

(* Closing descriptors: FreedSlots, FdsLeft and SlotsLeft on tables f and o *)
Freed(f, o, gone) ==
    {s \in DOMAIN o : /\ On(f, s) \cap gone # {}
                      /\ o[s].refs = Cardinality(On(f, s) \cap gone)}
LeftFds(f, gone) == Restrict(f, DOMAIN f \ gone)
LeftSlots(f, o, gone) ==
    [s \in DOMAIN o \ Freed(f, o, gone) |->
        [o[s] EXCEPT !.refs = @ - Cardinality(On(f, s) \cap gone)]]

LEMMA ClosingIs ==
    ASSUME NEW p, NEW gone
    PROVE  /\ \A s : FdsOn(p, s) = On(fdt[p], s)
           /\ FreedSlots(p, gone) = Freed(fdt[p], ofdt[p], gone)
           /\ FdsLeft(p, gone) = LeftFds(fdt[p], gone)
           /\ SlotsLeft(p, gone) = LeftSlots(fdt[p], ofdt[p], gone)
<1>1. \A s : FdsOn(p, s) = On(fdt[p], s)
    BY DEF FdsOn, On
<1>2. \A s : ClosedOn(p, gone, s) = On(fdt[p], s) \cap gone
    BY <1>1 DEF ClosedOn
<1>3. FreedSlots(p, gone) = Freed(fdt[p], ofdt[p], gone)
    BY <1>2 DEF FreedSlots, Freed
<1>4. FdsLeft(p, gone) = LeftFds(fdt[p], gone)
    BY DEF FdsLeft, LeftFds
<1>5. SlotsLeft(p, gone) = LeftSlots(fdt[p], ofdt[p], gone)
    BY <1>2, <1>3 DEF SlotsLeft, LeftSlots
<1> QED BY <1>1, <1>3, <1>4, <1>5

(* The counts of one slot when some of its descriptors are closed *)
LEMMA ClosedCount ==
    ASSUME NEW f, NEW o, NEW K, NEW n, TablesOK(f, o, K, n), NEW gone, NEW s \in DOMAIN o
    PROVE  LET c == Cardinality(On(f, s) \cap gone)
               u == Cardinality(On(f, s))
           IN  /\ c \in Nat /\ u \in Nat /\ c <= u /\ o[s].refs \in Nat \ {0} /\ u <= o[s].refs
               /\ Cardinality(On(f, s) \ gone) = u - c
               /\ c = 0 <=> On(f, s) \cap gone = {}
               /\ c = u => On(f, s) \subseteq gone
<1> DEFINE A == On(f, s)
           B == On(f, s) \cap gone
<1>1. IsFiniteSet(A) /\ B \subseteq A /\ A \ B = A \ gone
    BY TablesFinite
<1>2. o[s].refs \in Nat \ {0} /\ Cardinality(A) <= o[s].refs
  <2>1. o[s] \in OfdEntry /\ o[s].refs >= Cardinality(A)
    BY DEF TablesOK
  <2>2. Cardinality(A) \in Nat
    BY TablesFinite
  <2> QED BY <2>1, <2>2 DEF OfdEntry
<1> HIDE DEF A, B
<1>3. /\ Cardinality(B) \in Nat /\ Cardinality(A) \in Nat /\ Cardinality(B) <= Cardinality(A)
      /\ Cardinality(A \ B) = Cardinality(A) - Cardinality(B)
      /\ Cardinality(B) = Cardinality(A) => B = A
      /\ Cardinality(B) = 0 <=> B = {}
    BY <1>1, Parts
<1> QED BY <1>1, <1>2, <1>3 DEF A, B

LEMMA CloseTables ==
    ASSUME NEW f, NEW o, NEW K, NEW n \in Nat, TablesOK(f, o, K, n), NEW gone
    PROVE  TablesOK(LeftFds(f, gone), LeftSlots(f, o, gone), K, n)
<1> DEFINE f2 == LeftFds(f, gone)
           o2 == LeftSlots(f, o, gone)
           freed == Freed(f, o, gone)
           C(s) == Cardinality(On(f, s) \cap gone)
<1>1. DOMAIN f2 = DOMAIN f \ gone /\ \A x \in DOMAIN f \ gone : f2[x] = f[x]
    BY DEF LeftFds, Restrict
<1>2. f2 \in [DOMAIN f2 -> FdEntry] /\ DOMAIN f2 \subseteq Fds
    BY DEF LeftFds, Restrict, TablesOK
<1>3. \A s : On(f2, s) = On(f, s) \ gone
    BY <1>1 DEF On
<1>4. DOMAIN o2 = DOMAIN o \ freed
    BY DEF LeftSlots
<1>5. ASSUME NEW s \in DOMAIN o \ freed
      PROVE  /\ o2[s] \in OfdEntry /\ o2[s].ofd = o[s].ofd
             /\ o2[s].refs = o[s].refs - C(s)
             /\ o2[s].refs >= Cardinality(On(f2, s))
             /\ (o2[s].refs # Cardinality(On(f2, s))) <=> (o[s].refs # Cardinality(On(f, s)))
  <2>1. o2[s] = [o[s] EXCEPT !.refs = @ - C(s)]
    BY DEF LeftSlots
  <2>2. o[s] \in OfdEntry
    BY DEF TablesOK
  <2>3. o2[s].ofd = o[s].ofd /\ o2[s].refs = o[s].refs - C(s) /\ o2[s] = [ofd |-> o[s].ofd, refs |-> o[s].refs - C(s)]
    BY <2>1, <2>2 DEF OfdEntry
  <2>4. /\ C(s) \in Nat /\ Cardinality(On(f, s)) \in Nat /\ C(s) <= Cardinality(On(f, s))
        /\ o[s].refs \in Nat \ {0} /\ Cardinality(On(f, s)) <= o[s].refs
        /\ Cardinality(On(f, s) \ gone) = Cardinality(On(f, s)) - C(s)
        /\ C(s) = 0 <=> On(f, s) \cap gone = {}
    BY ClosedCount
  <2>5. C(s) = 0 \/ o[s].refs # C(s)
    BY <2>4 DEF Freed
  <2>6. o[s].refs - C(s) \in Nat \ {0}
    BY <2>4, <2>5
  <2>7. o2[s] \in OfdEntry
    BY <2>2, <2>3, <2>6 DEF OfdEntry
  <2> QED BY <1>3, <2>3, <2>4, <2>7
<1>6. o2 \in [DOMAIN o2 -> OfdEntry]
  <2>1. o2 = [s \in DOMAIN o2 |-> o2[s]]
    BY DEF LeftSlots
  <2> QED BY <1>4, <1>5, <2>1
<1>7. \A x \in DOMAIN f2 : f2[x].slot \in DOMAIN o2
  <2> SUFFICES ASSUME NEW x \in DOMAIN f2 PROVE f2[x].slot \in DOMAIN o2
    OBVIOUS
  <2>1. x \in DOMAIN f /\ x \notin gone /\ f2[x] = f[x] /\ f[x].slot \in DOMAIN o /\ x \in On(f, f[x].slot)
    BY <1>1 DEF TablesOK, On
  <2>2. ASSUME NEW s \in DOMAIN o, x \in On(f, s) PROVE s \notin freed
    <3>1. ~ (On(f, s) \subseteq gone)
        BY <2>1, <2>2
    <3>2. /\ C(s) \in Nat /\ Cardinality(On(f, s)) \in Nat /\ C(s) <= Cardinality(On(f, s))
          /\ o[s].refs \in Nat /\ Cardinality(On(f, s)) <= o[s].refs
          /\ C(s) = Cardinality(On(f, s)) => On(f, s) \subseteq gone
        BY ClosedCount
    <3>3. o[s].refs # C(s)
        BY <3>1, <3>2
    <3> QED BY <3>3 DEF Freed
  <2> QED BY <1>4, <2>1, <2>2
<1> HIDE DEF f2, o2, freed, C
<1>8. Over(f2, o2) \subseteq Over(f, o)
    BY <1>4, <1>5 DEF Over
<1>9. Cardinality(Over(f2, o2)) <= n
  <2>1. IsFiniteSet(Over(f, o)) /\ Cardinality(Over(f, o)) \in Nat /\ Cardinality(Over(f, o)) <= n
    BY TablesFinite DEF TablesOK
  <2>2. Cardinality(Over(f2, o2)) \in Nat /\ Cardinality(Over(f2, o2)) <= Cardinality(Over(f, o))
    BY <1>8, <2>1, Parts
  <2> QED BY <2>1, <2>2
<1>10. DOMAIN o2 \subseteq Slots /\ \A x \in DOMAIN o2 : o2[x].ofd \in K
    BY <1>4, <1>5 DEF TablesOK
<1>11. TablesOK(f2, o2, K, n)
    BY <1>2, <1>4, <1>5, <1>6, <1>7, <1>9, <1>10 DEF TablesOK
<1> QED BY <1>11 DEF f2, o2

LEMMA LeftSlotsIs ==
    ASSUME NEW f, NEW o, NEW K, NEW n, TablesOK(f, o, K, n), NEW gone,
           NEW s \in DOMAIN LeftSlots(f, o, gone)
    PROVE  LeftSlots(f, o, gone)[s].ofd = o[s].ofd
<1>1. s \in DOMAIN o \ Freed(f, o, gone) /\ o[s] \in OfdEntry
    BY DEF LeftSlots, TablesOK
<1> QED BY <1>1 DEF LeftSlots, OfdEntry

(* A descriptor that stays keeps its slot. *)
LEMMA KeptSlot ==
    ASSUME NEW f, NEW o, NEW K, NEW n \in Nat, TablesOK(f, o, K, n), NEW gone,
           NEW x \in DOMAIN f, x \notin gone
    PROVE  /\ x \in DOMAIN LeftFds(f, gone) /\ LeftFds(f, gone)[x] = f[x]
           /\ f[x].slot \in DOMAIN LeftSlots(f, o, gone)
           /\ LeftSlots(f, o, gone)[f[x].slot].ofd = o[f[x].slot].ofd
<1> DEFINE f2 == LeftFds(f, gone)
           o2 == LeftSlots(f, o, gone)
<1>1. TablesOK(f2, o2, K, n)
    BY CloseTables
<1>2. x \in DOMAIN f2 /\ f2[x] = f[x]
    BY DEF LeftFds, Restrict
<1>3. ASSUME NEW s \in DOMAIN o2 PROVE o2[s].ofd = o[s].ofd
    BY LeftSlotsIs
<1> HIDE DEF f2, o2
<1>4. f2[x].slot \in DOMAIN o2
    BY <1>1, <1>2 DEF TablesOK
<1> QED BY <1>2, <1>3, <1>4 DEF f2, o2

-----------------------------------------------------------------------------
(* References to an OFD, for a function T of slot tables *)
HoldersIn(T, d) == {h \in Procs \X Slots : h[2] \in Sharing(T[h[1]], d)}
RefsIn(T, i, d) == i[d] + Cardinality(HoldersIn(T, d))

LEMMA ReferencesIs ==
    ASSUME NEW d
    PROVE  /\ References(d) = RefsIn(ofdt, inFlight, d)
           /\ References(d)' = RefsIn(ofdt', inFlight', d)
<1>1. \A p : SlotsOf(p, d) = Sharing(ofdt[p], d)
    BY DEF SlotsOf, Sharing
<1>2. \A p : SlotsOf(p, d)' = Sharing(ofdt'[p], d)
    BY DEF SlotsOf, Sharing
<1>3. Holders(d) = HoldersIn(ofdt, d)
    BY <1>1 DEF Holders, HoldersIn
<1>4. Holders(d)' = HoldersIn(ofdt', d)
    BY <1>2 DEF Holders, HoldersIn
<1> QED BY <1>3, <1>4 DEF References, RefsIn

(* Slot tables of all processes *)
SlotTables(T) == \A p \in Procs : DOMAIN T[p] \subseteq Slots

LEMMA SharingFinite ==
    ASSUME NEW T, SlotTables(T), NEW p \in Procs, NEW d
    PROVE  IsFiniteSet(Sharing(T[p], d)) /\ Cardinality(Sharing(T[p], d)) \in Nat
<1> DEFINE S == Sharing(T[p], d)
<1>1. S \subseteq Slots
    BY DEF Sharing, SlotTables
<1> HIDE DEF S
<1>2. IsFiniteSet(S) /\ Cardinality(S) \in Nat
    BY <1>1, SlotsFinite, Parts
<1> QED BY <1>2 DEF S

LEMMA Paired ==
    ASSUME NEW p, NEW S, IsFiniteSet(S)
    PROVE  IsFiniteSet({p} \X S) /\ Cardinality({p} \X S) = Cardinality(S)
<1>1. IsFiniteSet({p}) /\ Cardinality({p}) = 1
    BY FS_Singleton
<1>2. Cardinality({p} \X S) = Cardinality({p}) * Cardinality(S) /\ IsFiniteSet({p} \X S)
    BY <1>1, FS_Product
<1>3. Cardinality(S) \in Nat
    BY FS_CardinalityType
<1> QED BY <1>1, <1>2, <1>3

(* The references are those of the other processes and those of one. *)
Elsewhere(T, p, d) == {h \in HoldersIn(T, d) : h[1] # p}

LEMMA HoldersSplit ==
    ASSUME NEW T, SlotTables(T), NEW p \in Procs, NEW d
    PROVE  /\ Cardinality(HoldersIn(T, d)) =
                 Cardinality(Elsewhere(T, p, d)) + Cardinality(Sharing(T[p], d))
           /\ Cardinality(Elsewhere(T, p, d)) \in Nat
           /\ Cardinality(HoldersIn(T, d)) \in Nat
           /\ Cardinality(Elsewhere(T, p, d)) = 0 <=> \A q \in Procs \ {p} : Sharing(T[q], d) = {}
<1> DEFINE A == Elsewhere(T, p, d)
           S == Sharing(T[p], d)
<1>1. HoldersIn(T, d) = A \cup ({p} \X S) /\ A \cap ({p} \X S) = {}
  <2>1. S \subseteq Slots
    BY DEF Sharing, SlotTables
  <2> QED BY <2>1 DEF Elsewhere, HoldersIn
<1>2. IsFiniteSet(Procs \X Slots)
    BY FileLocksConstants, SlotsFinite, FS_Product
<1>3. A \subseteq Procs \X Slots /\ HoldersIn(T, d) \subseteq Procs \X Slots
    BY DEF Elsewhere, HoldersIn
<1> DEFINE B == {p} \X S
           H == HoldersIn(T, d)
<1> HIDE DEF A, H
<1>4. /\ IsFiniteSet(A) /\ Cardinality(A) \in Nat /\ (Cardinality(A) = 0 <=> A = {})
      /\ Cardinality(H) \in Nat
  <2>1. IsFiniteSet(A) /\ Cardinality(A) \in Nat /\ (Cardinality(A) = 0 <=> A = {})
    BY <1>2, <1>3, Parts
  <2>2. Cardinality(H) \in Nat
    BY <1>2, <1>3, Parts DEF H
  <2> QED BY <2>1, <2>2
<1>5. IsFiniteSet(B) /\ Cardinality(B) = Cardinality(S) /\ Cardinality(S) \in Nat
    BY SharingFinite, Paired
<1>6. H = A \cup B /\ A \cap B = {}
    BY <1>1 DEF A, H
<1>7. A = {} <=> \A q \in Procs \ {p} : Sharing(T[q], d) = {}
  <2>1. ASSUME A = {}, NEW q \in Procs \ {p}, NEW s \in Sharing(T[q], d) PROVE FALSE
    <3>1. s \in Slots
        BY DEF Sharing, SlotTables
    <3>2. <<q, s>> \in A
        BY <3>1 DEF A, Elsewhere, HoldersIn
    <3> QED BY <2>1, <3>2
  <2>2. ASSUME \A q \in Procs \ {p} : Sharing(T[q], d) = {}, NEW h \in A PROVE FALSE
    <3>1. h[1] \in Procs \ {p} /\ h[2] \in Sharing(T[h[1]], d)
        BY DEF A, Elsewhere, HoldersIn
    <3> QED BY <2>2, <3>1
  <2> QED BY <2>1, <2>2
<1> HIDE DEF B, S
<1>8. Cardinality(H) = Cardinality(A) + Cardinality(B) - Cardinality(A \cap B)
    BY <1>4, <1>5, <1>6, FS_Union
<1>9. Cardinality(A \cap B) = 0
    BY <1>6, FS_EmptySet
<1>10. Cardinality(H) = Cardinality(A) + Cardinality(S)
    BY <1>4, <1>5, <1>8, <1>9
<1> QED BY <1>4, <1>7, <1>10 DEF A, S, H

(* What a change of one process's slots does to the references *)
LEMMA RefsStep ==
    ASSUME NEW T, SlotTables(T), NEW U, SlotTables(U), NEW p \in Procs, NEW d,
           \A q \in Procs : q # p => U[q] = T[q]
    PROVE  Cardinality(HoldersIn(U, d)) =
              Cardinality(HoldersIn(T, d)) - Cardinality(Sharing(T[p], d)) + Cardinality(Sharing(U[p], d))
<1>3. Elsewhere(U, p, d) = Elsewhere(T, p, d)
  <2>1. \A h \in Procs \X Slots : h[1] # p => U[h[1]] = T[h[1]]
    OBVIOUS
  <2> QED BY <2>1 DEF Elsewhere, HoldersIn
<1>4. /\ Cardinality(HoldersIn(U, d)) =
            Cardinality(Elsewhere(U, p, d)) + Cardinality(Sharing(U[p], d))
      /\ Cardinality(Elsewhere(U, p, d)) \in Nat
    BY HoldersSplit
<1>5. Cardinality(HoldersIn(T, d)) = Cardinality(Elsewhere(T, p, d)) + Cardinality(Sharing(T[p], d))
    BY HoldersSplit
<1>6. Cardinality(Sharing(T[p], d)) \in Nat /\ Cardinality(Sharing(U[p], d)) \in Nat
    BY SharingFinite
<1> QED BY <1>3, <1>4, <1>5, <1>6

-----------------------------------------------------------------------------
(* What a step does to the slots of one process that share an OFD *)
LEMMA SharingWith ==
    ASSUME NEW o, NEW s, s \notin DOMAIN o, NEW e, NEW c, NEW d,
           IsFiniteSet(Sharing(o, d)), Cardinality(Sharing(o, d)) \in Nat
    PROVE  Cardinality(Sharing(With(o, s, [ofd |-> e, refs |-> c]), d)) =
              Cardinality(Sharing(o, d)) + (IF d = e THEN 1 ELSE 0)
<1> DEFINE o2 == With(o, s, [ofd |-> e, refs |-> c])
<1>1. Sharing(o2, d) = IF d = e THEN Sharing(o, d) \cup {s} ELSE Sharing(o, d)
    BY DEF Sharing, With
<1>2. s \notin Sharing(o, d)
    BY DEF Sharing
<1> HIDE DEF o2
<1>3. Cardinality(Sharing(o, d) \cup {s}) = Cardinality(Sharing(o, d)) + 1
    BY <1>2, OneMore
<1> QED BY <1>1, <1>3 DEF o2

LEMMA SharingMore ==
    ASSUME NEW f, NEW o, NEW K, NEW n, TablesOK(f, o, K, n), NEW s \in DOMAIN o, NEW d
    PROVE  Sharing(More(o, s), d) = Sharing(o, d)
<1>1. o \in [DOMAIN o -> OfdEntry]
    BY DEF TablesOK
<1>2. DOMAIN More(o, s) = DOMAIN o /\ \A x \in DOMAIN o : More(o, s)[x].ofd = o[x].ofd
    BY <1>1, MoreIs
<1> QED BY <1>2 DEF Sharing

LEMMA SharingLeft ==
    ASSUME NEW f, NEW o, NEW K, NEW n, TablesOK(f, o, K, n), NEW gone, NEW d,
           IsFiniteSet(Sharing(o, d))
    PROVE  /\ Cardinality(Sharing(LeftSlots(f, o, gone), d)) =
                 Cardinality(Sharing(o, d)) - Cardinality(Sharing(o, d) \cap Freed(f, o, gone))
           /\ Cardinality(Sharing(o, d) \cap Freed(f, o, gone)) \in Nat
           /\ Cardinality(Sharing(o, d) \cap Freed(f, o, gone)) <= Cardinality(Sharing(o, d))
<1> DEFINE o2 == LeftSlots(f, o, gone)
           A == Sharing(o, d)
           B == Sharing(o, d) \cap Freed(f, o, gone)
<1>1. DOMAIN o2 = DOMAIN o \ Freed(f, o, gone)
    BY DEF LeftSlots
<1>2. ASSUME NEW s \in DOMAIN o2 PROVE o2[s].ofd = o[s].ofd
    BY LeftSlotsIs
<1> HIDE DEF o2
<1>3. Sharing(o2, d) = A \ B
    BY <1>1, <1>2 DEF Sharing
<1>4. B \subseteq A
    OBVIOUS
<1> HIDE DEF A, B
<1>5. Cardinality(A \ B) = Cardinality(A) - Cardinality(B)
    BY <1>4, Parts DEF A
<1>6. Cardinality(B) \in Nat /\ Cardinality(B) <= Cardinality(A)
    BY <1>4, Parts DEF A
<1> QED BY <1>3, <1>5, <1>6 DEF A, B, o2

(* fork_process: the tables a child starts with *)
HeirFds(f) == {fd \in DOMAIN f : "CLOFORK" \notin f[fd].flags}
HeirSlots(f) == {f[fd].slot : fd \in HeirFds(f)}
ChildFds(f) == Restrict(f, HeirFds(f))
ChildSlots(f, o) ==
    [s \in HeirSlots(f) |-> [ofd |-> o[s].ofd, refs |-> Cardinality(On(f, s) \cap HeirFds(f))]]

LEMMA HeirsAre ==
    ASSUME NEW p
    PROVE  /\ InheritedFds(p) = HeirFds(fdt[p]) /\ InheritedSlots(p) = HeirSlots(fdt[p])
           /\ Restrict(fdt[p], InheritedFds(p)) = ChildFds(fdt[p])
           /\ [s \in InheritedSlots(p) |->
                  [ofd |-> ofdt[p][s].ofd, refs |-> Cardinality(FdsOn(p, s) \cap InheritedFds(p))]]
                = ChildSlots(fdt[p], ofdt[p])
<1>1. InheritedFds(p) = HeirFds(fdt[p])
    BY DEF InheritedFds, HeirFds
<1>2. InheritedSlots(p) = HeirSlots(fdt[p])
    BY <1>1 DEF InheritedSlots, HeirSlots
<1>3. \A s : FdsOn(p, s) = On(fdt[p], s)
    BY DEF FdsOn, On
<1> QED BY <1>1, <1>2, <1>3 DEF ChildFds, ChildSlots

LEMMA ForkTables ==
    ASSUME NEW f, NEW o, NEW K, NEW n \in Nat, TablesOK(f, o, K, n), NEW m \in Nat
    PROVE  TablesOK(ChildFds(f), ChildSlots(f, o), K, m)
<1> DEFINE f2 == ChildFds(f)
           o2 == ChildSlots(f, o)
           C(s) == Cardinality(On(f, s) \cap HeirFds(f))
<1>1. DOMAIN f2 = HeirFds(f) /\ HeirFds(f) \subseteq DOMAIN f /\ \A x \in HeirFds(f) : f2[x] = f[x]
    BY DEF ChildFds, Restrict, HeirFds
<1>2. f2 \in [DOMAIN f2 -> FdEntry] /\ DOMAIN f2 \subseteq Fds
    BY <1>1 DEF ChildFds, Restrict, TablesOK
<1>3. \A s : On(f2, s) = On(f, s) \cap HeirFds(f)
    BY <1>1 DEF On
<1>4. DOMAIN o2 = HeirSlots(f) /\ HeirSlots(f) \subseteq DOMAIN o
    BY <1>1 DEF ChildSlots, HeirSlots, TablesOK
<1>5. ASSUME NEW s \in HeirSlots(f)
      PROVE  /\ o2[s] \in OfdEntry /\ o2[s].ofd = o[s].ofd /\ o2[s].refs = Cardinality(On(f2, s))
             /\ Cardinality(On(f2, s)) \in Nat
  <2>1. o2[s] = [ofd |-> o[s].ofd, refs |-> C(s)]
    BY DEF ChildSlots
  <2>2. o[s] \in OfdEntry
    BY <1>4 DEF TablesOK
  <2>3. On(f, s) \cap HeirFds(f) # {}
    BY <1>1 DEF HeirSlots, On
  <2>4. C(s) \in Nat \ {0}
    <3>1. IsFiniteSet(On(f, s)) /\ On(f, s) \cap HeirFds(f) \subseteq On(f, s)
        BY TablesFinite
    <3> DEFINE S == On(f, s)
               T == On(f, s) \cap HeirFds(f)
    <3>2. IsFiniteSet(S) /\ T \subseteq S /\ T # {}
        BY <2>3, <3>1
    <3> HIDE DEF S, T
    <3>3. Cardinality(T) \in Nat \ {0}
        BY <3>2, Parts
    <3> QED BY <3>3 DEF T
  <2> HIDE DEF C
  <2>5. o2[s].refs = C(s) /\ o2[s].ofd = o[s].ofd
    BY <2>1
  <2>6. o2[s] \in OfdEntry
    BY <2>1, <2>2, <2>4 DEF OfdEntry
  <2>7. C(s) = Cardinality(On(f2, s))
    <3>1. On(f2, s) = On(f, s) \cap HeirFds(f)
        BY <1>3
    <3> QED BY <3>1, Zenon DEF C
  <2> HIDE DEF o2, f2
  <2> QED BY <2>4, <2>5, <2>6, <2>7
<1>6. o2 \in [DOMAIN o2 -> OfdEntry]
  <2>1. o2 = [s \in DOMAIN o2 |-> o2[s]]
    BY DEF ChildSlots
  <2> QED BY <1>4, <1>5, <2>1
<1>7. \A x \in DOMAIN f2 : f2[x].slot \in DOMAIN o2
    BY <1>1, <1>4 DEF HeirSlots
<1> HIDE DEF f2, o2, C
<1>8. Over(f2, o2) = {}
    BY <1>4, <1>5 DEF Over
<1>9. Cardinality(Over(f2, o2)) <= m
    BY <1>8, FS_EmptySet
<1>10. DOMAIN o2 \subseteq Slots /\ \A x \in DOMAIN o2 : o[x].ofd \in K
    BY <1>4 DEF TablesOK
<1>11. \A x \in DOMAIN o2 : o2[x].ofd \in K /\ o2[x].refs >= Cardinality(On(f2, x))
    BY <1>4, <1>5, <1>10
<1>12. TablesOK(f2, o2, K, m)
    BY <1>2, <1>6, <1>7, <1>9, <1>10, <1>11 DEF TablesOK
<1> QED BY <1>12 DEF f2, o2

LEMMA SharingChild ==
    ASSUME NEW f, NEW o, NEW K, NEW n, TablesOK(f, o, K, n), NEW d
    PROVE  Sharing(ChildSlots(f, o), d) = Sharing(o, d) \cap HeirSlots(f)
<1>1. HeirSlots(f) \subseteq DOMAIN o
    BY DEF HeirSlots, HeirFds, TablesOK
<1>2. DOMAIN ChildSlots(f, o) = HeirSlots(f)
    BY DEF ChildSlots
<1>3. \A s \in HeirSlots(f) : ChildSlots(f, o)[s].ofd = o[s].ofd
    BY DEF ChildSlots
<1> QED BY <1>1, <1>2, <1>3 DEF Sharing

-----------------------------------------------------------------------------
(* The tables of all processes, step by step *)
LEMMA TablesStep ==
    ASSUME TablesInv, NEW p \in Procs, NEW f2, NEW o2, NEW st,
           st \in {"unborn", "live", "zombie", "gone"},
           proc' = [proc EXCEPT ![p] = st],
           fdt' = [fdt EXCEPT ![p] = f2], ofdt' = [ofdt EXCEPT ![p] = o2],
           DOMAIN fileOf \subseteq DOMAIN fileOf', DOMAIN fileOf' \subseteq Ofds,
           fileOf' \in [DOMAIN fileOf' -> Files],
           failedOpens' \in Nat, failedOpens <= failedOpens', failedOpens' <= MaxFailedOpens,
           TablesOK(f2, o2, DOMAIN fileOf', failedOpens'), EmptyOK(st, f2, o2)
    PROVE  TablesInv'
<1>1. /\ proc' \in [Procs -> {"unborn", "live", "zombie", "gone"}]
      /\ DOMAIN fdt' = Procs /\ fdt' = [q \in Procs |-> fdt'[q]]
      /\ DOMAIN ofdt' = Procs /\ ofdt' = [q \in Procs |-> ofdt'[q]]
      /\ proc'[p] = st /\ fdt'[p] = f2 /\ ofdt'[p] = o2
      /\ \A q \in Procs : q # p => proc'[q] = proc[q] /\ fdt'[q] = fdt[q] /\ ofdt'[q] = ofdt[q]
    BY DEF TablesInv
<1>2. ASSUME NEW q \in Procs
      PROVE  TablesOK(fdt'[q], ofdt'[q], DOMAIN fileOf', failedOpens')
             /\ EmptyOK(proc'[q], fdt'[q], ofdt'[q])
  <2>1. CASE q = p
    BY <1>1, <2>1
  <2>2. CASE q # p
    <3>1. TablesOK(fdt[q], ofdt[q], DOMAIN fileOf, failedOpens) /\ failedOpens \in Nat
        BY DEF TablesInv
    <3>2. TablesOK(fdt[q], ofdt[q], DOMAIN fileOf', failedOpens')
        BY <3>1, TablesLater
    <3> QED BY <1>1, <2>2, <3>2 DEF TablesInv
  <2> QED BY <2>1, <2>2
<1> QED BY <1>1, <1>2 DEF TablesInv

LEMMA ProcTables ==
    ASSUME TablesInv, NEW p \in Procs
    PROVE  /\ TablesOK(fdt[p], ofdt[p], DOMAIN fileOf, failedOpens) /\ failedOpens \in Nat
           /\ DOMAIN fileOf \subseteq Ofds /\ failedOpens <= MaxFailedOpens
           /\ EmptyOK(proc[p], fdt[p], ofdt[p])
           /\ proc = [proc EXCEPT ![p] = proc[p]]
           /\ fdt = [fdt EXCEPT ![p] = fdt[p]] /\ ofdt = [ofdt EXCEPT ![p] = ofdt[p]]
BY DEF TablesInv

LEMMA FreeSlotIs ==
    ASSUME TablesInv, NEW p \in Procs
    PROVE  FreeSlot(p) \in Slots /\ FreeSlot(p) \notin DOMAIN ofdt[p]
<1>1. TablesOK(fdt[p], ofdt[p], DOMAIN fileOf, failedOpens) /\ failedOpens \in Nat /\ failedOpens <= MaxFailedOpens
    BY ProcTables
<1>2. Min(Slots \ DOMAIN ofdt[p]) \in Slots \ DOMAIN ofdt[p]
    BY <1>1, RoomForOne
<1> QED BY <1>2 DEF FreeSlot

LEMMA FreeFdIs ==
    ASSUME NEW p, FreeFds(p) # {}
    PROVE  Min(FreeFds(p)) \in Fds /\ Min(FreeFds(p)) \notin DOMAIN fdt[p]
<1>1. FreeFds(p) \in SUBSET Nat
    BY FileLocksConstants DEF FreeFds
<1>2. Min(FreeFds(p)) \in FreeFds(p)
    BY <1>1, LeastIs
<1> QED BY <1>2 DEF FreeFds

LEMMA OpenTables ==
    ASSUME TablesInv, NEW p \in Procs, NEW ofd \in Ofds, NEW file \in Files, NEW flags \in FdFlags,
           Open(p, ofd, file, flags)
    PROVE  TablesInv'
<1> DEFINE s == FreeSlot(p)
           o2 == With(ofdt[p], s, [ofd |-> ofd, refs |-> 1])
<1>1. proc[p] = "live" /\ ofd \notin DOMAIN fileOf /\ proc' = proc /\ fileOf' = With(fileOf, ofd, file)
      /\ ofdt' = [ofdt EXCEPT ![p] = o2]
    BY DEF Open, Live
<1>2. /\ DOMAIN fileOf' = DOMAIN fileOf \cup {ofd} /\ fileOf' \in [DOMAIN fileOf' -> Files]
      /\ DOMAIN fileOf' \subseteq Ofds
    BY <1>1 DEF With, TablesInv
<1>3. s \in Slots /\ s \notin DOMAIN ofdt[p]
    BY FreeSlotIs
<1>4. TablesOK(fdt[p], ofdt[p], DOMAIN fileOf, failedOpens) /\ failedOpens \in Nat
      /\ failedOpens <= MaxFailedOpens
      /\ proc = [proc EXCEPT ![p] = proc[p]] /\ fdt = [fdt EXCEPT ![p] = fdt[p]]
    BY ProcTables
<1> HIDE DEF s
<1>5. TablesOK(fdt[p], ofdt[p], DOMAIN fileOf', failedOpens)
    BY <1>2, <1>4, TablesLater
<1>6. \A f2 : EmptyOK("live", f2, o2)
    BY DEF EmptyOK
<1>7. CASE FreeFds(p) # {} /\ failedOpens' = failedOpens
           /\ fdt' = [fdt EXCEPT ![p] = With(@, Min(FreeFds(p)), [slot |-> s, flags |-> flags])]
  <2> DEFINE fd == Min(FreeFds(p))
             f2 == With(fdt[p], fd, [slot |-> s, flags |-> flags])
  <2>1. fd \in Fds /\ fd \notin DOMAIN fdt[p]
    BY <1>7, FreeFdIs
  <2> HIDE DEF fd
  <2>2. TablesOK(f2, o2, DOMAIN fileOf', failedOpens')
    BY <1>2, <1>3, <1>4, <1>5, <1>7, <2>1, AddBoth DEF FlagSets
  <2>3. fdt' = [fdt EXCEPT ![p] = f2]
    BY <1>7 DEF fd
  <2> HIDE DEF f2, o2
  <2>4. proc' = [proc EXCEPT ![p] = "live"] /\ ofdt' = [ofdt EXCEPT ![p] = o2]
    BY <1>1, <1>4
  <2>5. EmptyOK("live", f2, o2) /\ DOMAIN fileOf \subseteq DOMAIN fileOf'
    BY <1>2, <1>6
  <2>6. failedOpens' \in Nat /\ failedOpens <= failedOpens' /\ failedOpens' <= MaxFailedOpens
    BY <1>4, <1>7
  <2> QED BY <1>2, <2>2, <2>3, <2>4, <2>5, <2>6, TablesStep
<1>8. CASE failedOpens' = failedOpens + 1 /\ failedOpens < MaxFailedOpens /\ fdt' = fdt
  <2>1. TablesOK(fdt[p], o2, DOMAIN fileOf', failedOpens + 1)
    BY <1>2, <1>3, <1>4, <1>5, AddSlot
  <2>2. /\ failedOpens' \in Nat /\ failedOpens <= failedOpens' /\ failedOpens' <= MaxFailedOpens
    BY <1>4, <1>8, FileLocksConstants
  <2> DEFINE f2 == fdt[p]
  <2>3. fdt' = [fdt EXCEPT ![p] = f2] /\ proc' = [proc EXCEPT ![p] = "live"]
        /\ ofdt' = [ofdt EXCEPT ![p] = o2]
    BY <1>1, <1>4, <1>8
  <2> HIDE DEF o2
  <2>4. TablesOK(f2, o2, DOMAIN fileOf', failedOpens')
    BY <1>8, <2>1
  <2>5. EmptyOK("live", f2, o2) /\ DOMAIN fileOf \subseteq DOMAIN fileOf'
    BY <1>2, <1>6
  <2> HIDE DEF f2
  <2> QED BY <1>2, <2>2, <2>3, <2>4, <2>5, TablesStep
<1> QED BY <1>7, <1>8 DEF Open, s

LEMMA MoreAt ==
    ASSUME TablesInv, NEW p \in Procs, NEW s,
           ofdt' = [ofdt EXCEPT ![p][s].refs = @ + 1]
    PROVE  ofdt' = [ofdt EXCEPT ![p] = More(ofdt[p], s)]
BY DEF More, TablesInv

LEMMA DupTables ==
    ASSUME TablesInv, NEW p \in Procs, proc[p] = "live", NEW s \in DOMAIN ofdt[p], NEW flags \in FlagSets,
           FreeFds(p) # {}, proc' = proc, fileOf' = fileOf, failedOpens' = failedOpens,
           ofdt' = [ofdt EXCEPT ![p] = More(ofdt[p], s)],
           fdt' = [fdt EXCEPT ![p] = With(@, Min(FreeFds(p)), [slot |-> s, flags |-> flags])]
    PROVE  TablesInv'
<1> DEFINE fd == Min(FreeFds(p))
           f2 == With(fdt[p], fd, [slot |-> s, flags |-> flags])
           o2 == More(ofdt[p], s)
<1>1. TablesOK(fdt[p], ofdt[p], DOMAIN fileOf, failedOpens) /\ failedOpens \in Nat
      /\ failedOpens <= MaxFailedOpens
      /\ proc = [proc EXCEPT ![p] = proc[p]]
    BY ProcTables
<1>2. fd \in Fds /\ fd \notin DOMAIN fdt[p]
    BY FreeFdIs
<1>3. fdt' = [fdt EXCEPT ![p] = f2]
    OBVIOUS
<1> HIDE DEF fd
<1>4. TablesOK(f2, o2, DOMAIN fileOf', failedOpens')
    BY <1>1, <1>2, MoreBoth
<1>5. EmptyOK("live", f2, o2)
    BY DEF EmptyOK
<1> HIDE DEF f2, o2
<1>6. ofdt' = [ofdt EXCEPT ![p] = o2]
    BY DEF o2
<1>7. /\ fileOf' \in [DOMAIN fileOf' -> Files] /\ DOMAIN fileOf' \subseteq Ofds
      /\ DOMAIN fileOf \subseteq DOMAIN fileOf'
    BY DEF TablesInv
<1>8. failedOpens' \in Nat /\ failedOpens <= failedOpens' /\ failedOpens' <= MaxFailedOpens
      /\ proc' = [proc EXCEPT ![p] = "live"]
    BY <1>1
<1> QED BY <1>3, <1>4, <1>5, <1>6, <1>7, <1>8, TablesStep

LEMMA FdSlot ==
    ASSUME TablesInv, NEW p \in Procs, NEW fd \in DOMAIN fdt[p]
    PROVE  /\ fdt[p][fd].slot \in DOMAIN ofdt[p] /\ OfdAt(p, fd) \in DOMAIN fileOf
           /\ OfdAt(p, fd) \in Ofds /\ fdt[p][fd].slot \in SlotsOf(p, OfdAt(p, fd))
<1>1. TablesOK(fdt[p], ofdt[p], DOMAIN fileOf, failedOpens) /\ DOMAIN fileOf \subseteq Ofds
    BY ProcTables
<1>2. fdt[p][fd].slot \in DOMAIN ofdt[p]
    BY <1>1 DEF TablesOK
<1>3. OfdAt(p, fd) \in DOMAIN fileOf
    BY <1>1, <1>2 DEF TablesOK, OfdAt
<1> QED BY <1>1, <1>2, <1>3 DEF SlotsOf, OfdAt

LEMMA QuietStep ==
    ASSUME TablesInv, NEW p \in Procs, NEW f2, NEW o2, NEW st,
           st \in {"unborn", "live", "zombie", "gone"},
           proc' = [proc EXCEPT ![p] = st],
           fdt' = [fdt EXCEPT ![p] = f2], ofdt' = [ofdt EXCEPT ![p] = o2],
           fileOf' = fileOf, failedOpens' = failedOpens,
           TablesOK(f2, o2, DOMAIN fileOf, failedOpens), EmptyOK(st, f2, o2)
    PROVE  TablesInv'
<1>1. /\ fileOf' \in [DOMAIN fileOf' -> Files] /\ DOMAIN fileOf' \subseteq Ofds
      /\ DOMAIN fileOf \subseteq DOMAIN fileOf'
    BY DEF TablesInv
<1>2. failedOpens' \in Nat /\ failedOpens <= failedOpens' /\ failedOpens' <= MaxFailedOpens
    BY DEF TablesInv
<1>3. TablesOK(f2, o2, DOMAIN fileOf', failedOpens')
    OBVIOUS
<1> QED BY <1>1, <1>2, <1>3, TablesStep

LEMMA DevFdTables ==
    ASSUME TablesInv, NEW p \in Procs, NEW fd \in Fds, NEW flags \in FdFlags, OpenDevFd(p, fd, flags)
    PROVE  TablesInv'
<1> DEFINE s == fdt[p][fd].slot
<1>1. /\ proc[p] = "live" /\ fd \in DOMAIN fdt[p] /\ proc' = proc /\ fileOf' = fileOf
      /\ ofdt' = [ofdt EXCEPT ![p][s].refs = @ + 1]
    BY DEF OpenDevFd, Live
<1>2. s \in DOMAIN ofdt[p]
    BY <1>1, FdSlot
<1>3. flags \in FlagSets
    BY DEF FlagSets
<1> HIDE DEF s
<1>4. ofdt' = [ofdt EXCEPT ![p] = More(ofdt[p], s)]
    BY <1>1, MoreAt
<1>5. CASE FreeFds(p) # {} /\ failedOpens' = failedOpens
           /\ fdt' = [fdt EXCEPT ![p] = With(@, Min(FreeFds(p)), [slot |-> s, flags |-> flags])]
    BY <1>1, <1>2, <1>3, <1>4, <1>5, DupTables
<1>6. CASE failedOpens' = failedOpens + 1 /\ failedOpens < MaxFailedOpens /\ fdt' = fdt
  <2> DEFINE f2 == fdt[p]
             o2 == More(ofdt[p], s)
  <2>1. TablesOK(f2, ofdt[p], DOMAIN fileOf, failedOpens) /\ failedOpens \in Nat
        /\ proc = [proc EXCEPT ![p] = proc[p]] /\ fdt = [fdt EXCEPT ![p] = f2]
    BY ProcTables
  <2>2. TablesOK(f2, o2, DOMAIN fileOf', failedOpens')
    BY <1>1, <1>2, <1>6, <2>1, MoreRefs
  <2>3. EmptyOK("live", f2, o2)
    BY DEF EmptyOK
  <2>4. /\ fdt' = [fdt EXCEPT ![p] = f2] /\ ofdt' = [ofdt EXCEPT ![p] = o2]
        /\ proc' = [proc EXCEPT ![p] = "live"]
    BY <1>1, <1>4, <1>6, <2>1
  <2>5. failedOpens' \in Nat /\ failedOpens <= failedOpens' /\ failedOpens' <= MaxFailedOpens
    BY <1>6, <2>1, FileLocksConstants
  <2>6. /\ fileOf' \in [DOMAIN fileOf' -> Files] /\ DOMAIN fileOf' \subseteq Ofds
        /\ DOMAIN fileOf \subseteq DOMAIN fileOf'
    BY <1>1 DEF TablesInv
  <2> HIDE DEF f2, o2
  <2> QED BY <2>2, <2>3, <2>4, <2>5, <2>6, TablesStep
<1> QED BY <1>5, <1>6 DEF OpenDevFd, s

LEMMA DupOnlyTables ==
    ASSUME TablesInv, NEW p \in Procs, NEW fd \in Fds, Dup(p, fd)
    PROVE  TablesInv'
<1> DEFINE s == fdt[p][fd].slot
<1>1. /\ proc[p] = "live" /\ fd \in DOMAIN fdt[p] /\ FreeFds(p) # {}
      /\ proc' = proc /\ fileOf' = fileOf /\ failedOpens' = failedOpens
      /\ ofdt' = [ofdt EXCEPT ![p][s].refs = @ + 1]
      /\ fdt' = [fdt EXCEPT ![p] = With(@, Min(FreeFds(p)), [slot |-> s, flags |-> {}])]
    BY DEF Dup, Live
<1>2. s \in DOMAIN ofdt[p]
    BY <1>1, FdSlot
<1> HIDE DEF s
<1>3. ofdt' = [ofdt EXCEPT ![p] = More(ofdt[p], s)]
    BY <1>1, MoreAt
<1>4. {} \in FlagSets
    BY DEF FlagSets
<1> QED BY <1>1, <1>2, <1>3, <1>4, DupTables

(* Closing descriptors of a process that stays, or becomes a zombie *)
LEMMA ClosingTables ==
    ASSUME TablesInv, NEW p \in Procs, NEW gone, NEW st \in {"live", "zombie"},
           proc' = [proc EXCEPT ![p] = st],
           st = "zombie" => FdsLeft(p, gone) = << >>,
           fdt' = [fdt EXCEPT ![p] = FdsLeft(p, gone)],
           ofdt' = [ofdt EXCEPT ![p] = SlotsLeft(p, gone)],
           fileOf' = fileOf, failedOpens' = failedOpens
    PROVE  TablesInv'
<1> DEFINE f2 == FdsLeft(p, gone)
           o2 == SlotsLeft(p, gone)
<1>1. TablesOK(fdt[p], ofdt[p], DOMAIN fileOf, failedOpens) /\ failedOpens \in Nat
    BY ProcTables
<1>2. TablesOK(LeftFds(fdt[p], gone), LeftSlots(fdt[p], ofdt[p], gone), DOMAIN fileOf, failedOpens)
    BY <1>1, CloseTables
<1>3. f2 = LeftFds(fdt[p], gone) /\ o2 = LeftSlots(fdt[p], ofdt[p], gone)
    BY ClosingIs
<1>4. TablesOK(f2, o2, DOMAIN fileOf, failedOpens)
    BY <1>2, <1>3
<1>5. EmptyOK(st, f2, o2)
    BY DEF EmptyOK
<1> HIDE DEF f2, o2
<1>6. fdt' = [fdt EXCEPT ![p] = f2] /\ ofdt' = [ofdt EXCEPT ![p] = o2]
    BY DEF f2, o2
<1>7. CASE st = "live"
  <2>1. proc' = [proc EXCEPT ![p] = "live"] /\ EmptyOK("live", f2, o2)
    BY <1>5, <1>7
  <2> QED BY <1>4, <1>6, <2>1, QuietStep
<1>8. CASE st = "zombie"
  <2>1. proc' = [proc EXCEPT ![p] = "zombie"] /\ EmptyOK("zombie", f2, o2)
    BY <1>5, <1>8
  <2> QED BY <1>4, <1>6, <2>1, QuietStep
<1> QED BY <1>7, <1>8

LEMMA NoFds ==
    ASSUME NEW f
    PROVE  LeftFds(f, DOMAIN f) = << >>
BY DEF LeftFds, Restrict

LEMMA Dup3Tables ==
    ASSUME TablesInv, NEW p \in Procs, NEW old \in Fds, NEW new \in Fds, NEW flags \in FdFlags,
           Dup3(p, old, new, flags)
    PROVE  TablesInv'
<1> DEFINE s == fdt[p][old].slot
           gone == {new} \cap DOMAIN fdt[p]
           f1 == LeftFds(fdt[p], gone)
           o1 == LeftSlots(fdt[p], ofdt[p], gone)
           f2 == With(f1, new, [slot |-> s, flags |-> flags])
           o2 == More(o1, s)
<1>1. FdsLeft(p, gone) = f1 /\ SlotsLeft(p, gone) = o1
    BY ClosingIs
<1>2. /\ proc[p] = "live" /\ old \in DOMAIN fdt[p] /\ new # old
      /\ proc' = proc /\ fileOf' = fileOf /\ failedOpens' = failedOpens
      /\ fdt' = [fdt EXCEPT ![p] = f2] /\ ofdt' = [ofdt EXCEPT ![p] = o2]
    BY <1>1 DEF Dup3, Live, More
<1>3. TablesOK(fdt[p], ofdt[p], DOMAIN fileOf, failedOpens) /\ failedOpens \in Nat
      /\ proc = [proc EXCEPT ![p] = proc[p]]
    BY ProcTables
<1>4. TablesOK(f1, o1, DOMAIN fileOf, failedOpens)
    BY <1>3, CloseTables
<1>5. s \in DOMAIN o1
    BY <1>2, <1>3, KeptSlot
<1>6. new \notin DOMAIN f1 /\ flags \in FlagSets
    BY DEF LeftFds, Restrict, FlagSets
<1> HIDE DEF f1, o1, s
<1>7. TablesOK(f2, o2, DOMAIN fileOf, failedOpens)
    BY <1>3, <1>4, <1>5, <1>6, MoreBoth
<1>8. EmptyOK("live", f2, o2)
    BY DEF EmptyOK
<1> HIDE DEF f2, o2
<1>9. proc' = [proc EXCEPT ![p] = "live"]
    BY <1>2, <1>3
<1> QED BY <1>2, <1>7, <1>8, <1>9, QuietStep

LEMMA ForkChildTables ==
    ASSUME TablesInv, NEW p \in Procs, NEW child \in Procs, Fork(p, child)
    PROVE  TablesInv'
<1> DEFINE f2 == ChildFds(fdt[p])
           o2 == ChildSlots(fdt[p], ofdt[p])
<1>1. TablesOK(fdt[p], ofdt[p], DOMAIN fileOf, failedOpens) /\ failedOpens \in Nat
    BY ProcTables
<1>2. TablesOK(f2, o2, DOMAIN fileOf, failedOpens)
    BY <1>1, ForkTables
<1>3. EmptyOK("live", f2, o2)
    BY DEF EmptyOK
<1>4. /\ proc' = [proc EXCEPT ![child] = "live"] /\ fileOf' = fileOf /\ failedOpens' = failedOpens
      /\ fdt' = [fdt EXCEPT ![child] = f2] /\ ofdt' = [ofdt EXCEPT ![child] = o2]
    BY HeirsAre DEF Fork
<1> HIDE DEF f2, o2
<1> QED BY <1>2, <1>3, <1>4, QuietStep

LEMMA RemoveTables ==
    ASSUME TablesInv, NEW p \in Procs, Remove(p)
    PROVE  TablesInv'
<1>1. TablesOK(<< >>, << >>, DOMAIN fileOf, failedOpens)
    BY TablesEmpty DEF TablesInv
<1>2. EmptyOK("gone", << >>, << >>)
    BY DEF EmptyOK
<1>3. /\ proc' = [proc EXCEPT ![p] = "gone"] /\ fileOf' = fileOf /\ failedOpens' = failedOpens
      /\ fdt' = [fdt EXCEPT ![p] = << >>] /\ ofdt' = [ofdt EXCEPT ![p] = << >>]
    BY DEF Remove
<1> QED BY <1>1, <1>2, <1>3, QuietStep

LEMMA CreateTables ==
    ASSUME TablesInv, NEW p \in Procs, Create(p)
    PROVE  TablesInv'
<1> DEFINE f2 == fdt[p]
           o2 == ofdt[p]
<1>1. TablesOK(f2, o2, DOMAIN fileOf, failedOpens)
      /\ fdt = [fdt EXCEPT ![p] = f2] /\ ofdt = [ofdt EXCEPT ![p] = o2]
    BY ProcTables
<1>2. EmptyOK("live", f2, o2)
    BY DEF EmptyOK
<1>3. /\ proc' = [proc EXCEPT ![p] = "live"] /\ fileOf' = fileOf /\ failedOpens' = failedOpens
      /\ fdt' = [fdt EXCEPT ![p] = f2] /\ ofdt' = [ofdt EXCEPT ![p] = o2]
    BY <1>1 DEF Create
<1> HIDE DEF f2, o2
<1> QED BY <1>1, <1>2, <1>3, QuietStep

LEMMA ReceiveTables ==
    ASSUME TablesInv, NEW p \in Procs, NEW ofd \in Ofds, ofd \in DOMAIN fileOf, Receive(p, ofd)
    PROVE  TablesInv'
<1> DEFINE s == FreeSlot(p)
           fd == Min(FreeFds(p))
           f2 == With(fdt[p], fd, [slot |-> s, flags |-> {}])
           o2 == With(ofdt[p], s, [ofd |-> ofd, refs |-> 1])
<1>1. /\ proc[p] = "live" /\ FreeFds(p) # {}
      /\ proc' = proc /\ fileOf' = fileOf /\ failedOpens' = failedOpens
      /\ fdt' = [fdt EXCEPT ![p] = f2] /\ ofdt' = [ofdt EXCEPT ![p] = o2]
    BY DEF Receive, Live
<1>2. s \in Slots /\ s \notin DOMAIN ofdt[p]
    BY FreeSlotIs
<1>3. fd \in Fds /\ fd \notin DOMAIN fdt[p]
    BY <1>1, FreeFdIs
<1>4. TablesOK(fdt[p], ofdt[p], DOMAIN fileOf, failedOpens) /\ failedOpens \in Nat
      /\ proc = [proc EXCEPT ![p] = proc[p]]
    BY ProcTables
<1> HIDE DEF s, fd
<1>5. TablesOK(f2, o2, DOMAIN fileOf, failedOpens)
    BY <1>2, <1>3, <1>4, AddBoth DEF FlagSets
<1>6. EmptyOK("live", f2, o2)
    BY DEF EmptyOK
<1> HIDE DEF f2, o2
<1>7. proc' = [proc EXCEPT ![p] = "live"]
    BY <1>1, <1>4
<1> QED BY <1>1, <1>5, <1>6, <1>7, QuietStep

-----------------------------------------------------------------------------
(* Counts of host handles *)
LEMMA CountDown ==
    ASSUME NEW known \in BOOLEAN, NEW R \in Nat, NEW refs \in Nat, NEW closes \in Nat, NEW k \in Nat,
           k <= R, CountOK(known, R, refs, closes)
    PROVE  LET own == IF refs = 0 THEN 1 ELSE refs
               refs2 == IF k = 0 THEN refs ELSE IF k >= own THEN 0 ELSE own - k
               closes2 == IF k < own THEN closes ELSE closes + 1 + k - own
           IN  /\ CountOK(known, R - k, refs2, closes2)
               /\ k >= own <=> R # 0 /\ R - k = 0
               /\ refs2 \in Nat /\ closes2 \in Nat
BY DEF CountOK

LEMMA CountUp ==
    ASSUME NEW known \in BOOLEAN, NEW R \in Nat, NEW refs \in Nat, NEW closes \in Nat, NEW k \in Nat,
           k # 0 => R # 0, CountOK(known, R, refs, closes)
    PROVE  LET own == IF refs = 0 THEN 1 ELSE refs
               refs2 == IF k = 0 THEN refs ELSE own + k
           IN  /\ CountOK(known, R + k, refs2, closes)
               /\ refs2 \in Nat
BY DEF CountOK

LEMMA ReferencesNat ==
    ASSUME TablesInv, inFlight \in [Ofds -> Nat], NEW d \in Ofds
    PROVE  /\ References(d) \in Nat /\ Cardinality(HoldersIn(ofdt, d)) \in Nat
           /\ References(d) = inFlight[d] + Cardinality(HoldersIn(ofdt, d))
<1>1. SlotTables(ofdt)
    BY DEF SlotTables, TablesInv, TablesOK
<1>2. CASE Procs = {}
  <2>1. HoldersIn(ofdt, d) = {}
    BY <1>2 DEF HoldersIn
  <2>2. Cardinality(HoldersIn(ofdt, d)) \in Nat
    BY <2>1, FS_EmptySet
  <2> QED BY <2>2, ReferencesIs DEF RefsIn
<1>3. CASE Procs # {}
  <2>1. PICK p \in Procs : TRUE
    BY <1>3
  <2>2. Cardinality(HoldersIn(ofdt, d)) \in Nat
    BY <1>1, <2>1, HoldersSplit
  <2> QED BY <2>2, ReferencesIs DEF RefsIn
<1> QED BY <1>2, <1>3

LEMMA HandlesDown ==
    ASSUME TablesInv, HandlesInv, NEW drops \in [Ofds -> Nat], fileOf' = fileOf,
           hostRefs' = RefsMinus(drops), hostCloses' = ClosesPlus(drops),
           inFlight' \in [Ofds -> Nat], \A d \in Ofds : inFlight'[d] <= inFlight[d],
           \A d \in Ofds : drops[d] <= References(d) /\ References(d)' = References(d) - drops[d]
    PROVE  /\ HandlesInv'
           /\ \A d \in Ofds : d \in FinalOfds(drops) <=> References(d) # 0 /\ References(d)' = 0
<1>1. /\ hostRefs \in [Ofds -> Nat] /\ hostCloses \in [Ofds -> Nat] /\ inFlight \in [Ofds -> Nat]
      /\ \A d \in Ofds : inFlight[d] <= MaxInFlight
      /\ \A d \in Ofds : CountOK(d \in DOMAIN fileOf, References(d), hostRefs[d], hostCloses[d])
    BY DEF HandlesInv
<1>2. ASSUME NEW d \in Ofds
      PROVE  /\ CountOK(d \in DOMAIN fileOf, References(d)', hostRefs'[d], hostCloses'[d])
             /\ hostRefs'[d] \in Nat /\ hostCloses'[d] \in Nat
             /\ d \in FinalOfds(drops) <=> References(d) # 0 /\ References(d)' = 0
  <2> DEFINE R == References(d)
             k == drops[d]
             refs == hostRefs[d]
             closes == hostCloses[d]
             known == d \in DOMAIN fileOf
             own == IF refs = 0 THEN 1 ELSE refs
             refs2 == IF k = 0 THEN refs ELSE IF k >= own THEN 0 ELSE own - k
             closes2 == IF k < own THEN closes ELSE closes + 1 + k - own
  <2>1. R \in Nat
    BY <1>1, ReferencesNat
  <2>2. k \in Nat /\ refs \in Nat /\ closes \in Nat /\ known \in BOOLEAN
        /\ k <= R /\ CountOK(known, R, refs, closes) /\ References(d)' = R - k
    BY <1>1
  <2>3. hostRefs'[d] = refs2 /\ hostCloses'[d] = closes2 /\ (d \in FinalOfds(drops) <=> k >= own)
    BY DEF RefsMinus, ClosesPlus, FinalOfds, Owners1
  <2> HIDE DEF R, k, refs, closes, known
  <2>4. /\ CountOK(known, R - k, refs2, closes2)
        /\ k >= own <=> R # 0 /\ R - k = 0
        /\ refs2 \in Nat /\ closes2 \in Nat
    BY <2>1, <2>2, CountDown
  <2> HIDE DEF own, refs2, closes2
  <2> QED BY <2>2, <2>3, <2>4 DEF R, known
<1>3. hostRefs' \in [Ofds -> Nat] /\ hostCloses' \in [Ofds -> Nat]
  <2>1. hostRefs' = [d \in Ofds |-> hostRefs'[d]] /\ hostCloses' = [d \in Ofds |-> hostCloses'[d]]
    BY DEF RefsMinus, ClosesPlus
  <2> QED BY <1>2, <2>1
<1>4. \A d \in Ofds : inFlight'[d] <= MaxInFlight
    BY <1>1, FileLocksConstants
<1> QED BY <1>2, <1>3, <1>4 DEF HandlesInv

LEMMA HandlesUp ==
    ASSUME TablesInv, HandlesInv, NEW adds \in [Ofds -> Nat], fileOf' = fileOf,
           hostRefs' = RefsPlus(adds), hostCloses' = hostCloses,
           inFlight' \in [Ofds -> Nat], \A d \in Ofds : inFlight'[d] <= MaxInFlight,
           \A d \in Ofds : (adds[d] # 0 => References(d) # 0) /\ References(d)' = References(d) + adds[d]
    PROVE  HandlesInv'
<1>1. /\ hostRefs \in [Ofds -> Nat] /\ hostCloses \in [Ofds -> Nat] /\ inFlight \in [Ofds -> Nat]
      /\ \A d \in Ofds : CountOK(d \in DOMAIN fileOf, References(d), hostRefs[d], hostCloses[d])
    BY DEF HandlesInv
<1>2. ASSUME NEW d \in Ofds
      PROVE  /\ CountOK(d \in DOMAIN fileOf, References(d)', hostRefs'[d], hostCloses'[d])
             /\ hostRefs'[d] \in Nat
  <2> DEFINE R == References(d)
             k == adds[d]
             refs == hostRefs[d]
             closes == hostCloses[d]
             known == d \in DOMAIN fileOf
             own == IF refs = 0 THEN 1 ELSE refs
             refs2 == IF k = 0 THEN refs ELSE own + k
  <2>1. R \in Nat
    BY <1>1, ReferencesNat
  <2>2. k \in Nat /\ refs \in Nat /\ closes \in Nat /\ known \in BOOLEAN
        /\ (k # 0 => R # 0) /\ CountOK(known, R, refs, closes) /\ References(d)' = R + k
    BY <1>1
  <2>3. hostRefs'[d] = refs2 /\ hostCloses'[d] = closes
    BY DEF RefsPlus, Owners1
  <2> HIDE DEF R, k, refs, closes, known
  <2>4. CountOK(known, R + k, refs2, closes) /\ refs2 \in Nat
    BY <2>1, <2>2, CountUp
  <2> HIDE DEF own, refs2
  <2> QED BY <2>2, <2>3, <2>4 DEF known
<1>3. hostRefs' \in [Ofds -> Nat]
  <2>1. hostRefs' = [d \in Ofds |-> hostRefs'[d]]
    BY DEF RefsPlus
  <2> QED BY <1>2, <2>1
<1> QED BY <1>1, <1>2, <1>3 DEF HandlesInv

LEMMA HandlesSame ==
    ASSUME HandlesInv, fileOf' = fileOf, hostRefs' = hostRefs, hostCloses' = hostCloses,
           inFlight' \in [Ofds -> Nat], \A d \in Ofds : inFlight'[d] <= MaxInFlight,
           \A d \in Ofds : References(d)' = References(d)
    PROVE  HandlesInv'
BY DEF HandlesInv

(* A referenced OFD exists. *)
LEMMA ReferencedKnown ==
    ASSUME TablesInv, HandlesInv, NEW d \in Ofds, References(d) # 0
    PROVE  d \in DOMAIN fileOf
BY DEF HandlesInv, CountOK

LEMMA InFlightKnown ==
    ASSUME TablesInv, HandlesInv, NEW d \in Ofds, inFlight[d] > 0
    PROVE  d \in DOMAIN fileOf /\ References(d) # 0 /\ References(d) \in Nat
<1>1. inFlight \in [Ofds -> Nat]
    BY DEF HandlesInv
<1>2. /\ References(d) \in Nat /\ Cardinality(HoldersIn(ofdt, d)) \in Nat
      /\ References(d) = inFlight[d] + Cardinality(HoldersIn(ofdt, d))
    BY <1>1, ReferencesNat
<1>3. References(d) # 0
    BY <1>1, <1>2
<1> QED BY <1>2, <1>3, ReferencedKnown

(* How the references change with the slots of one process *)
LEMMA RefsAt ==
    ASSUME TablesInv, HandlesInv, NEW p \in Procs, NEW o2, DOMAIN o2 \subseteq Slots,
           ofdt' = [ofdt EXCEPT ![p] = o2], inFlight' \in [Ofds -> Nat], NEW d \in Ofds
    PROVE  LET a == Cardinality(Sharing(ofdt[p], d))
               b == Cardinality(Sharing(o2, d))
           IN  /\ a \in Nat /\ b \in Nat /\ References(d) \in Nat /\ inFlight[d] + a <= References(d)
               /\ inFlight[d] \in Nat /\ inFlight'[d] \in Nat
               /\ References(d)' = References(d) - a + b - inFlight[d] + inFlight'[d]
               /\ IsFiniteSet(Sharing(ofdt[p], d)) /\ IsFiniteSet(Sharing(o2, d))
<1> DEFINE a == Cardinality(Sharing(ofdt[p], d))
           b == Cardinality(Sharing(o2, d))
           H == Cardinality(HoldersIn(ofdt, d))
           H2 == Cardinality(HoldersIn(ofdt', d))
           E == Cardinality(Elsewhere(ofdt, p, d))
<1>1. SlotTables(ofdt) /\ DOMAIN ofdt = Procs
    BY DEF SlotTables, TablesInv, TablesOK
<1>2. inFlight \in [Ofds -> Nat]
    BY DEF HandlesInv
<1>3. References(d) \in Nat /\ References(d) = inFlight[d] + H
    BY <1>2, ReferencesNat
<1>4. References(d)' = inFlight'[d] + H2
    BY ReferencesIs DEF RefsIn
<1>5. H2 = H - a + b
  <2>1. ofdt'[p] = o2 /\ \A q \in Procs : q # p => ofdt'[q] = ofdt[q]
    BY <1>1
  <2>2. SlotTables(ofdt')
    BY <1>1, <2>1 DEF SlotTables
  <2>3. Cardinality(HoldersIn(ofdt', d)) = Cardinality(HoldersIn(ofdt, d))
            - Cardinality(Sharing(ofdt[p], d)) + Cardinality(Sharing(ofdt'[p], d))
    <3> DEFINE T == ofdt
               U == ofdt'
    <3>1. SlotTables(T) /\ SlotTables(U) /\ \A q \in Procs : q # p => U[q] = T[q]
        BY <1>1, <2>1, <2>2
    <3> HIDE DEF T, U
    <3>2. Cardinality(HoldersIn(U, d)) = Cardinality(HoldersIn(T, d))
              - Cardinality(Sharing(T[p], d)) + Cardinality(Sharing(U[p], d))
        BY <3>1, RefsStep
    <3> QED BY <3>2 DEF T, U
  <2> QED BY <2>1, <2>3
<1>6. H = E + a /\ E \in Nat
    BY <1>1, HoldersSplit
<1>7. IsFiniteSet(Sharing(ofdt[p], d)) /\ a \in Nat
    BY <1>1, SharingFinite
<1>8. IsFiniteSet(Sharing(o2, d)) /\ b \in Nat
  <2> DEFINE S == Sharing(o2, d)
  <2>1. S \subseteq Slots
    BY DEF Sharing
  <2> HIDE DEF S
  <2>2. IsFiniteSet(S) /\ Cardinality(S) \in Nat
    BY <2>1, SlotsFinite, Parts
  <2> QED BY <2>2 DEF S
<1> HIDE DEF a, b, H, H2, E
<1>9. inFlight[d] \in Nat /\ inFlight'[d] \in Nat
    BY <1>2
<1>10. inFlight[d] + a <= References(d)
    BY <1>3, <1>6, <1>7, <1>9
<1>11. References(d)' = References(d) - a + b - inFlight[d] + inFlight'[d]
    BY <1>3, <1>4, <1>5, <1>6, <1>7, <1>8, <1>9
<1> QED BY <1>3, <1>7, <1>8, <1>9, <1>10, <1>11 DEF a, b

(* close, dup2, exec, exit: each slot that is freed is one owner less. *)
LEMMA ClosingHandles ==
    ASSUME TablesInv, HandlesInv, NEW p \in Procs, NEW gone, NEW o2, DOMAIN o2 \subseteq Slots,
           \A d : Sharing(o2, d) = Sharing(SlotsLeft(p, gone), d),
           ofdt' = [ofdt EXCEPT ![p] = o2], inFlight' = inFlight, fileOf' = fileOf,
           NEW drops, drops = Drops(p, FreedSlots(p, gone)),
           hostRefs' = RefsMinus(drops), hostCloses' = ClosesPlus(drops)
    PROVE  /\ HandlesInv'
           /\ \A d \in Ofds : d \in FinalOfds(drops) <=> References(d) # 0 /\ References(d)' = 0
<1> DEFINE f == fdt[p]
           o == ofdt[p]
           freed == Freed(f, o, gone)
<1>1. TablesOK(f, o, DOMAIN fileOf, failedOpens)
    BY ProcTables
<1>2. inFlight' \in [Ofds -> Nat] /\ inFlight' = inFlight /\ inFlight \in [Ofds -> Nat]
    BY DEF HandlesInv
<1>3. SlotsLeft(p, gone) = LeftSlots(f, o, gone) /\ FreedSlots(p, gone) = freed
    BY ClosingIs
<1>4. ASSUME NEW d \in Ofds
      PROVE  drops[d] \in Nat /\ drops[d] <= References(d) /\ References(d)' = References(d) - drops[d]
  <2> DEFINE a == Cardinality(Sharing(o, d))
             b == Cardinality(Sharing(o2, d))
             c == Cardinality(Sharing(o, d) \cap freed)
  <2>1. /\ a \in Nat /\ b \in Nat /\ References(d) \in Nat /\ inFlight[d] + a <= References(d)
        /\ inFlight[d] \in Nat /\ inFlight'[d] \in Nat
        /\ References(d)' = References(d) - a + b - inFlight[d] + inFlight'[d]
    BY <1>2, RefsAt
  <2>2. IsFiniteSet(Sharing(o, d))
    BY <1>2, RefsAt
  <2>3. b = Cardinality(Sharing(LeftSlots(f, o, gone), d))
    BY <1>3
  <2>4. drops[d] = c
    BY <1>3 DEF Drops, SlotsOf, Sharing
  <2>5. Cardinality(Sharing(LeftSlots(f, o, gone), d)) = a - c /\ c \in Nat /\ c <= a
    BY <1>1, <2>2, SharingLeft
  <2> HIDE DEF a, b, c
  <2> QED BY <1>2, <2>1, <2>3, <2>4, <2>5
<1>5. drops \in [Ofds -> Nat]
  <2>1. drops = [d \in Ofds |-> drops[d]]
    BY DEF Drops
  <2> QED BY <1>4, <2>1
<1>6. \A d \in Ofds : inFlight'[d] <= inFlight[d]
    BY <1>2
<1> HIDE DEF f, o, freed
<1> QED BY <1>2, <1>4, <1>5, <1>6, HandlesDown

(* A process is removed with all its slots. *)
LEMMA RemoveHandles ==
    ASSUME TablesInv, HandlesInv, NEW p \in Procs, Remove(p)
    PROVE  /\ HandlesInv'
           /\ \A d \in Ofds : d \in Unreferenced(p) <=> SlotsOf(p, d) # {} /\ References(d)' = 0
           /\ \A d \in Ofds : SlotsOf(p, d) = {} => References(d)' = References(d)
<1> DEFINE drops == Drops(p, DOMAIN ofdt[p])
           o == ofdt[p]
<1>1. /\ ofdt' = [ofdt EXCEPT ![p] = << >>] /\ inFlight' = inFlight /\ fileOf' = fileOf
      /\ hostRefs' = RefsMinus(drops) /\ hostCloses' = ClosesPlus(drops)
    BY DEF Remove
<1>2. inFlight' \in [Ofds -> Nat] /\ inFlight \in [Ofds -> Nat]
    BY <1>1 DEF HandlesInv
<1>3. DOMAIN << >> \subseteq Slots
    OBVIOUS
<1>4. ASSUME NEW d \in Ofds
      PROVE  /\ drops[d] \in Nat /\ drops[d] <= References(d) /\ References(d)' = References(d) - drops[d]
             /\ SlotsOf(p, d) = {} => drops[d] = 0 /\ References(d)' = References(d)
  <2> DEFINE a == Cardinality(Sharing(o, d))
             b == Cardinality(Sharing(<< >>, d))
  <2>1. /\ a \in Nat /\ b \in Nat /\ References(d) \in Nat /\ inFlight[d] + a <= References(d)
        /\ inFlight[d] \in Nat /\ inFlight'[d] \in Nat
        /\ References(d)' = References(d) - a + b - inFlight[d] + inFlight'[d]
    BY <1>1, <1>2, <1>3, RefsAt
  <2>2. b = 0
    BY FS_EmptySet DEF Sharing
  <2>3. SlotsOf(p, d) = Sharing(o, d) /\ Sharing(o, d) \cap DOMAIN o = Sharing(o, d)
    BY DEF SlotsOf, Sharing
  <2>4. drops[d] = a
    BY <2>3 DEF Drops
  <2>5. SlotsOf(p, d) = {} => a = 0
    BY <2>3, FS_EmptySet
  <2> HIDE DEF a, b
  <2> QED BY <1>1, <2>1, <2>2, <2>4, <2>5
<1>5. drops \in [Ofds -> Nat]
  <2>1. drops = [d \in Ofds |-> drops[d]]
    BY DEF Drops
  <2> QED BY <1>4, <2>1
<1>6. \A d \in Ofds : inFlight'[d] <= inFlight[d]
    BY <1>1, <1>2
<1>7. HandlesInv'
  <2> HIDE DEF drops
  <2> QED BY <1>1, <1>2, <1>4, <1>5, <1>6, HandlesDown
<1>8. ASSUME NEW d \in Ofds
      PROVE  d \in Unreferenced(p) <=> SlotsOf(p, d) # {} /\ References(d)' = 0
  <2> DEFINE U == ofdt'
             E == Cardinality(Elsewhere(U, p, d))
  <2>1. DOMAIN ofdt = Procs /\ SlotTables(ofdt)
    BY DEF TablesInv, TablesOK, SlotTables
  <2>2. U[p] = << >> /\ \A q \in Procs : q # p => U[q] = ofdt[q]
    BY <1>1, <2>1
  <2>3. SlotTables(U)
    BY <2>1, <2>2 DEF SlotTables
  <2>4. References(d)' = inFlight'[d] + Cardinality(HoldersIn(U, d))
    BY ReferencesIs DEF RefsIn
  <2> HIDE DEF U
  <2>5. /\ Cardinality(HoldersIn(U, d)) = E + Cardinality(Sharing(U[p], d)) /\ E \in Nat
        /\ E = 0 <=> \A q \in Procs \ {p} : Sharing(U[q], d) = {}
    BY <2>3, HoldersSplit
  <2>6. Cardinality(Sharing(U[p], d)) = 0
    BY <2>2, FS_EmptySet DEF Sharing
  <2>7. \A q \in Procs \ {p} : Sharing(U[q], d) = SlotsOf(q, d)
    BY <2>2 DEF Sharing, SlotsOf
  <2> HIDE DEF E
  <2>8. References(d)' = 0 <=> inFlight[d] = 0 /\ E = 0
    BY <1>1, <1>2, <2>4, <2>5, <2>6
  <2> QED BY <2>5, <2>7, <2>8 DEF Unreferenced
<1> QED BY <1>4, <1>7, <1>8

LEMMA OpenHandles ==
    ASSUME TablesInv, HandlesInv, NEW p \in Procs, NEW ofd \in Ofds, NEW file, NEW flags,
           Open(p, ofd, file, flags)
    PROVE  HandlesInv' /\ \A d \in Ofds : References(d) # 0 => References(d)' # 0
<1> DEFINE s == FreeSlot(p)
           o2 == With(ofdt[p], s, [ofd |-> ofd, refs |-> 1])
<1>1. /\ ofd \notin DOMAIN fileOf /\ fileOf' = With(fileOf, ofd, file)
      /\ hostRefs' = hostRefs /\ hostCloses' = hostCloses /\ inFlight' = inFlight
      /\ ofdt' = [ofdt EXCEPT ![p] = o2]
    BY DEF Open, handles
<1>2. s \in Slots /\ s \notin DOMAIN ofdt[p] /\ DOMAIN ofdt[p] \subseteq Slots
    BY FreeSlotIs DEF TablesInv, TablesOK
<1>3. DOMAIN o2 \subseteq Slots
    BY <1>2 DEF With
<1>4. /\ hostRefs \in [Ofds -> Nat] /\ hostCloses \in [Ofds -> Nat] /\ inFlight \in [Ofds -> Nat]
      /\ \A d \in Ofds : inFlight[d] <= MaxInFlight
      /\ \A d \in Ofds : CountOK(d \in DOMAIN fileOf, References(d), hostRefs[d], hostCloses[d])
    BY DEF HandlesInv
<1> HIDE DEF s
<1>5. ASSUME NEW d \in Ofds
      PROVE  /\ CountOK(d \in DOMAIN fileOf', References(d)', hostRefs'[d], hostCloses'[d])
             /\ References(d) # 0 => References(d)' # 0
  <2> DEFINE a == Cardinality(Sharing(ofdt[p], d))
             b == Cardinality(Sharing(o2, d))
  <2>1. /\ a \in Nat /\ b \in Nat /\ References(d) \in Nat
        /\ inFlight[d] \in Nat /\ inFlight'[d] \in Nat
        /\ References(d)' = References(d) - a + b - inFlight[d] + inFlight'[d]
        /\ IsFiniteSet(Sharing(ofdt[p], d))
    BY <1>1, <1>3, <1>4, RefsAt
  <2>2. b = a + (IF d = ofd THEN 1 ELSE 0)
    BY <1>2, <2>1, SharingWith
  <2> HIDE DEF a, b
  <2>3. References(d)' = References(d) + (IF d = ofd THEN 1 ELSE 0)
    BY <1>1, <2>1, <2>2
  <2>4. d \in DOMAIN fileOf' <=> d \in DOMAIN fileOf \/ d = ofd
    BY <1>1 DEF With
  <2>5. CountOK(d \in DOMAIN fileOf, References(d), hostRefs[d], hostCloses[d])
    BY <1>4
  <2> QED BY <1>1, <2>1, <2>3, <2>4, <2>5 DEF CountOK
<1> QED BY <1>1, <1>4, <1>5 DEF HandlesInv

LEMMA DupHandles ==
    ASSUME TablesInv, HandlesInv, NEW p \in Procs, NEW s \in DOMAIN ofdt[p],
           NEW o2, o2 = More(ofdt[p], s), ofdt' = [ofdt EXCEPT ![p] = o2],
           inFlight' = inFlight, fileOf' = fileOf, hostRefs' = hostRefs, hostCloses' = hostCloses
    PROVE  HandlesInv' /\ \A d \in Ofds : References(d)' = References(d)
<1>1. TablesOK(fdt[p], ofdt[p], DOMAIN fileOf, failedOpens)
    BY ProcTables
<1>2. o2 \in [DOMAIN ofdt[p] -> OfdEntry] /\ DOMAIN ofdt[p] \subseteq Slots
    BY <1>1, MoreIs DEF TablesOK
<1>3. inFlight' \in [Ofds -> Nat] /\ \A d \in Ofds : inFlight'[d] <= MaxInFlight
    BY DEF HandlesInv
<1>4. ASSUME NEW d \in Ofds PROVE References(d)' = References(d)
  <2> DEFINE a == Cardinality(Sharing(ofdt[p], d))
             b == Cardinality(Sharing(o2, d))
  <2>1. Sharing(o2, d) = Sharing(ofdt[p], d)
    BY <1>1, SharingMore
  <2>2. DOMAIN o2 \subseteq Slots
    BY <1>2
  <2>3. /\ a \in Nat /\ b \in Nat /\ References(d) \in Nat
        /\ inFlight[d] \in Nat /\ inFlight'[d] \in Nat
        /\ References(d)' = References(d) - a + b - inFlight[d] + inFlight'[d]
    BY <1>3, <2>2, RefsAt
  <2>4. a = b
    BY <2>1
  <2> HIDE DEF a, b
  <2> QED BY <2>3, <2>4
<1> QED BY <1>3, <1>4, HandlesSame

LEMMA OneIs ==
    ASSUME NEW ofd
    PROVE  One(ofd) \in [Ofds -> Nat] /\ \A d \in Ofds : One(ofd)[d] = IF d = ofd THEN 1 ELSE 0
BY DEF One

(* References in messages, when no table changes *)
LEMMA RefsInFlight ==
    ASSUME TablesInv, HandlesInv, ofdt' = ofdt, inFlight' \in [Ofds -> Nat], NEW d \in Ofds
    PROVE  /\ References(d) \in Nat /\ inFlight[d] \in Nat /\ inFlight'[d] \in Nat
           /\ inFlight[d] <= References(d)
           /\ References(d)' = References(d) - inFlight[d] + inFlight'[d]
<1> DEFINE H == Cardinality(HoldersIn(ofdt, d))
<1>1. inFlight \in [Ofds -> Nat]
    BY DEF HandlesInv
<1>2. References(d) \in Nat /\ H \in Nat /\ References(d) = inFlight[d] + H
    BY <1>1, ReferencesNat
<1>3. References(d)' = inFlight'[d] + H
    BY ReferencesIs DEF RefsIn
<1> HIDE DEF H
<1> QED BY <1>1, <1>2, <1>3

LEMMA SlotReferenced ==
    ASSUME TablesInv, HandlesInv, NEW p \in Procs, NEW d \in Ofds, SlotsOf(p, d) # {}
    PROVE  References(d) # 0
<1>1. SlotTables(ofdt)
    BY DEF TablesInv, TablesOK, SlotTables
<1>2. inFlight \in [Ofds -> Nat]
    BY DEF HandlesInv
<1>3. References(d) = inFlight[d] + Cardinality(HoldersIn(ofdt, d))
    BY <1>2, ReferencesNat
<1>4. /\ Cardinality(HoldersIn(ofdt, d)) = Cardinality(Elsewhere(ofdt, p, d)) + Cardinality(Sharing(ofdt[p], d))
      /\ Cardinality(Elsewhere(ofdt, p, d)) \in Nat
    BY <1>1, HoldersSplit
<1>5. IsFiniteSet(Sharing(ofdt[p], d)) /\ Sharing(ofdt[p], d) # {}
  <2>1. Sharing(ofdt[p], d) = SlotsOf(p, d)
    BY DEF Sharing, SlotsOf
  <2> QED BY <1>1, <2>1, SharingFinite
<1>6. Cardinality(Sharing(ofdt[p], d)) \in Nat \ {0}
    BY <1>5, FS_CardinalityType, FS_EmptySet
<1> QED BY <1>2, <1>3, <1>4, <1>6

LEMMA SendHandles ==
    ASSUME TablesInv, HandlesInv, NEW p \in Procs, NEW fd \in Fds, Send(p, fd)
    PROVE  HandlesInv' /\ \A d \in Ofds : References(d) # 0 => References(d)' # 0
<1> DEFINE ofd == OfdAt(p, fd)
           adds == One(ofd)
<1>1. /\ fd \in DOMAIN fdt[p] /\ inFlight[ofd] < MaxInFlight
      /\ inFlight' = [inFlight EXCEPT ![ofd] = @ + 1] /\ hostRefs' = RefsPlus(adds)
      /\ hostCloses' = hostCloses /\ fileOf' = fileOf /\ ofdt' = ofdt
    BY DEF Send, tables
<1>2. ofd \in Ofds /\ SlotsOf(p, ofd) # {}
    BY <1>1, FdSlot
<1>3. References(ofd) # 0
    BY <1>2, SlotReferenced
<1> HIDE DEF ofd
<1>4. adds \in [Ofds -> Nat] /\ \A d \in Ofds : adds[d] = IF d = ofd THEN 1 ELSE 0
    BY OneIs
<1>5. /\ inFlight' \in [Ofds -> Nat] /\ \A d \in Ofds : inFlight'[d] <= MaxInFlight
      /\ \A d \in Ofds : inFlight'[d] = inFlight[d] + adds[d]
    BY <1>1, <1>2, <1>4, FileLocksConstants DEF HandlesInv
<1> HIDE DEF adds
<1>6. ASSUME NEW d \in Ofds
      PROVE  /\ adds[d] # 0 => References(d) # 0
             /\ References(d)' = References(d) + adds[d] /\ References(d) \in Nat /\ adds[d] \in Nat
  <2>1. /\ References(d) \in Nat /\ inFlight[d] \in Nat /\ inFlight'[d] \in Nat
        /\ References(d)' = References(d) - inFlight[d] + inFlight'[d]
    BY <1>1, <1>5, RefsInFlight
  <2> QED BY <1>3, <1>4, <1>5, <2>1
<1>7. HandlesInv'
    BY <1>1, <1>4, <1>5, <1>6, HandlesUp
<1>8. ASSUME NEW d \in Ofds, References(d) # 0 PROVE References(d)' # 0
    BY <1>6, <1>8
<1> QED BY <1>7, <1>8

LEMMA DiscardHandles ==
    ASSUME TablesInv, HandlesInv, NEW ofd \in Ofds, Discard(ofd)
    PROVE  /\ HandlesInv'
           /\ \A d \in Ofds : d \in FinalOfds(One(ofd)) <=> References(d) # 0 /\ References(d)' = 0
<1> DEFINE drops == One(ofd)
<1>1. /\ inFlight[ofd] > 0
      /\ inFlight' = [inFlight EXCEPT ![ofd] = @ - 1] /\ hostRefs' = RefsMinus(drops)
      /\ hostCloses' = ClosesPlus(drops) /\ fileOf' = fileOf /\ ofdt' = ofdt
    BY DEF Discard, Release, tables
<1>2. drops \in [Ofds -> Nat] /\ \A d \in Ofds : drops[d] = IF d = ofd THEN 1 ELSE 0
    BY OneIs
<1> HIDE DEF drops
<1>3. /\ inFlight' \in [Ofds -> Nat]
      /\ \A d \in Ofds : inFlight'[d] <= inFlight[d] /\ inFlight'[d] = inFlight[d] - drops[d]
    BY <1>1, <1>2 DEF HandlesInv
<1>4. ASSUME NEW d \in Ofds
      PROVE  drops[d] <= References(d) /\ References(d)' = References(d) - drops[d]
  <2>1. /\ References(d) \in Nat /\ inFlight[d] \in Nat /\ inFlight'[d] \in Nat
        /\ inFlight[d] <= References(d)
        /\ References(d)' = References(d) - inFlight[d] + inFlight'[d]
    BY <1>1, <1>3, RefsInFlight
  <2> QED BY <1>1, <1>2, <1>3, <2>1
<1> QED BY <1>1, <1>2, <1>3, <1>4, HandlesDown DEF drops

LEMMA ReceiveHandles ==
    ASSUME TablesInv, HandlesInv, NEW p \in Procs, NEW ofd \in Ofds, Receive(p, ofd)
    PROVE  HandlesInv' /\ \A d \in Ofds : References(d)' = References(d)
<1> DEFINE s == FreeSlot(p)
           o2 == With(ofdt[p], s, [ofd |-> ofd, refs |-> 1])
<1>1. /\ inFlight[ofd] > 0 /\ inFlight' = [inFlight EXCEPT ![ofd] = @ - 1]
      /\ fileOf' = fileOf /\ hostRefs' = hostRefs /\ hostCloses' = hostCloses
      /\ ofdt' = [ofdt EXCEPT ![p] = o2]
    BY DEF Receive
<1>2. s \in Slots /\ s \notin DOMAIN ofdt[p] /\ DOMAIN ofdt[p] \subseteq Slots
    BY FreeSlotIs DEF TablesInv, TablesOK
<1>3. DOMAIN o2 \subseteq Slots
    BY <1>2 DEF With
<1>4. /\ inFlight' \in [Ofds -> Nat] /\ \A d \in Ofds : inFlight'[d] <= MaxInFlight
      /\ \A d \in Ofds : inFlight'[d] = inFlight[d] - (IF d = ofd THEN 1 ELSE 0)
    BY <1>1, FileLocksConstants DEF HandlesInv
<1> HIDE DEF s
<1>5. ASSUME NEW d \in Ofds PROVE References(d)' = References(d)
  <2> DEFINE a == Cardinality(Sharing(ofdt[p], d))
             b == Cardinality(Sharing(o2, d))
  <2>1. /\ a \in Nat /\ b \in Nat /\ References(d) \in Nat
        /\ inFlight[d] \in Nat /\ inFlight'[d] \in Nat
        /\ References(d)' = References(d) - a + b - inFlight[d] + inFlight'[d]
        /\ IsFiniteSet(Sharing(ofdt[p], d))
    BY <1>1, <1>3, <1>4, RefsAt
  <2>2. b = a + (IF d = ofd THEN 1 ELSE 0)
    BY <1>2, <2>1, SharingWith
  <2> HIDE DEF a, b
  <2> QED BY <1>4, <2>1, <2>2
<1> QED BY <1>1, <1>4, <1>5, HandlesSame

LEMMA ForkHandles ==
    ASSUME TablesInv, HandlesInv, NEW p \in Procs, NEW child \in Procs, Fork(p, child)
    PROVE  HandlesInv' /\ \A d \in Ofds : References(d) # 0 => References(d)' # 0
<1> DEFINE f == fdt[p]
           o == ofdt[p]
           o2 == ChildSlots(f, o)
           adds == Drops(p, InheritedSlots(p))
<1>1. /\ proc[child] = "unborn" /\ fileOf' = fileOf /\ hostCloses' = hostCloses /\ inFlight' = inFlight
      /\ hostRefs' = RefsPlus(adds) /\ ofdt' = [ofdt EXCEPT ![child] = o2]
    BY HeirsAre DEF Fork
<1>2. TablesOK(f, o, DOMAIN fileOf, failedOpens) /\ failedOpens \in Nat
    BY ProcTables
<1>3. DOMAIN o2 \subseteq Slots
    BY <1>2, ForkTables DEF TablesOK
<1>4. ofdt[child] = << >>
    BY <1>1 DEF TablesInv, EmptyOK
<1>5. inFlight' \in [Ofds -> Nat] /\ \A d \in Ofds : inFlight'[d] <= MaxInFlight
    BY <1>1 DEF HandlesInv
<1>6. ASSUME NEW d \in Ofds
      PROVE  /\ adds[d] \in Nat /\ (adds[d] # 0 => References(d) # 0)
             /\ References(d) \in Nat /\ References(d)' = References(d) + adds[d]
  <2> DEFINE a == Cardinality(Sharing(ofdt[child], d))
             b == Cardinality(Sharing(o2, d))
  <2>1. Sharing(o2, d) = Sharing(o, d) \cap HeirSlots(f)
    BY <1>2, SharingChild
  <2>2. SlotsOf(p, d) = Sharing(o, d) /\ InheritedSlots(p) = HeirSlots(f)
    BY HeirsAre DEF SlotsOf, Sharing
  <2>3. adds[d] = b
    BY <2>1, <2>2 DEF Drops
  <2>4. SlotsOf(p, d) = {} => Sharing(o2, d) = {}
    BY <2>1, <2>2
  <2> HIDE DEF o2
  <2>5. /\ a \in Nat /\ b \in Nat /\ References(d) \in Nat
        /\ inFlight[d] \in Nat /\ inFlight'[d] \in Nat
        /\ References(d)' = References(d) - a + b - inFlight[d] + inFlight'[d]
    BY <1>1, <1>3, <1>5, RefsAt
  <2>6. a = 0
    BY <1>4, FS_EmptySet DEF Sharing
  <2>7. b # 0 => References(d) # 0
    BY <2>4, SlotReferenced, FS_EmptySet
  <2> HIDE DEF a, b
  <2> QED BY <1>1, <2>3, <2>5, <2>6, <2>7
<1>7. adds \in [Ofds -> Nat]
  <2>1. adds = [d \in Ofds |-> adds[d]]
    BY DEF Drops
  <2> QED BY <1>6, <2>1
<1> HIDE DEF adds
<1>8. HandlesInv'
    BY <1>1, <1>5, <1>6, <1>7, HandlesUp
<1>9. ASSUME NEW d \in Ofds, References(d) # 0 PROVE References(d)' # 0
    BY <1>6, <1>9
<1> QED BY <1>8, <1>9

-----------------------------------------------------------------------------
(* Locks on whole files *)
WholeRecord(file, owner, type) ==
    [file |-> file, owner |-> owner, type |-> type, start |-> 0, end |-> Eof]

LEMMA EofIs == MaxOffset \in Nat \ {0} /\ Eof \in Nat /\ Eof > 1 /\ Eof = MaxOffset + 1
BY LockConstants DEF Eof

LEMMA MergedWhole ==
    ASSUME NEW own, own \subseteq Records, Whole(own), NEW type
    PROVE  MergedRange(own, type, WholeFile) = WholeFile
<1> DEFINE P(m) == /\ Coalesced(own, type, WholeFile, m)
                   /\ \A n \in Ranges : Coalesced(own, type, WholeFile, n) => Contains(n, m)
<1>1. WholeFile \in Ranges /\ WholeFile.start = 0 /\ WholeFile.end = Eof
    BY EofIs DEF WholeFile, Ranges
<1>2. Coalesced(own, type, WholeFile, WholeFile)
    BY <1>1, EofIs DEF Coalesced, Contains, Whole
<1>3. \A m \in Ranges : Contains(m, WholeFile) => m = WholeFile
  <2> SUFFICES ASSUME NEW m \in Ranges, Contains(m, WholeFile) PROVE m = WholeFile
    OBVIOUS
  <2>1. m \in [start : 0 .. MaxOffset, end : 1 .. Eof]
    BY DEF Ranges
  <2>2. m.start = 0 /\ m.end = Eof
    BY <1>1, <2>1, EofIs DEF Contains
  <2> QED BY <2>1, <2>2 DEF WholeFile
<1>4. P(WholeFile)
    BY <1>2 DEF Coalesced
<1>5. \A m : P(m) => Contains(m, WholeFile)
    BY DEF Coalesced
<1> HIDE DEF P
<1>6. P(CHOOSE m \in Ranges : P(m)) /\ (CHOOSE m \in Ranges : P(m)) \in Ranges
    BY <1>1, <1>4
<1> QED BY <1>3, <1>5, <1>6 DEF MergedRange, P

LEMMA AppliedWhole ==
    ASSUME NEW recs, recs \subseteq Records, Whole(recs), NEW file, NEW owner, NEW type
    PROVE  LET own == Own(recs, file, owner)
               new == WholeRecord(file, owner, type)
           IN  /\ Applied(recs, file, owner, type, WholeFile) =
                     IF type = "Unlock" THEN recs \ own ELSE (recs \ own) \cup {new}
               /\ NoOp(recs, file, owner, type, WholeFile) <=>
                     IF type = "Unlock" THEN own = {} ELSE own = {new}
<1> DEFINE own == Own(recs, file, owner)
           new == WholeRecord(file, owner, type)
<1>1. own \subseteq Records /\ Whole(own)
    BY DEF Own, Whole
<1>2. WholeFile.start = 0 /\ WholeFile.end = Eof
    BY DEF WholeFile
<1>3. MergedRange(own, type, WholeFile) = WholeFile
    BY <1>1, MergedWhole
<1> HIDE DEF own
<1>4. \A r \in own : Overlaps(r, WholeFile)
    BY <1>1, <1>2, EofIs DEF Overlaps, Whole
<1>5. Removed(own, type, WholeFile) = own
    BY <1>4 DEF Removed
<1>6. LeftFragments(own, type, WholeFile) = {}
    BY <1>1, <1>2, EofIs DEF LeftFragments, Whole
<1>7. RightFragments(own, type, WholeFile) = {}
    BY <1>1, <1>2, EofIs DEF RightFragments, Whole
<1>8. Replacement(own, file, owner, type, WholeFile) = IF type = "Unlock" THEN {} ELSE {new}
    BY <1>2, <1>3 DEF Replacement, WholeRecord
<1> HIDE DEF new
<1>9. Applied(recs, file, owner, type, WholeFile) =
          IF type = "Unlock" THEN recs \ own ELSE (recs \ own) \cup {new}
    BY <1>5, <1>6, <1>7, <1>8 DEF Applied, Pieces, own
<1>10. NoOp(recs, file, owner, type, WholeFile) <=>
          IF type = "Unlock" THEN own = {} ELSE own = {new}
    BY <1>5, <1>8 DEF NoOp, own
<1> QED BY <1>9, <1>10 DEF own, new

(* What a lock call on a whole file may do to the table *)
LEMMA SetWhole ==
    ASSUME NEW recs, recs \subseteq Records, Whole(recs), NEW file, NEW owner, NEW type
    PROVE  LET new == WholeRecord(file, owner, type)
               own == Own(recs, file, owner)
               after == SetLockRecords(recs, file, owner, type, WholeFile)
           IN  /\ \/ after = recs
                  \/ type = "Unlock" /\ after = recs \ own
                  \/ type # "Unlock" /\ after = (recs \ own) \cup {new}
               /\ SetLockError(recs, file, owner, type, WholeFile) = "EAGAIN" =>
                     after = recs /\ \E y \in recs : Blocks(y, file, owner, type, WholeFile)
               /\ ~ SetLockMayUnblock(recs, file, owner, type, WholeFile) =>
                     \/ after = recs
                     \/ /\ type # "Unlock" /\ after = (recs \ own) \cup {new}
                        /\ \A y \in own : y.type = type
               /\ after # recs /\ type # "Unlock" =>
                     ~ \E y \in recs : Blocks(y, file, owner, type, WholeFile)
<1> DEFINE new == WholeRecord(file, owner, type)
           own == Own(recs, file, owner)
           A == Applied(recs, file, owner, type, WholeFile)
           after == SetLockRecords(recs, file, owner, type, WholeFile)
           err == SetLockError(recs, file, owner, type, WholeFile)
<1>1. A = IF type = "Unlock" THEN recs \ own ELSE (recs \ own) \cup {new}
    BY AppliedWhole
<1>2. NoOp(recs, file, owner, type, WholeFile) <=>
          IF type = "Unlock" THEN own = {} ELSE own = {new}
    BY AppliedWhole
<1>3. after = IF err = "OK" THEN A ELSE recs
    BY DEF SetLockRecords
<1>4. \/ err = "EAGAIN" /\ type # "Unlock" /\ \E y \in recs : Blocks(y, file, owner, type, WholeFile)
      \/ err \in {"OK", "ENOLCK"}
            /\ (type # "Unlock" => ~ \E y \in recs : Blocks(y, file, owner, type, WholeFile))
    BY DEF SetLockError, Blocked
<1>5. \A y \in own : Overlaps(y, WholeFile)
    BY EofIs DEF Overlaps, Whole, WholeFile, Own
<1>6. own \subseteq recs
    BY DEF Own
<1>7. ~ SetLockMayUnblock(recs, file, owner, type, WholeFile) =>
          \/ err # "OK"
          \/ NoOp(recs, file, owner, type, WholeFile)
          \/ type # "Unlock" /\ \A y \in own : y.type = type
    BY <1>5 DEF SetLockMayUnblock
<1> HIDE DEF new, own, A, after, err
<1>8. NoOp(recs, file, owner, type, WholeFile) => A = recs
    BY <1>1, <1>2, <1>6
<1>9. \/ after = recs
      \/ type = "Unlock" /\ after = recs \ own
      \/ type # "Unlock" /\ after = (recs \ own) \cup {new}
    BY <1>1, <1>3
<1>10. err = "EAGAIN" => after = recs /\ \E y \in recs : Blocks(y, file, owner, type, WholeFile)
    BY <1>3, <1>4
<1>11. ~ SetLockMayUnblock(recs, file, owner, type, WholeFile) =>
          \/ after = recs
          \/ type # "Unlock" /\ after = (recs \ own) \cup {new} /\ \A y \in own : y.type = type
    BY <1>1, <1>3, <1>7, <1>8
<1>12. after # recs /\ type # "Unlock" =>
          ~ \E y \in recs : Blocks(y, file, owner, type, WholeFile)
    BY <1>3, <1>4
<1> QED BY <1>9, <1>10, <1>11, <1>12 DEF new, own, after, err

-----------------------------------------------------------------------------
(* Lock calls *)
Asked(p, ofd, kind, type) == WholeRecord(fileOf[ofd], OwnerOf(p, ofd, kind), type)

LEMMA DropIs ==
    ASSUME LocksInv, NEW p, NEW ofd, NEW kind, NEW type
    PROVE  LET base == AfterDrop(p, ofd, kind, type)
           IN  base \subseteq records /\ base \subseteq Records /\ Whole(base)
<1>1. AfterDrop(p, ofd, kind, type) \subseteq records
    BY DEF AfterDrop, RemoveFileOwner
<1> QED BY <1>1 DEF LocksInv, Whole

LEMMA AttemptIs ==
    ASSUME LocksInv, wake \in BOOLEAN, NEW p, NEW ofd, NEW kind, NEW type, Attempt(p, ofd, kind, type)
    PROVE  LET new == Asked(p, ofd, kind, type)
           IN  /\ wake' \in BOOLEAN
               /\ \A r \in records' : r \in records \/ (type # "Unlock" /\ r = new)
               /\ wake => wake'
               /\ ~ wake' => \A y \in records :
                     y \in records' \/ (/\ new \in records' /\ y.type = new.type
                                        /\ y.file = new.file /\ y.owner = new.owner)
<1> DEFINE file == fileOf[ofd]
           owner == OwnerOf(p, ofd, kind)
           new == Asked(p, ofd, kind, type)
           base == AfterDrop(p, ofd, kind, type)
           own == Own(base, file, owner)
<1>1. base \subseteq records /\ base \subseteq Records /\ Whole(base)
    BY DropIs
<1>2. CASE records' = records /\ wake' = wake
    BY <1>2
<1>3. CASE /\ records' = SetLockRecords(base, file, owner, type, WholeFile)
           /\ wake' = \/ wake
                      \/ base # records
                      \/ SetLockMayUnblock(base, file, owner, type, WholeFile)
  <2>1. new = WholeRecord(file, owner, type)
    BY DEF Asked
  <2>2. \/ records' = base
        \/ type = "Unlock" /\ records' = base \ own
        \/ type # "Unlock" /\ records' = (base \ own) \cup {new}
    BY <1>1, <1>3, <2>1, SetWhole
  <2>3. ~ SetLockMayUnblock(base, file, owner, type, WholeFile) =>
            \/ records' = base
            \/ type # "Unlock" /\ records' = (base \ own) \cup {new} /\ \A y \in own : y.type = type
    BY <1>1, <1>3, <2>1, SetWhole
  <2>4. \A y \in own : y.file = file /\ y.owner = owner
    BY DEF Own
  <2>5. new.file = file /\ new.owner = owner /\ new.type = type
    BY <2>1 DEF WholeRecord
  <2>6. SetLockMayUnblock(base, file, owner, type, WholeFile) \in BOOLEAN
    BY DEF SetLockMayUnblock
  <2> HIDE DEF base, own, new, file, owner
  <2>7. \A r \in records' : r \in records \/ (type # "Unlock" /\ r = new)
    BY <1>1, <2>2
  <2>8. wake' \in BOOLEAN /\ (wake => wake')
    BY <1>3, <2>6
  <2>9. ~ wake' => \A y \in records :
            y \in records' \/ (/\ new \in records' /\ y.type = new.type
                               /\ y.file = new.file /\ y.owner = new.owner)
    <3>1. SUFFICES ASSUME ~ wake', NEW y \in records
                   PROVE  y \in records' \/ (/\ new \in records' /\ y.type = new.type
                                             /\ y.file = new.file /\ y.owner = new.owner)
        OBVIOUS
    <3>2. base = records /\ ~ SetLockMayUnblock(base, file, owner, type, WholeFile)
        BY <1>3, <3>1
    <3> QED BY <2>3, <2>4, <2>5, <3>2
  <2> QED BY <2>7, <2>8, <2>9 DEF new
<1> QED BY <1>2, <1>3 DEF Attempt

(* A call that has to wait leaves a conflict behind. *)
LEMMA AttemptBlocked ==
    ASSUME LocksInv, NEW p, NEW ofd, NEW kind, NEW type, Attempt(p, ofd, kind, type),
           Error(p, ofd, kind, type) = "EAGAIN"
    PROVE  /\ records' = AfterDrop(p, ofd, kind, type)
           /\ \E y \in records' : Blocks(y, fileOf[ofd], OwnerOf(p, ofd, kind), type, WholeFile)
<1> DEFINE file == fileOf[ofd]
           owner == OwnerOf(p, ofd, kind)
           base == AfterDrop(p, ofd, kind, type)
<1>1. base \subseteq records /\ base \subseteq Records /\ Whole(base)
    BY DropIs
<1>2. /\ ~ AlreadyHeld(ofd, kind, type)
      /\ SetLockError(base, file, owner, type, WholeFile) = "EAGAIN"
    BY DEF Error
<1>3. records' = SetLockRecords(base, file, owner, type, WholeFile)
    BY <1>2 DEF Attempt
<1>4. /\ SetLockRecords(base, file, owner, type, WholeFile) = base
      /\ \E y \in base : Blocks(y, file, owner, type, WholeFile)
    BY <1>1, <1>2, SetWhole
<1> QED BY <1>3, <1>4

LEMMA AskedIs ==
    ASSUME TablesInv, NEW p \in Procs, NEW ofd \in DOMAIN fileOf, NEW kind \in LockKinds,
           NEW type \in LockTypes
    PROVE  LET new == Asked(p, ofd, kind, type)
           IN  /\ new \in Records /\ new.start = 0 /\ new.end = Eof /\ new.file = fileOf[ofd]
               /\ new.owner = OwnerOf(p, ofd, kind) /\ new.type = type
               /\ kind = "Process" => new.owner.kind = "Process" /\ new.owner.id = p
               /\ kind # "Process" => new.owner.kind = kind /\ new.owner.id = ofd
<1> DEFINE new == Asked(p, ofd, kind, type)
           owner == OwnerOf(p, ofd, kind)
<1>1. ofd \in Ofds /\ fileOf[ofd] \in Files
    BY DEF TablesInv
<1>2. kind \in {"Process", "Ofd", "Flock"}
    BY FileLocksConstants
<1>3. /\ owner \in Owners
      /\ kind = "Process" => owner.kind = "Process" /\ owner.id = p
      /\ kind # "Process" => owner.kind = kind /\ owner.id = ofd
    BY <1>1, <1>2 DEF OwnerOf, Owners, ProcessOwner, OfdOwner, FlockOwner
<1> HIDE DEF owner
<1>4. new = [file |-> fileOf[ofd], owner |-> owner, type |-> type, start |-> 0, end |-> Eof]
    BY DEF Asked, WholeRecord, owner
<1>5. new \in Records
    BY <1>1, <1>3, <1>4, EofIs DEF Records
<1> QED BY <1>3, <1>4, <1>5 DEF owner

-----------------------------------------------------------------------------
(* Records and parked requests, when tables or handles change *)
LEMMA RecordIs ==
    ASSUME LocksInv, NEW r \in records
    PROVE  /\ r \in Records /\ r.start = 0 /\ r.end = Eof /\ OwnerOK(r)
           /\ r.owner.kind \in {"Process", "Ofd", "Flock"}
           /\ r.owner.kind = "Process" => r.owner = ProcessOwner(r.owner.id) /\ r.owner.id \in Procs
           /\ r.owner.kind = "Ofd" => r.owner = OfdOwner(r.owner.id) /\ r.owner.id \in Ofds
           /\ r.owner.kind = "Flock" => r.owner = FlockOwner(r.owner.id) /\ r.owner.id \in Ofds
<1>1. r \in Records /\ r.start = 0 /\ r.end = Eof /\ OwnerOK(r)
    BY DEF LocksInv, Whole
<1>2. r.owner \in Owners
    BY <1>1 DEF Records
<1> QED BY <1>1, <1>2 DEF Owners, ProcessOwner, OfdOwner, FlockOwner

(* A step that changes the tables of process p to f2 and o2, without the     *)
(* descriptors in gone and the OFDs in F, keeps only locks of the others.    *)
FilesKept == \A d \in DOMAIN fileOf : d \in DOMAIN fileOf' /\ fileOf'[d] = fileOf[d]
FdsKept(p, f2, o2, gone) ==
    \A x \in DOMAIN fdt[p] \ gone : x \in DOMAIN f2 /\ o2[f2[x].slot].ofd = OfdAt(p, x)
RecordsKept(p, gone, F) ==
    \A r \in records' :
        /\ r \in records
        /\ r.owner.kind = "Process" /\ r.owner.id = p =>
              \A x \in DOMAIN fdt[p] \cap gone : fileOf[OfdAt(p, x)] # r.file
        /\ r.owner.kind # "Process" => r.owner.id \notin F
RefsKept(F) == \A d \in Ofds : References(d) # 0 /\ d \notin F => References(d)' # 0

LEMMA LocksKept ==
    ASSUME TablesInv, LocksInv, NEW p \in Procs, NEW f2, NEW o2, NEW gone, NEW F,
           fdt' = [fdt EXCEPT ![p] = f2], ofdt' = [ofdt EXCEPT ![p] = o2],
           FilesKept, FdsKept(p, f2, o2, gone), RecordsKept(p, gone, F), RefsKept(F)
    PROVE  LocksInv'
<1> USE DEF FilesKept, FdsKept, RecordsKept, RefsKept
<1>1. records' \subseteq Records /\ Whole(records)'
    BY DEF LocksInv, Whole
<1>2. ASSUME NEW r \in records' PROVE OwnerOK(r)'
  <2>1. r \in records /\ OwnerOK(r) /\ r.owner.kind \in {"Process", "Ofd", "Flock"}
    BY RecordIs
  <2>2. CASE r.owner.kind = "Process"
    <3> DEFINE q == r.owner.id
    <3>1. q \in Procs /\ Descends(fdt[q], ofdt[q], fileOf, r.file)
        BY <2>1, <2>2 DEF OwnerOK
    <3>2. PICK x \in DOMAIN fdt[q] : fileOf[OfdAt(q, x)] = r.file
        BY <3>1 DEF Descends, OfdAt
    <3>3. OfdAt(q, x) \in DOMAIN fileOf
        BY <3>1, <3>2, FdSlot
    <3>4. CASE q = p
      <4>1. x \notin gone
        BY <2>2, <3>2, <3>4
      <4>2. x \in DOMAIN f2 /\ o2[f2[x].slot].ofd = OfdAt(q, x)
        BY <3>2, <3>4, <4>1
      <4>3. fdt'[q] = f2 /\ ofdt'[q] = o2
        BY <3>4 DEF TablesInv
      <4>4. fileOf'[o2[f2[x].slot].ofd] = r.file
        BY <3>2, <3>3, <4>2
      <4>5. Descends(f2, o2, fileOf', r.file)
        BY <4>2, <4>4 DEF Descends
      <4> QED BY <2>2, <3>1, <4>3, <4>5 DEF OwnerOK
    <3>5. CASE q # p
      <4>1. fdt'[q] = fdt[q] /\ ofdt'[q] = ofdt[q]
        BY <3>1, <3>5 DEF TablesInv
      <4>2. fileOf'[OfdAt(q, x)] = r.file
        BY <3>2, <3>3
      <4>3. Descends(fdt[q], ofdt[q], fileOf', r.file)
        BY <3>2, <4>2 DEF Descends, OfdAt
      <4> QED BY <2>2, <3>1, <4>1, <4>3 DEF OwnerOK
    <3> QED BY <3>4, <3>5
  <2>3. CASE r.owner.kind # "Process"
    <3> DEFINE d == r.owner.id
    <3>1. d \in DOMAIN fileOf /\ fileOf[d] = r.file /\ References(d) # 0
        BY <2>1, <2>3 DEF OwnerOK
    <3>2. d \in Ofds /\ d \notin F
        BY <2>3, <3>1 DEF TablesInv
    <3>3. References(d)' # 0 /\ d \in DOMAIN fileOf' /\ fileOf'[d] = r.file
        BY <3>1, <3>2
    <3> QED BY <2>3, <3>3 DEF OwnerOK
  <2> QED BY <2>2, <2>3
<1> QED BY <1>1, <1>2 DEF LocksInv

LEMMA LocksGrow ==
    ASSUME TablesInv, LocksInv, NEW p \in Procs, NEW f2, NEW o2,
           fdt' = [fdt EXCEPT ![p] = f2], ofdt' = [ofdt EXCEPT ![p] = o2], records' = records,
           FilesKept, FdsKept(p, f2, o2, {}), RefsKept({})
    PROVE  LocksInv'
<1>1. RecordsKept(p, {}, {})
    BY DEF RecordsKept
<1> QED BY <1>1, LocksKept

LEMMA WaitersKept ==
    ASSUME WaitersInv, retrying = {}, retrying' = {}, parked' \subseteq parked,
           \A r \in parked' : proc'[r.proc] = "live",
           wake' = (wake \/ records' # records), FilesKept
    PROVE  WaitersInv'
<1> USE DEF FilesKept
<1>1. /\ wake' \in BOOLEAN /\ parked' \subseteq Requests /\ retrying' \subseteq parked'
      /\ \A r \in parked' : proc'[r.proc] = "live" /\ r.ofd \in DOMAIN fileOf'
    BY DEF WaitersInv
<1>2. ASSUME ~ wake', NEW r \in parked' PROVE Waits(r)'
  <2>1. ~ wake /\ records' = records /\ r \in parked \ retrying
    BY <1>2
  <2>2. PICK y \in records : Conflict(y, r)
    BY <2>1 DEF WaitersInv, Waits
  <2>3. fileOf'[r.ofd] = fileOf[r.ofd]
    BY <2>1 DEF WaitersInv
  <2>4. Conflict(y, r)'
    BY <2>2, <2>3 DEF Conflict, OwnerOf
  <2> QED BY <2>1, <2>2, <2>4 DEF Waits
<1> QED BY <1>1, <1>2 DEF WaitersInv

(* A lock of an OFD goes only with its last reference. *)
Survives ==
    \A r \in records : r.owner.kind # "Process" /\ r \notin records' => References(r.owner.id)' = 0

LEMMA OpenRest ==
    ASSUME IInv, NEW p \in Procs, NEW ofd \in Ofds, NEW file \in Files, NEW flags \in FdFlags,
           Open(p, ofd, file, flags)
    PROVE  IInv' /\ Survives
<1> DEFINE s == FreeSlot(p)
           o2 == With(ofdt[p], s, [ofd |-> ofd, refs |-> 1])
           f2 == fdt'[p]
<1> USE DEF IInv
<1>1. /\ retrying = {} /\ ofd \notin DOMAIN fileOf /\ fileOf' = With(fileOf, ofd, file)
      /\ ofdt' = [ofdt EXCEPT ![p] = o2] /\ proc' = proc
      /\ records' = records /\ wake' = wake /\ parked' = parked /\ retrying' = retrying
    BY DEF Open, Idle, waiters
<1>2. TablesInv'
    BY OpenTables
<1>3. HandlesInv' /\ \A d \in Ofds : References(d) # 0 => References(d)' # 0
    BY OpenHandles
<1>4. FilesKept
    BY <1>1 DEF With, FilesKept
<1>5. fdt' = [fdt EXCEPT ![p] = f2] /\ \A x \in DOMAIN fdt[p] : x \in DOMAIN f2 /\ f2[x] = fdt[p][x]
  <2>1. CASE FreeFds(p) # {} /\ fdt' = [fdt EXCEPT ![p] = With(@, Min(FreeFds(p)), [slot |-> s, flags |-> flags])]
    <3>1. Min(FreeFds(p)) \notin DOMAIN fdt[p]
        BY <2>1, FreeFdIs
    <3>2. fdt'[p] = With(fdt[p], Min(FreeFds(p)), [slot |-> s, flags |-> flags])
        BY <2>1 DEF TablesInv
    <3>3. fdt' = [fdt EXCEPT ![p] = f2]
        BY <2>1, <3>2
    <3>4. \A x \in DOMAIN fdt[p] : x \in DOMAIN f2 /\ f2[x] = fdt[p][x]
        BY <3>1, <3>2 DEF With
    <3> QED BY <3>3, <3>4
  <2>2. CASE fdt' = fdt
    BY <2>2, ProcTables
  <2> QED BY <2>1, <2>2 DEF Open
<1>6. \A x \in DOMAIN fdt[p] : o2[fdt[p][x].slot].ofd = OfdAt(p, x)
  <2>1. s \notin DOMAIN ofdt[p]
    BY FreeSlotIs
  <2>2. \A x \in DOMAIN fdt[p] : fdt[p][x].slot \in DOMAIN ofdt[p]
    BY FdSlot
  <2> QED BY <2>1, <2>2 DEF With, OfdAt
<1>7. FdsKept(p, f2, o2, {}) /\ RefsKept({})
    BY <1>3, <1>5, <1>6 DEF FdsKept, RefsKept
<1> HIDE DEF f2, o2, s
<1>8. LocksInv'
    BY <1>1, <1>4, <1>5, <1>7, LocksGrow
<1>9. WaitersInv'
    BY <1>1, <1>4, WaitersKept DEF WaitersInv
<1> QED BY <1>1, <1>2, <1>3, <1>8, <1>9 DEF Survives

FdsGrow(p, f2) ==
    /\ fdt' = [fdt EXCEPT ![p] = f2]
    /\ \A x \in DOMAIN fdt[p] : x \in DOMAIN f2 /\ f2[x] = fdt[p][x]

(* One more reference to a slot, and perhaps a descriptor for it *)
LEMMA MoreRest ==
    ASSUME IInv, TablesInv', NEW p \in Procs, NEW s \in DOMAIN ofdt[p], NEW f2,
           ofdt' = [ofdt EXCEPT ![p] = More(ofdt[p], s)], FdsGrow(p, f2),
           retrying = {}, proc' = proc, fileOf' = fileOf, UNCHANGED <<handles, records, wake, waiters>>
    PROVE  IInv' /\ Survives
<1> DEFINE o2 == More(ofdt[p], s)
<1> USE DEF IInv
<1>1. /\ inFlight' = inFlight /\ hostRefs' = hostRefs /\ hostCloses' = hostCloses
      /\ records' = records /\ wake' = wake /\ parked' = parked /\ retrying' = retrying
    BY DEF handles, waiters
<1>2. TablesOK(fdt[p], ofdt[p], DOMAIN fileOf, failedOpens)
    BY ProcTables
<1>3. \A x \in DOMAIN ofdt[p] : o2[x].ofd = ofdt[p][x].ofd
    BY <1>2, MoreIs DEF TablesOK
<1>4. \A x \in DOMAIN fdt[p] : fdt[p][x].slot \in DOMAIN ofdt[p]
    BY FdSlot
<1> HIDE DEF o2
<1>5. ofdt' = [ofdt EXCEPT ![p] = o2] /\ o2 = More(ofdt[p], s)
    BY DEF o2
<1>6. HandlesInv' /\ \A d \in Ofds : References(d)' = References(d)
    BY <1>1, <1>5, DupHandles
<1>7. FdsKept(p, f2, o2, {})
    BY <1>3, <1>4 DEF FdsKept, FdsGrow, OfdAt
<1>8. FilesKept /\ RefsKept({}) /\ fdt' = [fdt EXCEPT ![p] = f2]
    BY <1>6 DEF FilesKept, RefsKept, FdsGrow
<1>9. LocksInv'
    BY <1>1, <1>5, <1>7, <1>8, LocksGrow
<1>10. WaitersInv'
    BY <1>1, <1>8, WaitersKept DEF WaitersInv
<1> QED BY <1>1, <1>6, <1>9, <1>10 DEF Survives

LEMMA FdAdded ==
    ASSUME TablesInv, NEW p \in Procs, FreeFds(p) # {}, NEW e,
           fdt' = [fdt EXCEPT ![p] = With(@, Min(FreeFds(p)), e)]
    PROVE  FdsGrow(p, With(fdt[p], Min(FreeFds(p)), e))
<1>1. Min(FreeFds(p)) \notin DOMAIN fdt[p]
    BY FreeFdIs
<1> QED BY <1>1 DEF With, FdsGrow

LEMMA DevFdRest ==
    ASSUME IInv, NEW p \in Procs, NEW fd \in Fds, NEW flags \in FdFlags, OpenDevFd(p, fd, flags)
    PROVE  IInv' /\ Survives
<1> DEFINE s == fdt[p][fd].slot
           e == [slot |-> s, flags |-> flags]
<1>1. TablesInv /\ TablesInv'
    BY DevFdTables DEF IInv
<1>2. /\ fd \in DOMAIN fdt[p] /\ proc' = proc /\ fileOf' = fileOf /\ retrying = {}
      /\ ofdt' = [ofdt EXCEPT ![p][s].refs = @ + 1] /\ UNCHANGED <<handles, records, wake, waiters>>
    BY DEF OpenDevFd, Idle
<1>3. s \in DOMAIN ofdt[p]
    BY <1>1, <1>2, FdSlot
<1>4. ofdt' = [ofdt EXCEPT ![p] = More(ofdt[p], s)]
    BY <1>1, <1>2, MoreAt
<1>5. PICK f2 : FdsGrow(p, f2)
  <2>1. CASE FreeFds(p) # {} /\ fdt' = [fdt EXCEPT ![p] = With(@, Min(FreeFds(p)), e)]
    <3> HIDE DEF e
    <3> QED BY <1>1, <2>1, FdAdded
  <2>2. CASE fdt' = fdt
    <3>1. FdsGrow(p, fdt[p])
        BY <1>1, <2>2, ProcTables DEF FdsGrow
    <3> QED BY <3>1
  <2> QED BY <2>1, <2>2 DEF OpenDevFd
<1> HIDE DEF s
<1> QED BY <1>1, <1>2, <1>3, <1>4, <1>5, MoreRest

LEMMA DupRest ==
    ASSUME IInv, NEW p \in Procs, NEW fd \in Fds, Dup(p, fd)
    PROVE  IInv' /\ Survives
<1> DEFINE s == fdt[p][fd].slot
           e == [slot |-> s, flags |-> {}]
<1>1. TablesInv /\ TablesInv'
    BY DupOnlyTables DEF IInv
<1>2. /\ fd \in DOMAIN fdt[p] /\ proc' = proc /\ fileOf' = fileOf /\ retrying = {}
      /\ ofdt' = [ofdt EXCEPT ![p][s].refs = @ + 1] /\ UNCHANGED <<handles, records, wake, waiters>>
    BY DEF Dup, Idle
<1>3. s \in DOMAIN ofdt[p]
    BY <1>1, <1>2, FdSlot
<1>4. ofdt' = [ofdt EXCEPT ![p] = More(ofdt[p], s)]
    BY <1>1, <1>2, MoreAt
<1>5. PICK f2 : FdsGrow(p, f2)
  <2>1. FreeFds(p) # {} /\ fdt' = [fdt EXCEPT ![p] = With(@, Min(FreeFds(p)), e)]
    BY DEF Dup
  <2> HIDE DEF e
  <2> QED BY <1>1, <2>1, FdAdded
<1> HIDE DEF s
<1> QED BY <1>1, <1>2, <1>3, <1>4, <1>5, MoreRest

LEMMA ReceiveRest ==
    ASSUME IInv, NEW p \in Procs, NEW ofd \in Ofds, Receive(p, ofd)
    PROVE  IInv' /\ Survives
<1> DEFINE s == FreeSlot(p)
           o2 == With(ofdt[p], s, [ofd |-> ofd, refs |-> 1])
           e == [slot |-> s, flags |-> {}]
           f2 == With(fdt[p], Min(FreeFds(p)), e)
<1>1. TablesInv /\ HandlesInv /\ LocksInv /\ WaitersInv
    BY DEF IInv
<1>2. /\ inFlight[ofd] > 0 /\ retrying = {} /\ proc' = proc /\ fileOf' = fileOf /\ records' = records
      /\ wake' = wake /\ parked' = parked /\ retrying' = retrying
      /\ ofdt' = [ofdt EXCEPT ![p] = o2] /\ fdt' = [fdt EXCEPT ![p] = f2] /\ FreeFds(p) # {}
    BY DEF Receive, Idle, waiters
<1>3. ofd \in DOMAIN fileOf
    BY <1>1, <1>2, InFlightKnown
<1>4. TablesInv'
    BY <1>1, <1>3, ReceiveTables
<1>5. HandlesInv' /\ \A d \in Ofds : References(d)' = References(d)
    BY <1>1, ReceiveHandles
<1>6. \A x \in DOMAIN ofdt[p] : o2[x] = ofdt[p][x]
    BY <1>1, FreeSlotIs DEF With
<1>7. \A x \in DOMAIN fdt[p] : x \in DOMAIN f2 /\ f2[x] = fdt[p][x] /\ fdt[p][x].slot \in DOMAIN ofdt[p]
  <2>1. Min(FreeFds(p)) \notin DOMAIN fdt[p]
    BY <1>2, FreeFdIs
  <2>2. \A x \in DOMAIN fdt[p] : fdt[p][x].slot \in DOMAIN ofdt[p]
    BY <1>1, FdSlot
  <2> QED BY <2>1, <2>2 DEF With
<1> HIDE DEF o2, f2
<1>8. FdsKept(p, f2, o2, {})
    BY <1>6, <1>7 DEF FdsKept, OfdAt
<1>9. FilesKept /\ RefsKept({})
    BY <1>2, <1>5 DEF FilesKept, RefsKept
<1>10. LocksInv'
    BY <1>1, <1>2, <1>8, <1>9, LocksGrow
<1>11. WaitersInv'
    BY <1>1, <1>2, <1>9, WaitersKept DEF WaitersInv
<1> QED BY <1>2, <1>4, <1>5, <1>10, <1>11 DEF Survives, IInv

LEMMA ForkRest ==
    ASSUME IInv, NEW p \in Procs, NEW child \in Procs, Fork(p, child)
    PROVE  IInv' /\ Survives
<1> DEFINE f2 == ChildFds(fdt[p])
           o2 == ChildSlots(fdt[p], ofdt[p])
<1>1. TablesInv /\ HandlesInv /\ LocksInv /\ WaitersInv
    BY DEF IInv
<1>2. /\ retrying = {} /\ proc[child] = "unborn" /\ proc' = [proc EXCEPT ![child] = "live"]
      /\ fileOf' = fileOf /\ records' = records
      /\ wake' = wake /\ parked' = parked /\ retrying' = retrying
      /\ ofdt' = [ofdt EXCEPT ![child] = o2] /\ fdt' = [fdt EXCEPT ![child] = f2]
    BY HeirsAre DEF Fork, Idle, waiters
<1>3. TablesInv'
    BY <1>1, ForkChildTables
<1>4. HandlesInv' /\ \A d \in Ofds : References(d) # 0 => References(d)' # 0
    BY <1>1, ForkHandles
<1>5. DOMAIN fdt[child] = {}
    BY <1>1, <1>2 DEF TablesInv, EmptyOK
<1> HIDE DEF f2, o2
<1>6. FdsKept(child, f2, o2, {})
    BY <1>5 DEF FdsKept
<1>7. FilesKept /\ RefsKept({})
    BY <1>2, <1>4 DEF FilesKept, RefsKept
<1>8. LocksInv'
    BY <1>1, <1>2, <1>6, <1>7, LocksGrow
<1>9. \A r \in parked' : proc'[r.proc] = "live"
    BY <1>1, <1>2 DEF WaitersInv, TablesInv, Requests
<1>10. WaitersInv'
    BY <1>1, <1>2, <1>7, <1>9, WaitersKept DEF WaitersInv
<1> QED BY <1>2, <1>3, <1>4, <1>8, <1>10 DEF Survives, IInv

LEMMA CreateRest ==
    ASSUME IInv, NEW p \in Procs, Create(p)
    PROVE  IInv' /\ Survives
<1> DEFINE f2 == fdt[p]
           o2 == ofdt[p]
<1>1. TablesInv /\ HandlesInv /\ LocksInv /\ WaitersInv
    BY DEF IInv
<1>2. /\ retrying = {} /\ proc' = [proc EXCEPT ![p] = "live"] /\ fileOf' = fileOf /\ records' = records
      /\ wake' = wake /\ parked' = parked /\ retrying' = retrying
      /\ ofdt' = ofdt /\ fdt' = fdt /\ UNCHANGED handles
    BY DEF Create, Idle, waiters
<1>3. TablesInv'
    BY <1>1, CreateTables
<1>4. \A d \in Ofds : References(d)' = References(d)
    BY <1>2 DEF References, Holders, SlotsOf, handles
<1>5. HandlesInv'
    BY <1>1, <1>2, <1>4 DEF HandlesInv, handles
<1>6. FdsKept(p, f2, o2, {}) /\ FilesKept /\ RefsKept({})
    BY <1>2, <1>4 DEF FdsKept, OfdAt, FilesKept, RefsKept
<1>7. fdt' = [fdt EXCEPT ![p] = f2] /\ ofdt' = [ofdt EXCEPT ![p] = o2]
    BY <1>1, <1>2, ProcTables
<1> HIDE DEF f2, o2
<1>8. LocksInv'
    BY <1>1, <1>2, <1>6, <1>7, LocksGrow
<1>9. \A r \in parked' : proc'[r.proc] = "live"
    BY <1>1, <1>2 DEF WaitersInv, TablesInv, Requests
<1>10. WaitersInv'
    BY <1>1, <1>2, <1>6, <1>9, WaitersKept DEF WaitersInv
<1> QED BY <1>2, <1>3, <1>5, <1>8, <1>10 DEF Survives, IInv

(* Steps that leave the tables alone *)
LEMMA TablesSame ==
    ASSUME TablesInv, UNCHANGED <<tables, failedOpens>>
    PROVE  TablesInv' /\ FilesKept
BY DEF TablesInv, tables, FilesKept

LEMMA SendRest ==
    ASSUME IInv, NEW p \in Procs, NEW fd \in Fds, Send(p, fd)
    PROVE  IInv' /\ Survives
<1> DEFINE f2 == fdt[p]
           o2 == ofdt[p]
<1>1. TablesInv /\ HandlesInv /\ LocksInv /\ WaitersInv
    BY DEF IInv
<1>2. /\ retrying = {} /\ proc' = proc /\ records' = records
      /\ wake' = wake /\ parked' = parked /\ retrying' = retrying
      /\ ofdt' = ofdt /\ fdt' = fdt /\ UNCHANGED <<tables, failedOpens>>
    BY DEF Send, Idle, waiters, tables
<1>3. TablesInv' /\ FilesKept
    BY <1>1, <1>2, TablesSame
<1>4. HandlesInv' /\ \A d \in Ofds : References(d) # 0 => References(d)' # 0
    BY <1>1, SendHandles
<1>5. FdsKept(p, f2, o2, {}) /\ RefsKept({})
    BY <1>4 DEF FdsKept, OfdAt, RefsKept
<1>6. fdt' = [fdt EXCEPT ![p] = f2] /\ ofdt' = [ofdt EXCEPT ![p] = o2]
    BY <1>1, <1>2, ProcTables
<1> HIDE DEF f2, o2
<1>7. LocksInv'
    BY <1>1, <1>2, <1>3, <1>5, <1>6, LocksGrow
<1>8. WaitersInv'
    BY <1>1, <1>2, <1>3, WaitersKept DEF WaitersInv
<1> QED BY <1>2, <1>3, <1>4, <1>7, <1>8 DEF Survives, IInv

(* The locks a close of the descriptors in gone leaves, but for last references *)
KeptLocks(p, gone, kept) ==
    /\ kept \subseteq records
    /\ \A r \in records : r.owner.kind # "Process" => r \in kept
    /\ \A r \in kept : r.owner.kind = "Process" /\ r.owner.id = p =>
          \A x \in DOMAIN fdt[p] \cap gone : fileOf[OfdAt(p, x)] # r.file

LEMMA CloseKeeps ==
    ASSUME LocksInv, NEW p, NEW gone
    PROVE  KeptLocks(p, gone, KeptOnClose(p, gone)) /\ KeptLocks(p, gone, RemoveProcess(records, p))
<1>1. \A r \in records : r.owner.kind = "Process" /\ r.owner.id = p <=> r.owner = ProcessOwner(p)
    BY RecordIs DEF ProcessOwner
<1>2. \A r \in records : r.owner.kind # "Process" => r.owner # ProcessOwner(p)
    BY DEF ProcessOwner
<1>3. KeptLocks(p, gone, KeptOnClose(p, gone))
    BY <1>1, <1>2 DEF KeptLocks, KeptOnClose
<1>4. KeptLocks(p, gone, RemoveProcess(records, p))
    BY <1>1, <1>2 DEF KeptLocks, RemoveProcess
<1> QED BY <1>3, <1>4

LEMMA ReleasedLocks ==
    ASSUME NEW p, NEW gone, NEW kept, KeptLocks(p, gone, kept), NEW F, records' = RemoveOfds(kept, F)
    PROVE  /\ RecordsKept(p, gone, F)
           /\ \A r \in records : r.owner.kind # "Process" /\ r \notin records' => r.owner.id \in F
<1>1. RecordsKept(p, gone, F)
    BY DEF KeptLocks, RecordsKept, RemoveOfds
<1>2. \A r \in records : r.owner.kind # "Process" /\ r \notin records' => r.owner.id \in F
    BY DEF KeptLocks, RemoveOfds
<1> QED BY <1>1, <1>2

LEMMA OfdOwnerKnown ==
    ASSUME TablesInv, LocksInv, NEW r \in records, r.owner.kind # "Process"
    PROVE  r.owner.id \in Ofds /\ r.owner.id \in DOMAIN fileOf /\ References(r.owner.id) # 0
<1>1. OwnerOK(r)
    BY RecordIs
<1> QED BY <1>1 DEF OwnerOK, TablesInv

LEMMA ClosingRest ==
    ASSUME IInv, TablesInv', NEW p \in Procs, NEW gone, NEW kept, KeptLocks(p, gone, kept),
           NEW f2, NEW o2, fdt' = [fdt EXCEPT ![p] = f2], ofdt' = [ofdt EXCEPT ![p] = o2],
           FdsKept(p, f2, o2, gone), \A d : Sharing(o2, d) = Sharing(SlotsLeft(p, gone), d),
           Release(Drops(p, FreedSlots(p, gone)), kept), inFlight' = inFlight, fileOf' = fileOf,
           retrying = {}, retrying' = {}, parked' \subseteq parked,
           \A r \in parked' : proc'[r.proc] = "live"
    PROVE  IInv' /\ Survives
<1> DEFINE drops == Drops(p, FreedSlots(p, gone))
           F == FinalOfds(drops)
<1>1. TablesInv /\ HandlesInv /\ LocksInv /\ WaitersInv
    BY DEF IInv
<1>2. /\ hostRefs' = RefsMinus(drops) /\ hostCloses' = ClosesPlus(drops)
      /\ records' = RemoveOfds(kept, F) /\ wake' = (wake \/ records' # records)
    BY DEF Release
<1>3. DOMAIN o2 \subseteq Slots
  <2>1. ofdt'[p] = o2
    BY <1>1 DEF TablesInv
  <2> QED BY <2>1 DEF TablesInv, TablesOK
<1> HIDE DEF drops
<1>4. drops = Drops(p, FreedSlots(p, gone))
    BY DEF drops
<1>5. HandlesInv' /\ \A d \in Ofds : d \in F <=> References(d) # 0 /\ References(d)' = 0
    BY <1>1, <1>2, <1>3, <1>4, ClosingHandles
<1> HIDE DEF F
<1>6. RecordsKept(p, gone, F)
      /\ \A r \in records : r.owner.kind # "Process" /\ r \notin records' => r.owner.id \in F
    BY <1>2, ReleasedLocks
<1>7. FilesKept /\ RefsKept(F)
    BY <1>5 DEF FilesKept, RefsKept
<1>8. LocksInv'
    BY <1>1, <1>6, <1>7, LocksKept
<1>9. WaitersInv'
    BY <1>1, <1>2, <1>7, WaitersKept
<1>10. Survives
  <2>1. ASSUME NEW r \in records, r.owner.kind # "Process", r \notin records'
        PROVE  References(r.owner.id)' = 0
    <3>1. r.owner.id \in Ofds /\ r.owner.id \in F
        BY <1>1, <1>6, <2>1, OfdOwnerKnown
    <3> QED BY <1>5, <3>1
  <2> QED BY <2>1 DEF Survives
<1> QED BY <1>5, <1>8, <1>9, <1>10 DEF IInv

LEMMA LeftKept ==
    ASSUME TablesInv, NEW p \in Procs, NEW gone
    PROVE  FdsKept(p, FdsLeft(p, gone), SlotsLeft(p, gone), gone)
<1> DEFINE f2 == LeftFds(fdt[p], gone)
           o2 == LeftSlots(fdt[p], ofdt[p], gone)
<1>1. TablesOK(fdt[p], ofdt[p], DOMAIN fileOf, failedOpens) /\ failedOpens \in Nat
    BY ProcTables
<1>2. FdsLeft(p, gone) = f2 /\ SlotsLeft(p, gone) = o2
    BY ClosingIs
<1>3. ASSUME NEW x \in DOMAIN fdt[p] \ gone
      PROVE  x \in DOMAIN f2 /\ o2[f2[x].slot].ofd = OfdAt(p, x)
  <2>1. /\ x \in DOMAIN f2 /\ f2[x] = fdt[p][x]
        /\ o2[fdt[p][x].slot].ofd = ofdt[p][fdt[p][x].slot].ofd
    BY <1>1, KeptSlot
  <2> HIDE DEF f2, o2
  <2> QED BY <2>1 DEF OfdAt
<1> HIDE DEF f2, o2
<1> QED BY <1>2, <1>3 DEF FdsKept

LEMMA CloseRest ==
    ASSUME IInv, NEW p \in Procs, NEW fd \in Fds, Close(p, fd)
    PROVE  IInv' /\ Survives
<1> DEFINE gone == {fd}
           f2 == FdsLeft(p, gone)
           o2 == SlotsLeft(p, gone)
           kept == KeptOnClose(p, gone)
<1>1. TablesInv /\ LocksInv /\ WaitersInv
    BY DEF IInv
<1>2. /\ retrying = {} /\ proc[p] = "live" /\ fdt' = [fdt EXCEPT ![p] = f2] /\ ofdt' = [ofdt EXCEPT ![p] = o2]
      /\ Release(Drops(p, FreedSlots(p, gone)), kept)
      /\ proc' = proc /\ fileOf' = fileOf /\ inFlight' = inFlight /\ parked' = parked /\ retrying' = {}
      /\ failedOpens' = failedOpens
    BY DEF Close, CloseAll, Idle, Live, waiters
<1>3. proc' = [proc EXCEPT ![p] = "live"]
    BY <1>1, <1>2 DEF TablesInv
<1>4. FdsKept(p, f2, o2, gone)
    BY <1>1, LeftKept
<1>5. KeptLocks(p, gone, kept)
    BY <1>1, CloseKeeps
<1> HIDE DEF gone
<1>6. TablesInv'
    BY <1>1, <1>2, <1>3, ClosingTables
<1>7. \A r \in parked' : proc'[r.proc] = "live"
    BY <1>1, <1>2 DEF WaitersInv
<1>8. \A d : Sharing(o2, d) = Sharing(SlotsLeft(p, gone), d)
    OBVIOUS
<1> HIDE DEF f2, o2, kept
<1> QED BY <1>2, <1>4, <1>5, <1>6, <1>7, <1>8, ClosingRest

(* The requests of the other processes stay. *)
LEMMA OthersParked ==
    ASSUME WaitersInv, TablesInv, NEW p \in Procs, NEW st, parked' = parked \ ParkedBy(p),
           proc' = [proc EXCEPT ![p] = st]
    PROVE  parked' \subseteq parked /\ \A r \in parked' : proc'[r.proc] = "live"
<1>1. \A r \in parked' : r \in parked /\ r.proc # p /\ r.proc \in Procs
    BY DEF ParkedBy, WaitersInv, Requests
<1> QED BY <1>1 DEF WaitersInv, TablesInv

LEMMA ExecRest ==
    ASSUME IInv, NEW p \in Procs, Exec(p)
    PROVE  IInv' /\ Survives
<1> DEFINE gone == {fd \in DOMAIN fdt[p] : "CLOEXEC" \in fdt[p][fd].flags}
           f2 == FdsLeft(p, gone)
           o2 == SlotsLeft(p, gone)
           kept == KeptOnClose(p, gone)
<1>1. TablesInv /\ LocksInv /\ WaitersInv
    BY DEF IInv
<1>2. /\ retrying = {} /\ proc[p] = "live" /\ fdt' = [fdt EXCEPT ![p] = f2] /\ ofdt' = [ofdt EXCEPT ![p] = o2]
      /\ Release(Drops(p, FreedSlots(p, gone)), kept)
      /\ proc' = proc /\ fileOf' = fileOf /\ inFlight' = inFlight
      /\ parked' = parked \ ParkedBy(p) /\ retrying' = {}
      /\ failedOpens' = failedOpens
    BY DEF Exec, CloseAll, Idle, Live
<1> HIDE DEF gone
<1>3. proc' = [proc EXCEPT ![p] = "live"]
    BY <1>1, <1>2 DEF TablesInv
<1>4. FdsKept(p, f2, o2, gone)
    BY <1>1, LeftKept
<1>5. KeptLocks(p, gone, kept)
    BY <1>1, CloseKeeps
<1>6. TablesInv'
    BY <1>1, <1>2, <1>3, ClosingTables
<1>7. parked' \subseteq parked /\ \A r \in parked' : proc'[r.proc] = "live"
    BY <1>1, <1>2, <1>3, OthersParked
<1>8. \A d : Sharing(o2, d) = Sharing(SlotsLeft(p, gone), d)
    OBVIOUS
<1> HIDE DEF f2, o2, kept
<1> QED BY <1>2, <1>4, <1>5, <1>6, <1>7, <1>8, ClosingRest

LEMMA ExitRest ==
    ASSUME IInv, NEW p \in Procs, Exit(p)
    PROVE  IInv' /\ Survives
<1> DEFINE gone == DOMAIN fdt[p]
           f2 == FdsLeft(p, gone)
           o2 == SlotsLeft(p, gone)
           kept == RemoveProcess(records, p)
<1>1. TablesInv /\ LocksInv /\ WaitersInv
    BY DEF IInv
<1>2. /\ retrying = {} /\ fdt' = [fdt EXCEPT ![p] = f2] /\ ofdt' = [ofdt EXCEPT ![p] = o2]
      /\ Release(Drops(p, FreedSlots(p, gone)), kept)
      /\ proc' = [proc EXCEPT ![p] = "zombie"] /\ fileOf' = fileOf /\ inFlight' = inFlight
      /\ parked' = parked \ ParkedBy(p) /\ retrying' = {}
      /\ failedOpens' = failedOpens
    BY DEF Exit, Idle
<1>3. FdsLeft(p, gone) = << >>
  <2>1. FdsLeft(p, gone) = LeftFds(fdt[p], DOMAIN fdt[p])
    BY ClosingIs
  <2> QED BY <2>1, NoFds
<1> HIDE DEF gone
<1>4. FdsKept(p, f2, o2, gone)
    BY <1>1, LeftKept
<1>5. KeptLocks(p, gone, kept)
    BY <1>1, CloseKeeps
<1>6. TablesInv'
    BY <1>1, <1>2, <1>3, ClosingTables
<1>7. parked' \subseteq parked /\ \A r \in parked' : proc'[r.proc] = "live"
    BY <1>1, <1>2, OthersParked
<1>8. \A d : Sharing(o2, d) = Sharing(SlotsLeft(p, gone), d)
    OBVIOUS
<1> HIDE DEF f2, o2, kept
<1> QED BY <1>2, <1>4, <1>5, <1>6, <1>7, <1>8, ClosingRest

LEMMA Dup3Rest ==
    ASSUME IInv, NEW p \in Procs, NEW old \in Fds, NEW new \in Fds, NEW flags \in FdFlags,
           Dup3(p, old, new, flags)
    PROVE  IInv' /\ Survives
<1> DEFINE s == fdt[p][old].slot
           gone == {new} \cap DOMAIN fdt[p]
           f1 == FdsLeft(p, gone)
           o1 == SlotsLeft(p, gone)
           f2 == With(f1, new, [slot |-> s, flags |-> flags])
           o2 == More(o1, s)
           kept == KeptOnClose(p, gone)
<1>1. TablesInv /\ LocksInv /\ WaitersInv
    BY DEF IInv
<1>2. /\ retrying = {} /\ proc[p] = "live" /\ old \in DOMAIN fdt[p] /\ new # old
      /\ fdt' = [fdt EXCEPT ![p] = f2] /\ ofdt' = [ofdt EXCEPT ![p] = o2]
      /\ Release(Drops(p, FreedSlots(p, gone)), kept)
      /\ proc' = proc /\ fileOf' = fileOf /\ inFlight' = inFlight /\ parked' = parked /\ retrying' = {}
      /\ failedOpens' = failedOpens
    BY DEF Dup3, CloseAll, Idle, Live, waiters, More
<1>3. TablesOK(fdt[p], ofdt[p], DOMAIN fileOf, failedOpens) /\ failedOpens \in Nat
    BY <1>1, ProcTables
<1>4. f1 = LeftFds(fdt[p], gone) /\ o1 = LeftSlots(fdt[p], ofdt[p], gone)
    BY ClosingIs
<1>5. new \notin DOMAIN f1
    BY <1>4 DEF LeftFds, Restrict
<1>6. old \notin gone
    BY <1>2
<1> HIDE DEF gone, kept
<1>7. TablesOK(f1, o1, DOMAIN fileOf, failedOpens)
    BY <1>3, <1>4, CloseTables
<1>8. s \in DOMAIN o1
    BY <1>2, <1>3, <1>4, <1>6, KeptSlot
<1>9. FdsKept(p, f1, o1, gone)
    BY <1>1, LeftKept
<1>10. KeptLocks(p, gone, kept)
    BY <1>1, CloseKeeps DEF kept
<1> HIDE DEF f1, o1, s
<1>11. \A x \in DOMAIN o1 : o2[x].ofd = o1[x].ofd
    BY <1>7, <1>8, MoreIs DEF TablesOK
<1>12. \A x \in DOMAIN f1 : x \in DOMAIN f2 /\ f2[x] = f1[x] /\ f1[x].slot \in DOMAIN o1
    BY <1>5, <1>7 DEF With, TablesOK
<1>13. \A d : Sharing(o2, d) = Sharing(SlotsLeft(p, gone), d)
    BY <1>7, <1>8, SharingMore DEF o1
<1> HIDE DEF f2, o2
<1>14. FdsKept(p, f2, o2, gone)
    BY <1>9, <1>11, <1>12 DEF FdsKept
<1>15. TablesInv'
    BY <1>1, Dup3Tables
<1>16. \A r \in parked' : proc'[r.proc] = "live"
    BY <1>1, <1>2 DEF WaitersInv
<1> QED BY <1>2, <1>10, <1>13, <1>14, <1>15, <1>16, ClosingRest

LEMMA DiscardRest ==
    ASSUME IInv, NEW ofd \in Ofds, Discard(ofd)
    PROVE  IInv' /\ Survives
<1> DEFINE F == FinalOfds(One(ofd))
<1>1. TablesInv /\ HandlesInv /\ LocksInv /\ WaitersInv
    BY DEF IInv
<1>2. /\ retrying = {} /\ UNCHANGED <<tables, failedOpens>> /\ parked' = parked /\ retrying' = {}
      /\ records' = RemoveOfds(records, F) /\ wake' = (wake \/ records' # records)
      /\ proc' = proc /\ fdt' = fdt /\ ofdt' = ofdt /\ fileOf' = fileOf
    BY DEF Discard, Release, Idle, waiters, tables
<1>3. TablesInv' /\ FilesKept
    BY <1>1, <1>2, TablesSame
<1>4. HandlesInv' /\ \A d \in Ofds : d \in F <=> References(d) # 0 /\ References(d)' = 0
    BY <1>1, DiscardHandles
<1> HIDE DEF F
<1>5. \A r \in records' : OwnerOK(r)'
  <2> SUFFICES ASSUME NEW r \in records' PROVE OwnerOK(r)'
    OBVIOUS
  <2>1. r \in records /\ OwnerOK(r) /\ (r.owner.kind # "Process" => r.owner.id \notin F)
    BY <1>1, <1>2, RecordIs DEF RemoveOfds
  <2>2. CASE r.owner.kind = "Process"
    BY <1>2, <2>1, <2>2 DEF OwnerOK
  <2>3. CASE r.owner.kind # "Process"
    <3>1. r.owner.id \in Ofds /\ r.owner.id \in DOMAIN fileOf /\ References(r.owner.id) # 0
        BY <1>1, <2>1, <2>3, OfdOwnerKnown
    <3>2. References(r.owner.id)' # 0
        BY <1>4, <2>1, <2>3, <3>1
    <3> QED BY <1>2, <2>1, <2>3, <3>2 DEF OwnerOK
  <2> QED BY <2>2, <2>3
<1>6. LocksInv'
    BY <1>1, <1>2, <1>5 DEF LocksInv, Whole, RemoveOfds
<1>7. \A r \in parked' : proc'[r.proc] = "live"
    BY <1>1, <1>2 DEF WaitersInv
<1>8. WaitersInv'
    BY <1>1, <1>2, <1>3, <1>7, WaitersKept
<1>9. Survives
  <2>1. ASSUME NEW r \in records, r.owner.kind # "Process", r \notin records'
        PROVE  References(r.owner.id)' = 0
    <3>1. r.owner.id \in Ofds /\ r.owner.id \in F
        BY <1>1, <1>2, <2>1, OfdOwnerKnown DEF RemoveOfds
    <3> QED BY <1>4, <3>1
  <2> QED BY <2>1 DEF Survives
<1> QED BY <1>3, <1>4, <1>6, <1>8, <1>9 DEF IInv

LEMMA RemoveRest ==
    ASSUME IInv, NEW p \in Procs, Remove(p)
    PROVE  IInv' /\ Survives
<1> DEFINE F == Unreferenced(p)
           kept == RemoveProcess(records, p)
           gone == DOMAIN fdt[p]
<1>1. TablesInv /\ HandlesInv /\ LocksInv /\ WaitersInv
    BY DEF IInv
<1>2. /\ retrying = {} /\ parked' = parked \ ParkedBy(p) /\ retrying' = {}
      /\ records' = RemoveOfds(kept, F) /\ wake' = (wake \/ records' # records)
      /\ proc' = [proc EXCEPT ![p] = "gone"] /\ fileOf' = fileOf
      /\ fdt' = [fdt EXCEPT ![p] = << >>] /\ ofdt' = [ofdt EXCEPT ![p] = << >>]
    BY DEF Remove, Idle
<1>3. TablesInv'
    BY <1>1, RemoveTables
<1>4. HandlesInv' /\ (\A d \in Ofds : d \in F <=> SlotsOf(p, d) # {} /\ References(d)' = 0)
      /\ \A d \in Ofds : SlotsOf(p, d) = {} => References(d)' = References(d)
    BY <1>1, RemoveHandles
<1>5. KeptLocks(p, gone, kept)
    BY <1>1, CloseKeeps
<1>6. FdsKept(p, << >>, << >>, gone)
    BY DEF FdsKept
<1> HIDE DEF F, kept, gone
<1>7. RecordsKept(p, gone, F)
      /\ \A r \in records : r.owner.kind # "Process" /\ r \notin records' => r.owner.id \in F
    BY <1>2, <1>5, ReleasedLocks
<1>8. FilesKept /\ RefsKept(F)
    BY <1>2, <1>4 DEF FilesKept, RefsKept
<1>9. LocksInv'
    BY <1>1, <1>2, <1>6, <1>7, <1>8, LocksKept
<1>10. parked' \subseteq parked /\ \A r \in parked' : proc'[r.proc] = "live"
    BY <1>1, <1>2, OthersParked
<1>11. WaitersInv'
    BY <1>1, <1>2, <1>8, <1>10, WaitersKept
<1>12. Survives
  <2>1. ASSUME NEW r \in records, r.owner.kind # "Process", r \notin records'
        PROVE  References(r.owner.id)' = 0
    <3>1. r.owner.id \in Ofds /\ r.owner.id \in F
        BY <1>1, <1>7, <2>1, OfdOwnerKnown
    <3> QED BY <1>4, <3>1
  <2> QED BY <2>1 DEF Survives
<1> QED BY <1>3, <1>4, <1>9, <1>11, <1>12 DEF IInv

-----------------------------------------------------------------------------
(* Lock calls and wake-ups *)
LEMMA RefsSame ==
    ASSUME UNCHANGED <<tables, handles>>
    PROVE  \A d : References(d)' = References(d)
BY DEF References, Holders, SlotsOf, tables, handles

LEMMA AttemptLocks ==
    ASSUME TablesInv, HandlesInv, LocksInv, wake \in BOOLEAN, NEW p \in Procs, NEW fd \in DOMAIN fdt[p],
           NEW kind \in LockKinds, NEW type \in LockTypes \cup {"Unlock"},
           Attempt(p, OfdAt(p, fd), kind, type), UNCHANGED <<tables, handles>>
    PROVE  LocksInv'
<1> DEFINE ofd == OfdAt(p, fd)
           new == Asked(p, ofd, kind, type)
<1>1. ofd \in DOMAIN fileOf /\ ofd \in Ofds /\ SlotsOf(p, ofd) # {}
    BY FdSlot
<1>2. References(ofd) # 0
    BY <1>1, SlotReferenced
<1>3. Descends(fdt[p], ofdt[p], fileOf, fileOf[ofd])
    BY DEF Descends, OfdAt
<1> HIDE DEF ofd
<1>4. \A r \in records' : r \in records \/ (type # "Unlock" /\ r = new)
    BY AttemptIs DEF ofd
<1>5. fdt' = fdt /\ ofdt' = ofdt /\ fileOf' = fileOf /\ \A d : References(d)' = References(d)
    BY RefsSame DEF tables
<1>6. ASSUME NEW r \in records'
      PROVE  r \in Records /\ r.start = 0 /\ r.end = Eof /\ OwnerOK(r)'
  <2>1. CASE r \in records
    <3>1. r \in Records /\ r.start = 0 /\ r.end = Eof /\ OwnerOK(r)
        BY <2>1, RecordIs
    <3> QED BY <1>5, <3>1 DEF OwnerOK
  <2>2. CASE type # "Unlock" /\ r = new
    <3>1. type \in LockTypes
        BY <2>2
    <3>2. /\ new \in Records /\ new.start = 0 /\ new.end = Eof /\ new.file = fileOf[ofd]
          /\ kind = "Process" => new.owner.kind = "Process" /\ new.owner.id = p
          /\ kind # "Process" => new.owner.kind = kind /\ new.owner.id = ofd
        BY <1>1, <3>1, AskedIs
    <3> HIDE DEF new
    <3>3. CASE kind = "Process"
        BY <1>3, <1>5, <2>2, <3>2, <3>3 DEF OwnerOK
    <3>4. CASE kind # "Process"
        BY <1>1, <1>2, <1>5, <2>2, <3>2, <3>4 DEF OwnerOK
    <3> QED BY <2>2, <3>2, <3>3, <3>4
  <2> QED BY <1>4, <2>1, <2>2
<1> QED BY <1>6 DEF LocksInv, Whole

LEMMA AttemptWaits ==
    ASSUME LocksInv, wake \in BOOLEAN, NEW p, NEW ofd, NEW kind, NEW type, Attempt(p, ofd, kind, type),
           fileOf' = fileOf, ~ wake', NEW r, Waits(r)
    PROVE  Waits(r)'
<1> DEFINE new == Asked(p, ofd, kind, type)
<1>1. PICK y \in records : Conflict(y, r)
    BY DEF Waits
<1>2. y.start = 0 /\ y.end = Eof
    BY RecordIs
<1>3. y \in records' \/ (/\ new \in records' /\ y.type = new.type
                         /\ y.file = new.file /\ y.owner = new.owner)
    BY AttemptIs
<1>4. new.start = 0 /\ new.end = Eof
    BY DEF Asked, WholeRecord
<1>5. PICK z \in records' : /\ z.start = 0 /\ z.end = Eof /\ z.type = y.type
                            /\ z.file = y.file /\ z.owner = y.owner
    BY <1>2, <1>3, <1>4
<1>6. Conflict(z, r)'
    BY <1>1, <1>2, <1>5 DEF Conflict, Blocks, Overlaps, OwnerOf
<1> QED BY <1>5, <1>6 DEF Waits

LEMMA HandlesLeft ==
    ASSUME HandlesInv, UNCHANGED <<tables, handles>>
    PROVE  HandlesInv'
<1>1. \A d : References(d)' = References(d)
    BY RefsSame
<1> QED BY <1>1 DEF HandlesInv, tables, handles

LEMMA LockRest ==
    ASSUME IInv, NEW p \in Procs, NEW fd \in Fds, NEW kind \in LockKinds,
           NEW type \in LockTypes \cup {"Unlock"}, Lock(p, fd, kind, type)
    PROVE  IInv'
<1> DEFINE ofd == OfdAt(p, fd)
<1>1. TablesInv /\ HandlesInv /\ LocksInv /\ WaitersInv /\ wake \in BOOLEAN
    BY DEF IInv, WaitersInv
<1>2. /\ fd \in DOMAIN fdt[p] /\ Attempt(p, ofd, kind, type) /\ UNCHANGED <<tables, handles>>
      /\ UNCHANGED <<tables, failedOpens>> /\ parked' = parked /\ retrying' = retrying
      /\ fileOf' = fileOf /\ proc' = proc
    BY DEF Lock, waiters, tables
<1>3. TablesInv' /\ HandlesInv'
    BY <1>1, <1>2, TablesSame, HandlesLeft
<1>4. LocksInv'
    BY <1>1, <1>2, AttemptLocks
<1> HIDE DEF ofd
<1>5. wake' \in BOOLEAN /\ (wake => wake')
    BY <1>1, <1>2, AttemptIs
<1>6. ASSUME ~ wake', NEW r \in parked' \ retrying' PROVE Waits(r)'
  <2>1. Waits(r)
    BY <1>1, <1>2, <1>5, <1>6 DEF WaitersInv
  <2> QED BY <1>1, <1>2, <1>6, <2>1, AttemptWaits
<1>7. WaitersInv'
    BY <1>1, <1>2, <1>5, <1>6 DEF WaitersInv
<1> QED BY <1>3, <1>4, <1>7 DEF IInv

(* A request that is parked, now or anew *)
LEMMA ParkedWaits ==
    ASSUME LocksInv, fileOf' = fileOf, NEW r, Attempt(r.proc, r.ofd, r.kind, r.type),
           Error(r.proc, r.ofd, r.kind, r.type) = "EAGAIN"
    PROVE  Waits(r)'
<1>1. \E y \in records' : Blocks(y, fileOf[r.ofd], OwnerOf(r.proc, r.ofd, r.kind), r.type, WholeFile)
    BY AttemptBlocked
<1> QED BY <1>1 DEF Waits, Conflict, OwnerOf

LEMMA ParkRest ==
    ASSUME IInv, NEW p \in Procs, NEW fd \in Fds, NEW kind \in LockKinds,
           NEW type \in LockTypes, Park(p, fd, kind, type)
    PROVE  IInv'
<1>0. PICK ofd, req : /\ ofd = OfdAt(p, fd)
                      /\ req = [proc |-> p, fd |-> fd, kind |-> kind, type |-> type, ofd |-> ofd]
    OBVIOUS
<1>1. TablesInv /\ HandlesInv /\ LocksInv /\ WaitersInv /\ wake \in BOOLEAN
    BY DEF IInv, WaitersInv
<1>2. /\ fd \in DOMAIN fdt[p] /\ Attempt(p, ofd, kind, type) /\ UNCHANGED <<tables, handles>>
      /\ UNCHANGED <<tables, failedOpens>> /\ parked' = parked \cup {req} /\ retrying' = retrying
      /\ fileOf' = fileOf /\ proc' = proc /\ proc[p] = "live" /\ Error(p, ofd, kind, type) = "EAGAIN"
    BY <1>0 DEF Park, tables, Live
<1>3. TablesInv' /\ HandlesInv'
    BY <1>1, <1>2, TablesSame, HandlesLeft
<1>4. LocksInv'
    BY <1>0, <1>1, <1>2, AttemptLocks
<1>5. ofd \in DOMAIN fileOf /\ ofd \in Ofds
    BY <1>0, <1>1, <1>2, FdSlot
<1>6. wake' \in BOOLEAN /\ (wake => wake')
    BY <1>1, <1>2, AttemptIs
<1>7. req \in Requests /\ req.proc = p /\ req.ofd = ofd /\ req.kind = kind /\ req.type = type
    BY <1>0, <1>5 DEF Requests
<1>8. Waits(req)'
    BY <1>1, <1>2, <1>7, ParkedWaits
<1>9. ASSUME ~ wake', NEW r \in parked' \ retrying' PROVE Waits(r)'
  <2>1. CASE r \in parked
    <3>1. Waits(r)
        BY <1>1, <1>2, <1>6, <1>9, <2>1 DEF WaitersInv
    <3> QED BY <1>1, <1>2, <1>9, <3>1, AttemptWaits
  <2> QED BY <1>2, <1>8, <2>1
<1>10. WaitersInv'
    BY <1>1, <1>2, <1>5, <1>6, <1>7, <1>9 DEF WaitersInv
<1> QED BY <1>3, <1>4, <1>10 DEF IInv

LEMMA RetryRest ==
    ASSUME IInv, NEW r \in retrying, Retry(r)
    PROVE  IInv'
<1>0. PICK p, ofd, again : p = r.proc /\ ofd = OfdAt(p, r.fd) /\ again = [r EXCEPT !.ofd = ofd]
    OBVIOUS
<1>1. TablesInv /\ HandlesInv /\ LocksInv /\ WaitersInv /\ wake \in BOOLEAN
    BY DEF IInv, WaitersInv
<1>2. /\ retrying' = retrying \ {r} /\ UNCHANGED <<tables, handles>> /\ UNCHANGED <<tables, failedOpens>>
      /\ fileOf' = fileOf /\ proc' = proc /\ fdt' = fdt /\ ofdt' = ofdt
    BY DEF Retry, tables
<1>3. TablesInv' /\ HandlesInv'
    BY <1>1, <1>2, TablesSame, HandlesLeft
<1>4. r \in parked /\ r \in Requests /\ p \in Procs /\ r.fd \in Fds /\ r.kind \in LockKinds
      /\ r.type \in LockTypes /\ proc[p] = "live" /\ retrying \subseteq parked
    BY <1>0, <1>1 DEF WaitersInv, Requests
<1>5. CASE r.fd \notin DOMAIN fdt[p] /\ parked' = parked \ {r} /\ records' = records /\ wake' = wake
  <2>1. LocksInv'
    BY <1>1, <1>2, <1>5, RefsSame DEF LocksInv, OwnerOK, Whole
  <2>2. ASSUME ~ wake', NEW x \in parked' \ retrying' PROVE Waits(x)'
    BY <1>1, <1>2, <1>5, <2>2 DEF WaitersInv, Waits, Conflict, OwnerOf
  <2>3. WaitersInv'
    BY <1>1, <1>2, <1>5, <2>2 DEF WaitersInv
  <2> QED BY <1>3, <2>1, <2>3 DEF IInv
<1>6. CASE /\ r.fd \in DOMAIN fdt[p] /\ Attempt(p, ofd, r.kind, r.type)
           /\ \/ parked' = parked \ {r}
              \/ /\ Error(p, ofd, r.kind, r.type) = "EAGAIN"
                 /\ parked' = (parked \ {r}) \cup {again}
  <2>1. LocksInv'
    BY <1>0, <1>1, <1>2, <1>4, <1>6, AttemptLocks
  <2>2. wake' \in BOOLEAN /\ (wake => wake')
    BY <1>1, <1>6, AttemptIs
  <2>3. ofd \in DOMAIN fileOf /\ ofd \in Ofds
    BY <1>0, <1>1, <1>4, <1>6, FdSlot
  <2>4. ASSUME ~ wake', NEW x \in parked, x \notin retrying PROVE Waits(x)'
    <3>1. Waits(x)
        BY <1>1, <2>2, <2>4 DEF WaitersInv
    <3> QED BY <1>1, <1>2, <1>6, <2>4, <3>1, AttemptWaits
  <2>5. again \in Requests /\ again.proc = p /\ again.ofd = ofd /\ again.kind = r.kind /\ again.type = r.type
    BY <1>0, <1>4, <2>3 DEF Requests
  <2>6. CASE parked' = parked \ {r}
    <3>1. ASSUME ~ wake', NEW x \in parked' \ retrying' PROVE Waits(x)'
        BY <1>2, <2>4, <2>6, <3>1
    <3> QED BY <1>1, <1>2, <1>3, <2>1, <2>2, <2>6, <3>1 DEF WaitersInv, IInv
  <2>7. CASE /\ Error(p, ofd, r.kind, r.type) = "EAGAIN"
             /\ parked' = (parked \ {r}) \cup {again}
    <3>1. Waits(again)'
        BY <1>1, <1>2, <1>6, <2>5, <2>7, ParkedWaits
    <3>2. ASSUME ~ wake', NEW x \in parked' \ retrying' PROVE Waits(x)'
        BY <1>2, <2>4, <2>7, <3>1, <3>2
    <3>3. \A x \in parked' : proc'[x.proc] = "live" /\ x.ofd \in DOMAIN fileOf' /\ x \in Requests
        BY <1>1, <1>2, <1>4, <2>3, <2>5, <2>7 DEF WaitersInv
    <3>4. WaitersInv'
        BY <1>2, <1>4, <2>2, <2>7, <3>2, <3>3 DEF WaitersInv
    <3> QED BY <1>3, <2>1, <3>4 DEF IInv
  <2> QED BY <1>6, <2>6, <2>7
<1> QED BY <1>0, <1>5, <1>6 DEF Retry

LEMMA DrainRest ==
    ASSUME IInv, DrainWake
    PROVE  IInv'
<1>1. TablesInv /\ HandlesInv /\ LocksInv /\ WaitersInv
    BY DEF IInv
<1>2. /\ wake' = FALSE /\ retrying' = parked /\ parked' = parked /\ records' = records
      /\ UNCHANGED <<tables, handles>> /\ UNCHANGED <<tables, failedOpens>>
      /\ fileOf' = fileOf /\ proc' = proc /\ fdt' = fdt /\ ofdt' = ofdt
    BY DEF DrainWake, tables
<1>3. TablesInv' /\ HandlesInv'
    BY <1>1, <1>2, TablesSame, HandlesLeft
<1>4. LocksInv'
    BY <1>1, <1>2, RefsSame DEF LocksInv, OwnerOK, Whole
<1>5. WaitersInv'
    BY <1>1, <1>2 DEF WaitersInv
<1> QED BY <1>3, <1>4, <1>5 DEF IInv

LEMMA NudgeRest ==
    ASSUME IInv, NEW r \in parked, Nudge(r)
    PROVE  IInv'
<1>1. TablesInv /\ HandlesInv /\ LocksInv /\ WaitersInv
    BY DEF IInv
<1>2. /\ wake' = wake /\ retrying = {} /\ retrying' = {r} /\ parked' = parked /\ records' = records
      /\ UNCHANGED <<tables, handles>> /\ UNCHANGED <<tables, failedOpens>>
      /\ fileOf' = fileOf /\ proc' = proc /\ fdt' = fdt /\ ofdt' = ofdt
    BY DEF Nudge, tables, Idle
<1>3. TablesInv' /\ HandlesInv'
    BY <1>1, <1>2, TablesSame, HandlesLeft
<1>4. LocksInv'
    BY <1>1, <1>2, RefsSame DEF LocksInv, OwnerOK, Whole
<1>5. WaitersInv'
    BY <1>1, <1>2 DEF WaitersInv, Waits, Conflict, OwnerOf
<1> QED BY <1>3, <1>4, <1>5 DEF IInv

-----------------------------------------------------------------------------
(* All steps *)
LEMMA InitInv == Init => IInv
<1> SUFFICES ASSUME Init PROVE IInv
    OBVIOUS
<1>1. \A p \in Procs : proc[p] = "unborn" /\ fdt[p] = << >> /\ ofdt[p] = << >>
    BY DEF Init
<1>2. \A p \in Procs : TablesOK(<< >>, << >>, {}, 0) /\ EmptyOK("unborn", << >>, << >>)
    BY TablesEmpty DEF EmptyOK
<1>3. DOMAIN fileOf = {} /\ fileOf \in [DOMAIN fileOf -> Files] /\ failedOpens = 0
    BY DEF Init
<1>4. TablesInv
  <2>1. /\ proc \in [Procs -> {"unborn", "live", "zombie", "gone"}]
        /\ DOMAIN fdt = Procs /\ fdt = [p \in Procs |-> fdt[p]]
        /\ DOMAIN ofdt = Procs /\ ofdt = [p \in Procs |-> ofdt[p]]
    BY DEF Init
  <2>2. \A p \in Procs : TablesOK(fdt[p], ofdt[p], DOMAIN fileOf, failedOpens)
                         /\ EmptyOK(proc[p], fdt[p], ofdt[p])
    BY <1>1, <1>2, <1>3
  <2>3. failedOpens \in Nat /\ failedOpens <= MaxFailedOpens
    BY <1>3, FileLocksConstants
  <2> QED BY <1>3, <2>1, <2>2, <2>3 DEF TablesInv
<1>5. HandlesInv
  <2>1. ASSUME NEW d \in Ofds PROVE References(d) = 0
    <3>1. Holders(d) = {}
        BY <1>1 DEF Holders, SlotsOf
    <3>2. Cardinality(Holders(d)) = 0
        BY <3>1, FS_EmptySet
    <3> QED BY <3>2 DEF References, Init
  <2>2. /\ hostRefs \in [Ofds -> Nat] /\ hostCloses \in [Ofds -> Nat]
        /\ inFlight \in [Ofds -> Nat] /\ \A d \in Ofds : inFlight[d] <= MaxInFlight
        /\ \A d \in Ofds : hostRefs[d] = 0 /\ hostCloses[d] = 0 /\ d \notin DOMAIN fileOf
    BY <1>3, FileLocksConstants DEF Init
  <2>3. \A d \in Ofds : CountOK(d \in DOMAIN fileOf, References(d), hostRefs[d], hostCloses[d])
    BY <2>1, <2>2 DEF CountOK
  <2> QED BY <2>2, <2>3 DEF HandlesInv
<1>6. LocksInv /\ WaitersInv
    BY DEF Init, LocksInv, WaitersInv, Whole
<1> QED BY <1>4, <1>5, <1>6 DEF IInv

(* A step that changes tables or handles keeps the invariant and every lock  *)
(* of an OFD that is still referenced.                                       *)
LEMMA TableSteps ==
    ASSUME IInv, DescriptorStep \/ ProcessStep
    PROVE  IInv' /\ Survives
<1>1. ASSUME NEW p \in Procs, NEW ofd \in Ofds, NEW file \in Files, NEW flags \in FdFlags,
             Open(p, ofd, file, flags)
      PROVE  IInv' /\ Survives
    BY <1>1, OpenRest
<1>2. ASSUME NEW p \in Procs, NEW fd \in Fds, NEW flags \in FdFlags, OpenDevFd(p, fd, flags)
      PROVE  IInv' /\ Survives
    BY <1>2, DevFdRest
<1>3. ASSUME NEW p \in Procs, NEW fd \in Fds, Dup(p, fd) \/ Close(p, fd) \/ Send(p, fd)
      PROVE  IInv' /\ Survives
    BY <1>3, DupRest, CloseRest, SendRest
<1>4. ASSUME NEW p \in Procs, NEW old \in Fds, NEW new \in Fds, NEW flags \in FdFlags,
             Dup3(p, old, new, flags)
      PROVE  IInv' /\ Survives
    BY <1>4, Dup3Rest
<1>5. ASSUME NEW p \in Procs, NEW ofd \in Ofds, Receive(p, ofd)
      PROVE  IInv' /\ Survives
    BY <1>5, ReceiveRest
<1>6. ASSUME NEW ofd \in Ofds, Discard(ofd)
      PROVE  IInv' /\ Survives
    BY <1>6, DiscardRest
<1>7. ASSUME NEW p \in Procs, NEW child \in Procs, Fork(p, child)
      PROVE  IInv' /\ Survives
    BY <1>7, ForkRest
<1>8. ASSUME NEW p \in Procs, Create(p) \/ Exec(p) \/ Exit(p) \/ Remove(p)
      PROVE  IInv' /\ Survives
    BY <1>8, CreateRest, ExecRest, ExitRest, RemoveRest
<1>9. CASE DescriptorStep
    BY <1>1, <1>2, <1>3, <1>4, <1>5, <1>6, <1>9 DEF DescriptorStep
<1>10. CASE ProcessStep
    BY <1>7, <1>8, <1>10 DEF ProcessStep
<1> QED BY <1>9, <1>10

LEMMA OtherSteps ==
    ASSUME IInv, LockStep \/ WakeStep
    PROVE  IInv' /\ UNCHANGED <<tables, handles>>
<1>1. ASSUME NEW p \in Procs, NEW fd \in Fds, NEW kind \in LockKinds,
             NEW type \in LockTypes \cup {"Unlock"}, Lock(p, fd, kind, type)
      PROVE  IInv' /\ UNCHANGED <<tables, handles>>
    BY <1>1, LockRest DEF Lock
<1>2. ASSUME NEW p \in Procs, NEW fd \in Fds, NEW kind \in LockKinds, NEW type \in LockTypes,
             Park(p, fd, kind, type)
      PROVE  IInv' /\ UNCHANGED <<tables, handles>>
    BY <1>2, ParkRest DEF Park
<1>3. CASE DrainWake
    BY <1>3, DrainRest DEF DrainWake
<1>4. ASSUME NEW r \in parked, Nudge(r)
      PROVE  IInv' /\ UNCHANGED <<tables, handles>>
    BY <1>4, NudgeRest DEF Nudge
<1>5. ASSUME NEW r \in retrying, Retry(r)
      PROVE  IInv' /\ UNCHANGED <<tables, handles>>
    BY <1>5, RetryRest DEF Retry
<1>6. CASE LockStep
    BY <1>1, <1>2, <1>6 DEF LockStep
<1>7. CASE WakeStep
    BY <1>3, <1>4, <1>5, <1>7 DEF WakeStep
<1> QED BY <1>6, <1>7

LEMMA StutterInv ==
    ASSUME IInv, UNCHANGED vars
    PROVE  IInv'
<1>1. TablesInv /\ HandlesInv /\ LocksInv /\ WaitersInv
    BY DEF IInv
<1>2. /\ UNCHANGED <<tables, handles>> /\ UNCHANGED <<tables, failedOpens>>
      /\ records' = records /\ wake' = wake /\ parked' = parked /\ retrying' = retrying
      /\ fileOf' = fileOf /\ proc' = proc /\ fdt' = fdt /\ ofdt' = ofdt
    BY DEF vars, waiters, tables
<1>3. TablesInv' /\ HandlesInv'
    BY <1>1, <1>2, TablesSame, HandlesLeft
<1>4. LocksInv'
    BY <1>1, <1>2, RefsSame DEF LocksInv, OwnerOK, Whole
<1>5. WaitersInv'
    BY <1>1, <1>2 DEF WaitersInv, Waits, Conflict, OwnerOf
<1> QED BY <1>3, <1>4, <1>5 DEF IInv

LEMMA NextInv ==
    ASSUME IInv, [Next]_vars
    PROVE  IInv'
BY TableSteps, OtherSteps, StutterInv DEF Next

LEMMA AlwaysInv == Spec => []IInv
<1>1. IInv /\ [Next]_vars => IInv'
    BY NextInv
<1> QED BY <1>1, InitInv, PTL DEF Spec

-----------------------------------------------------------------------------
(* What the invariant says *)
LEMMA InvTables == IInv => TablesSound
<1> SUFFICES ASSUME IInv PROVE TablesSound
    OBVIOUS
<1>1. TablesInv /\ HandlesInv /\ LocksInv /\ WaitersInv
    BY DEF IInv
<1>2. ASSUME NEW p \in Procs
      PROVE  /\ DOMAIN fdt[p] \subseteq Fds
             /\ \A fd \in DOMAIN fdt[p] :
                   fdt[p][fd].slot \in DOMAIN ofdt[p] /\ fdt[p][fd].flags \in FdFlags \cup {{}}
             /\ DOMAIN ofdt[p] \subseteq Slots
             /\ \A s \in DOMAIN ofdt[p] :
                   ofdt[p][s].ofd \in DOMAIN fileOf /\ ofdt[p][s].refs \in Nat \ {0}
  <2>1. TablesOK(fdt[p], ofdt[p], DOMAIN fileOf, failedOpens)
    BY <1>1, ProcTables
  <2>2. \A fd \in DOMAIN fdt[p] : fdt[p][fd] \in FdEntry /\ fdt[p][fd].slot \in DOMAIN ofdt[p]
    BY <2>1 DEF TablesOK
  <2>3. \A s \in DOMAIN ofdt[p] : ofdt[p][s] \in OfdEntry /\ ofdt[p][s].ofd \in DOMAIN fileOf
    BY <2>1 DEF TablesOK
  <2> QED BY <2>1, <2>2, <2>3 DEF TablesOK, FdEntry, OfdEntry, FlagSets
<1>3. Range(fileOf) \subseteq Files
    BY <1>1 DEF Range, TablesInv
<1>4. inFlight \in [Ofds -> 0 .. MaxInFlight] /\ hostRefs \in [Ofds -> Nat] /\ hostCloses \in [Ofds -> Nat]
    BY <1>1, FileLocksConstants DEF HandlesInv
<1>5. parked \subseteq [proc : Live, fd : Fds, kind : LockKinds, type : LockTypes, ofd : Ofds]
    BY <1>1 DEF WaitersInv, Requests, Live
<1>6. failedOpens \in 0 .. MaxFailedOpens /\ DOMAIN fileOf \subseteq Ofds
      /\ proc \in [Procs -> {"unborn", "live", "zombie", "gone"}]
    BY <1>1, FileLocksConstants DEF TablesInv
<1>7. records \subseteq Records /\ wake \in BOOLEAN /\ retrying \subseteq parked
    BY <1>1 DEF LocksInv, WaitersInv
<1>8. TypeOK
    BY <1>2, <1>3, <1>4, <1>5, <1>6, <1>7 DEF TypeOK
<1>9. ASSUME NEW p \in Procs, NEW s \in Slots, s \in DOMAIN ofdt[p]
      PROVE  /\ ofdt[p][s].refs >= Cardinality(FdsOn(p, s))
             /\ failedOpens = 0 => ofdt[p][s].refs = Cardinality(FdsOn(p, s))
  <2>1. TablesOK(fdt[p], ofdt[p], DOMAIN fileOf, failedOpens)
    BY <1>1, ProcTables
  <2>2. FdsOn(p, s) = On(fdt[p], s)
    BY DEF FdsOn, On
  <2>3. ofdt[p][s].refs >= Cardinality(On(fdt[p], s)) /\ Cardinality(Over(fdt[p], ofdt[p])) <= failedOpens
    BY <1>9, <2>1 DEF TablesOK
  <2>4. IsFiniteSet(Over(fdt[p], ofdt[p])) /\ Cardinality(Over(fdt[p], ofdt[p])) \in Nat
    BY <2>1, TablesFinite
  <2>5. failedOpens = 0 => Over(fdt[p], ofdt[p]) = {}
    BY <2>3, <2>4, FS_EmptySet
  <2> QED BY <1>9, <2>2, <2>3, <2>5 DEF Over
<1> QED BY <1>8, <1>9 DEF TablesSound, SlotRefs

LEMMA InvHandles == IInv => HandleAccounting
BY DEF IInv, HandlesInv, CountOK, HandleAccounting, TablesInv

LEMMA InvLocks == IInv => LocksHaveOwner
<1> SUFFICES ASSUME IInv, NEW r \in records
             PROVE  IF r.owner.kind = "Process"
                    THEN LET p == r.owner.id
                         IN  /\ p \in Live
                             /\ \E fd \in DOMAIN fdt[p] : fileOf[OfdAt(p, fd)] = r.file
                    ELSE fileOf[r.owner.id] = r.file /\ References(r.owner.id) > 0
    BY DEF LocksHaveOwner
<1>1. TablesInv /\ HandlesInv /\ LocksInv
    BY DEF IInv
<1>2. OwnerOK(r)
    BY <1>1, RecordIs
<1>3. CASE r.owner.kind = "Process"
  <2> DEFINE p == r.owner.id
  <2>1. p \in Procs /\ \E fd \in DOMAIN fdt[p] : fileOf[OfdAt(p, fd)] = r.file
    BY <1>2, <1>3 DEF OwnerOK, Descends, OfdAt
  <2>2. proc[p] = "live"
    BY <1>1, <2>1 DEF TablesInv, EmptyOK
  <2> QED BY <1>3, <2>1, <2>2 DEF Live
<1>4. CASE r.owner.kind # "Process"
  <2>1. r.owner.id \in Ofds /\ References(r.owner.id) # 0 /\ fileOf[r.owner.id] = r.file
    BY <1>1, <1>2, <1>4, OfdOwnerKnown DEF OwnerOK
  <2>2. References(r.owner.id) \in Nat
    BY <1>1, <2>1, ReferencesNat DEF HandlesInv
  <2> QED BY <1>4, <2>1, <2>2
<1> QED BY <1>3, <1>4

(* The count of an open file description in its process never falls below    *)
(* the number of descriptors on it, whatever order of dup, dup2, close,      *)
(* fork, exec, exit, crash and SCM_RIGHTS transfer got there (fd.rs,         *)
(* ofd.rs), and without a failed open it is exact.                           *)
THEOREM TablesAreSound == Spec => []TablesSound
BY AlwaysInv, InvTables, PTL

(* HOST_HANDLE_REFS counts every slot and every message that shares a host   *)
(* handle, and host_close is called exactly once, for the last of them.      *)
THEOREM HandlesAreCounted == Spec => []HandleAccounting
BY AlwaysInv, InvHandles, PTL

(* No advisory lock survives its owner, whether the owner closed, exited,    *)
(* crashed or was dropped with an unread message.                            *)
THEOREM LocksAreOwned == Spec => []LocksHaveOwner
BY AlwaysInv, InvLocks, PTL

(* No step on descriptors, processes or messages takes a lock from an open   *)
(* file description that somebody still refers to.                           *)
THEOREM SharedLocksSurvive == Spec => SharedLockSurvives
<1> DEFINE Act == <<tables, handles>>' # <<tables, handles>> =>
                     \A r \in records : r.owner.kind # "Process" /\ r \notin records' =>
                         References(r.owner.id)' = 0
<1>1. ASSUME IInv, [Next]_vars PROVE [Act]_vars
  <2>1. CASE DescriptorStep \/ ProcessStep
    BY <1>1, <2>1, TableSteps DEF Survives
  <2>2. CASE LockStep \/ WakeStep
    <3>1. UNCHANGED <<tables, handles>>
        BY <1>1, <2>2, OtherSteps
    <3> QED BY <3>1
  <2> QED BY <1>1, <2>1, <2>2 DEF Next
<1>2. IInv /\ [Next]_vars => [Act]_vars
    BY <1>1
<1>3. SharedLockSurvives <=> [][Act]_vars
    BY DEF SharedLockSurvives
<1> QED BY <1>2, <1>3, AlwaysInv, PTL DEF Spec

(* A request that is parked, and not about to be run again, still conflicts  *)
(* with a lock unless a wake-up is queued: a parked caller never sleeps      *)
(* through the moment its lock becomes free.                                 *)
THEOREM ParkedIsBlocked == Spec => [](~ wake => \A r \in parked \ retrying : Waits(r))
<1>1. IInv => (~ wake => \A r \in parked \ retrying : Waits(r))
    BY DEF IInv, WaitersInv
<1> QED BY <1>1, AlwaysInv, PTL


-----------------------------------------------------------------------------
(* Upgrades: processes with one descriptor each, no descriptor in a message  *)
(* and no slot left behind by a failed open.  Each is needed: a process with *)
(* a second descriptor, or a slot it cannot reach, may wait for itself, and  *)
(* a message may hold a lock for ever.                                       *)
OneEach == (\A a, b \in Fds : a = b) /\ MaxInFlight = 0 /\ MaxFailedOpens = 0

(* The flock requests of processes that refer to the OFD of a record x *)
FlockRecords == {x \in records : x.owner.kind = "Flock"}
Behind(x) == {r \in parked \ retrying : r.kind = "Flock" /\ SlotsOf(r.proc, x.owner.id) # {}}

(* In any set of flock records there is one whose waiting holders all wait   *)
(* for a record outside the set: the one that was granted first.             *)
WaitOutside(x, X) == \A r \in Behind(x) : \E y \in FlockRecords \ X : Conflict(y, r)
ChainInv ==
    ~ wake => \A X \in SUBSET FlockRecords : X # {} => \E x \in X : WaitOutside(x, X)

BehindKept(F) == \A x \in F : Behind(x)' \subseteq Behind(x)

LEMMA SameConflict ==
    ASSUME WaitersInv, FilesKept, NEW x, NEW r \in Behind(x), NEW y, Conflict(y, r)
    PROVE  Conflict(y, r)'
<1>1. r \in parked
    BY DEF Behind
<1>2. fileOf'[r.ofd] = fileOf[r.ofd]
    BY <1>1 DEF WaitersInv, FilesKept
<1> QED BY <1>2 DEF Conflict, OwnerOf

LEMMA ChainKept ==
    ASSUME WaitersInv, ChainInv, FilesKept, wake => wake', ~ wake' => FlockRecords' = FlockRecords,
           ~ wake' => BehindKept(FlockRecords)
    PROVE  ChainInv'
<1> SUFFICES ASSUME ~ wake', NEW X, X \subseteq FlockRecords', X # {}
             PROVE  \E x \in X : WaitOutside(x, X)'
    BY DEF ChainInv
<1>1. ~ wake /\ FlockRecords' = FlockRecords /\ BehindKept(FlockRecords)
    OBVIOUS
<1>2. PICK x \in X : WaitOutside(x, X)
    BY <1>1 DEF ChainInv
<1>3. ASSUME NEW r \in Behind(x)' PROVE \E y \in FlockRecords' \ X : Conflict(y, r)'
    <2>1. r \in Behind(x)
        BY <1>1, <1>3 DEF BehindKept
    <2>2. PICK y \in FlockRecords \ X : Conflict(y, r)
        BY <1>2, <2>1 DEF WaitOutside
    <2>3. Conflict(y, r)'
        BY <2>1, <2>2, SameConflict
    <2> QED BY <1>1, <2>2, <2>3
<1>4. WaitOutside(x, X)'
    BY <1>3 DEF WaitOutside
<1> QED BY <1>4

(* A flock request conflicts with flock records only. *)
LEMMA FlockMeetsFlock ==
    ASSUME NEW x, NEW r \in Behind(x), NEW y \in records, Conflict(y, r)
    PROVE  y \in FlockRecords
<1>1. OwnerOf(r.proc, r.ofd, r.kind).kind = "Flock"
    BY DEF Behind, OwnerOf, FlockOwner
<1> QED BY <1>1 DEF Conflict, Blocks, SameNamespace, FlockRecords

(* A new record is the last of the chain: whoever waited before waits for    *)
(* another one.                                                              *)
LEMMA ChainLonger ==
    ASSUME WaitersInv, ChainInv, FilesKept, wake => wake', NEW z, z \notin FlockRecords,
           FlockRecords' = FlockRecords \cup {z}, BehindKept(FlockRecords \cup {z})
    PROVE  ChainInv'
<1> SUFFICES ASSUME ~ wake', NEW X, X \subseteq FlockRecords', X # {}
             PROVE  \E x \in X : WaitOutside(x, X)'
    BY DEF ChainInv
<1>1. ~ wake
    OBVIOUS
<1>2. CASE X = {z}
    <2>1. ASSUME NEW r \in Behind(z)' PROVE \E y \in FlockRecords' \ X : Conflict(y, r)'
        <3>1. r \in Behind(z)
            BY <2>1 DEF BehindKept
        <3>2. PICK y \in records : Conflict(y, r)
            BY <1>1, <3>1 DEF Behind, WaitersInv, Waits
        <3>3. y \in FlockRecords /\ Conflict(y, r)'
            BY <3>1, <3>2, FlockMeetsFlock, SameConflict
        <3> QED BY <1>2, <3>3
    <2>2. WaitOutside(z, X)'
        BY <2>1 DEF WaitOutside
    <2> QED BY <1>2, <2>2
<1>3. CASE X # {z}
    <2>1. PICK Y : Y = X \ {z}
        OBVIOUS
    <2>2. Y \subseteq FlockRecords /\ Y # {} /\ Y \subseteq X
        BY <1>3, <2>1
    <2>3. PICK x \in Y : WaitOutside(x, Y)
        BY <1>1, <2>2 DEF ChainInv
    <2>4. ASSUME NEW r \in Behind(x)' PROVE \E y \in FlockRecords' \ X : Conflict(y, r)'
        <3>1. r \in Behind(x)
            BY <2>2, <2>4 DEF BehindKept
        <3>2. PICK y \in FlockRecords \ Y : Conflict(y, r)
            BY <2>3, <3>1 DEF WaitOutside
        <3>3. Conflict(y, r)'
            BY <3>1, <3>2, SameConflict
        <3>4. y # z /\ y \notin X
            BY <2>1, <3>2
        <3> QED BY <3>2, <3>3, <3>4
    <2>5. WaitOutside(x, X)'
        BY <2>4 DEF WaitOutside
    <2> QED BY <2>2, <2>5
<1> QED BY <1>2, <1>3

-----------------------------------------------------------------------------
(* A process holds the OFD of its one descriptor and no other. *)
LEMMA OneSlot ==
    ASSUME IInv, OneEach, NEW p \in Procs, NEW d, SlotsOf(p, d) # {}
    PROVE  /\ proc[p] = "live" /\ DOMAIN fdt[p] # {}
           /\ \A fd \in DOMAIN fdt[p] : d = OfdAt(p, fd)
<1>0. PICK f, o : f = fdt[p] /\ o = ofdt[p]
    OBVIOUS
<1>1. TablesOK(f, o, DOMAIN fileOf, failedOpens) /\ failedOpens = 0 /\ EmptyOK(proc[p], f, o)
    BY <1>0, ProcTables DEF IInv, OneEach
<1>2. Over(f, o) = {}
    <2>1. IsFiniteSet(Over(f, o)) /\ Cardinality(Over(f, o)) \in Nat
        BY <1>1, TablesFinite
    <2>2. Cardinality(Over(f, o)) <= 0
        BY <1>1 DEF TablesOK
    <2>3. Cardinality(Over(f, o)) = 0
        BY <2>1, <2>2
    <2> QED BY <2>1, <2>3, FS_EmptySet
<1>3. PICK s \in DOMAIN o : o[s].ofd = d
    BY <1>0 DEF SlotsOf
<1>4. o[s].refs \in Nat \ {0}
    BY <1>1 DEF TablesOK, OfdEntry
<1>5. o[s].refs = Cardinality(On(f, s))
    BY <1>2 DEF Over
<1>6. On(f, s) # {}
    BY <1>1, <1>4, <1>5, TablesFinite
<1>7. PICK x \in DOMAIN f : f[x].slot = s
    BY <1>6 DEF On
<1>8. \A fd \in DOMAIN f : fd = x
    BY <1>1 DEF OneEach, TablesOK
<1>9. proc[p] = "live"
    <2>1. DOMAIN << >> = {}
        OBVIOUS
    <2> QED BY <1>1, <1>7, <2>1 DEF EmptyOK
<1>10. \A fd \in DOMAIN fdt[p] : d = OfdAt(p, fd)
    BY <1>0, <1>3, <1>7, <1>8 DEF OfdAt
<1> QED BY <1>0, <1>7, <1>9, <1>10

LEMMA NothingInFlight ==
    ASSUME IInv, OneEach, NEW d \in Ofds
    PROVE  inFlight[d] = 0
BY DEF IInv, HandlesInv, OneEach

(* From the invariant: the holder of the oldest record waits for nothing. *)
LEMMA InvUpgrades ==
    ASSUME IInv, ChainInv, OneEach
    PROVE  UpgradesProceed
<1> SUFFICES ASSUME Live # {}, ~ wake, retrying = {},
                    \A p \in Live : \E r \in ParkedBy(p) : r.kind = "Flock"
             PROVE  FALSE
    BY DEF UpgradesProceed
<1>0. TablesInv /\ LocksInv /\ WaitersInv
    BY DEF IInv
<1>1. FlockRecords # {}
    <2>1. PICK p \in Live, r \in parked : r.proc = p /\ r.kind = "Flock"
        BY DEF ParkedBy
    <2>2. PICK y \in records : Conflict(y, r)
        BY <1>0 DEF WaitersInv, Waits
    <2>3. OwnerOf(r.proc, r.ofd, r.kind).kind = "Flock"
        BY <2>1 DEF OwnerOf, FlockOwner
    <2> QED BY <2>2, <2>3 DEF Conflict, Blocks, SameNamespace, FlockRecords
<1>2. PICK x \in FlockRecords : WaitOutside(x, FlockRecords)
    BY <1>1 DEF ChainInv
<1>3. Behind(x) = {}
    BY <1>2 DEF WaitOutside
<1>4. PICK d : d = x.owner.id /\ d \in Ofds /\ References(d) # 0
    BY <1>0, OfdOwnerKnown DEF FlockRecords
<1>5. inFlight[d] = 0
    BY <1>4, NothingInFlight
<1>6. PICK q \in Procs : SlotsOf(q, d) # {}
    <2>1. Holders(d) # {}
        <3> SUFFICES ASSUME Holders(d) = {} PROVE FALSE
            OBVIOUS
        <3>1. Cardinality(Holders(d)) = 0
            BY FS_EmptySet
        <3> QED BY <1>4, <1>5, <3>1 DEF References
    <2> QED BY <2>1 DEF Holders
<1>7. q \in Live
    BY <1>6, OneSlot DEF Live
<1>8. PICK r \in parked : r.proc = q /\ r.kind = "Flock"
    BY <1>7 DEF ParkedBy
<1>9. r \in Behind(x)
    BY <1>4, <1>6, <1>8 DEF Behind
<1> QED BY <1>3, <1>9


-----------------------------------------------------------------------------
(* Steps on descriptors and processes give no waiting process another OFD. *)
SlotsShrink ==
    \A r \in parked' : \A d \in DOMAIN fileOf : SlotsOf(r.proc, d)' # {} => SlotsOf(r.proc, d) # {}

LEMMA QuietChain ==
    ASSUME IInv, ChainInv, FilesKept, wake => wake', ~ wake' => records' = records,
           parked' \subseteq parked, retrying \subseteq retrying', SlotsShrink
    PROVE  ChainInv'
<1>1. TablesInv /\ LocksInv /\ WaitersInv
    BY DEF IInv
<1>2. ASSUME NEW x \in FlockRecords, NEW r \in Behind(x)' PROVE r \in Behind(x)
    <2>1. r \in parked' /\ r \in parked \ retrying /\ r.kind = "Flock" /\ SlotsOf(r.proc, x.owner.id)' # {}
        BY <1>2 DEF Behind
    <2>2. x.owner.id \in DOMAIN fileOf
        BY <1>1, OfdOwnerKnown DEF FlockRecords
    <2>3. SlotsOf(r.proc, x.owner.id) # {}
        BY <2>1, <2>2 DEF SlotsShrink
    <2> QED BY <2>1, <2>3 DEF Behind
<1>3. BehindKept(FlockRecords)
    BY <1>2 DEF BehindKept
<1>4. ~ wake' => FlockRecords' = FlockRecords
    BY DEF FlockRecords
<1> QED BY <1>1, <1>3, <1>4, ChainKept

(* One process, or a process that waits for nothing, has a new table. *)
LEMMA OneShrinks ==
    ASSUME IInv, NEW p \in Procs, NEW o2, ofdt' = [ofdt EXCEPT ![p] = o2], parked' \subseteq parked,
           \/ \A d \in DOMAIN fileOf : Sharing(o2, d) # {} => Sharing(ofdt[p], d) # {}
           \/ proc[p] # "live"
    PROVE  SlotsShrink
<1>1. TablesInv /\ WaitersInv /\ DOMAIN ofdt = Procs
    BY DEF IInv, TablesInv
<1>2. ofdt'[p] = o2 /\ \A q \in Procs : q # p => ofdt'[q] = ofdt[q]
    BY <1>1
<1>3. ASSUME NEW r \in parked', NEW d \in DOMAIN fileOf, SlotsOf(r.proc, d)' # {}
      PROVE  SlotsOf(r.proc, d) # {}
    <2>1. r.proc \in Procs /\ proc[r.proc] = "live"
        BY <1>1, <1>3 DEF WaitersInv, Requests
    <2>2. \A q : SlotsOf(q, d)' = Sharing(ofdt'[q], d) /\ SlotsOf(q, d) = Sharing(ofdt[q], d)
        BY DEF SlotsOf, Sharing
    <2>3. CASE r.proc # p
        BY <1>2, <1>3, <2>1, <2>2, <2>3
    <2>4. CASE r.proc = p
        BY <1>2, <1>3, <2>1, <2>2, <2>4
    <2> QED BY <2>3, <2>4
<1> QED BY <1>3 DEF SlotsShrink

LEMMA OpenChain ==
    ASSUME IInv, ChainInv, NEW p \in Procs, NEW ofd \in Ofds, NEW file, NEW flags,
           Open(p, ofd, file, flags)
    PROVE  ChainInv'
<1> DEFINE s == FreeSlot(p)
           e == [ofd |-> ofd, refs |-> 1]
           o2 == With(ofdt[p], s, e)
<1>1. /\ ofd \notin DOMAIN fileOf /\ fileOf' = With(fileOf, ofd, file)
      /\ ofdt' = [ofdt EXCEPT ![p] = o2] /\ UNCHANGED <<records, wake, parked, retrying>>
    BY DEF Open, waiters
<1>2. FilesKept
    BY <1>1 DEF FilesKept, With
<1>3. ASSUME NEW d \in DOMAIN fileOf, Sharing(o2, d) # {} PROVE Sharing(ofdt[p], d) # {}
    <2>1. PICK t \in DOMAIN o2 : o2[t].ofd = d
        BY <1>3 DEF Sharing
    <2>2. e.ofd # d
        BY <1>1, <1>3
    <2> HIDE DEF s, e
    <2>3. t \in DOMAIN ofdt[p] /\ ofdt[p][t].ofd = d
        BY <2>1, <2>2 DEF With
    <2> QED BY <2>3 DEF Sharing
<1> HIDE DEF o2
<1>4. SlotsShrink
    BY <1>1, <1>3, OneShrinks
<1> QED BY <1>1, <1>2, <1>4, QuietChain

LEMMA MoreChain ==
    ASSUME IInv, ChainInv, NEW p \in Procs, NEW s \in DOMAIN ofdt[p],
           ofdt' = [ofdt EXCEPT ![p] = More(ofdt[p], s)],
           UNCHANGED <<fileOf, records, wake, parked, retrying>>
    PROVE  ChainInv'
<1>1. FilesKept
    BY DEF FilesKept
<1>2. TablesOK(fdt[p], ofdt[p], DOMAIN fileOf, failedOpens)
    BY ProcTables DEF IInv
<1>3. \A d : Sharing(More(ofdt[p], s), d) = Sharing(ofdt[p], d)
    BY <1>2, SharingMore
<1>4. SlotsShrink
    BY <1>3, OneShrinks
<1> QED BY <1>1, <1>4, QuietChain

LEMMA DevFdChain ==
    ASSUME IInv, ChainInv, NEW p \in Procs, NEW fd, NEW flags, OpenDevFd(p, fd, flags) \/ Dup(p, fd)
    PROVE  ChainInv'
<1> DEFINE s == fdt[p][fd].slot
<1>1. /\ fd \in DOMAIN fdt[p] /\ UNCHANGED <<fileOf, records, wake, parked, retrying>>
      /\ ofdt' = [ofdt EXCEPT ![p] = More(ofdt[p], s)]
    BY DEF OpenDevFd, Dup, waiters, More
<1>2. s \in DOMAIN ofdt[p]
    BY <1>1, FdSlot DEF IInv
<1> HIDE DEF s
<1> QED BY <1>1, <1>2, MoreChain

LEMMA ClosingChain ==
    ASSUME IInv, ChainInv, NEW p \in Procs, NEW gone,
           ofdt' = [ofdt EXCEPT ![p] = SlotsLeft(p, gone)], fileOf' = fileOf,
           wake' = (wake \/ records' # records), parked' \subseteq parked, retrying' = retrying
    PROVE  ChainInv'
<1>1. FilesKept
    BY DEF FilesKept
<1>2. TablesOK(fdt[p], ofdt[p], DOMAIN fileOf, failedOpens)
    BY ProcTables DEF IInv
<1>3. PICK o2 : o2 = SlotsLeft(p, gone)
    OBVIOUS
<1>4. o2 = LeftSlots(fdt[p], ofdt[p], gone)
    BY <1>3, ClosingIs
<1>5. ASSUME NEW d \in DOMAIN fileOf, Sharing(o2, d) # {} PROVE Sharing(ofdt[p], d) # {}
    <2>1. PICK t \in DOMAIN o2 : o2[t].ofd = d
        BY <1>5 DEF Sharing
    <2>2. ofdt[p][t].ofd = d
        BY <1>2, <1>4, <2>1, LeftSlotsIs
    <2>3. t \in DOMAIN ofdt[p]
        BY <1>4, <2>1 DEF LeftSlots
    <2> QED BY <2>2, <2>3 DEF Sharing
<1>6. SlotsShrink
    BY <1>3, <1>5, OneShrinks
<1>7. (wake => wake') /\ (~ wake' => records' = records)
    OBVIOUS
<1> QED BY <1>1, <1>6, <1>7, QuietChain

LEMMA RemoveChain ==
    ASSUME IInv, ChainInv, NEW p \in Procs, Remove(p)
    PROVE  ChainInv'
<1>1. /\ ofdt' = [ofdt EXCEPT ![p] = << >>] /\ fileOf' = fileOf /\ retrying' = retrying
      /\ wake' = (wake \/ records' # records) /\ parked' \subseteq parked
    BY DEF Remove
<1>2. FilesKept
    BY <1>1 DEF FilesKept
<1>3. \A d : Sharing(<< >>, d) = {}
    <2>1. DOMAIN << >> = {}
        OBVIOUS
    <2> QED BY <2>1 DEF Sharing
<1>4. SlotsShrink
    BY <1>1, <1>3, OneShrinks
<1>5. (wake => wake') /\ (~ wake' => records' = records)
    BY <1>1
<1> QED BY <1>1, <1>2, <1>4, <1>5, QuietChain

LEMMA ForkChain ==
    ASSUME IInv, ChainInv, NEW p \in Procs, NEW child \in Procs, Fork(p, child)
    PROVE  ChainInv'
<1>1. /\ UNCHANGED <<fileOf, records, wake, parked, retrying>> /\ proc[child] # "live"
      /\ \E o2 : ofdt' = [ofdt EXCEPT ![child] = o2]
    BY DEF Fork, waiters
<1>2. FilesKept
    BY <1>1 DEF FilesKept
<1>3. SlotsShrink
    BY <1>1, OneShrinks
<1> QED BY <1>1, <1>2, <1>3, QuietChain

LEMMA TableChain ==
    ASSUME IInv, ChainInv, OneEach, DescriptorStep \/ ProcessStep
    PROVE  ChainInv'
<1>1. ASSUME NEW p \in Procs, NEW ofd \in Ofds, NEW file \in Files, NEW flags \in FdFlags,
             Open(p, ofd, file, flags)
      PROVE  ChainInv'
    BY <1>1, OpenChain
<1>2. ASSUME NEW p \in Procs, NEW fd \in Fds, NEW flags \in FdFlags, OpenDevFd(p, fd, flags)
      PROVE  ChainInv'
    BY <1>2, DevFdChain
<1>3. ASSUME NEW p \in Procs, NEW fd \in Fds, Dup(p, fd) PROVE ChainInv'
    BY <1>3, DevFdChain
<1>4. ASSUME NEW p \in Procs, NEW fd \in Fds, Close(p, fd) PROVE ChainInv'
    <2>1. /\ ofdt' = [ofdt EXCEPT ![p] = SlotsLeft(p, {fd})] /\ UNCHANGED <<fileOf, parked, retrying>>
          /\ wake' = (wake \/ records' # records)
        BY <1>4 DEF Close, CloseAll, Release, waiters
    <2> QED BY <2>1, ClosingChain
<1>5. ASSUME NEW p \in Procs, NEW fd \in Fds, Send(p, fd) PROVE FALSE
    <2>1. OfdAt(p, fd) \in Ofds /\ inFlight[OfdAt(p, fd)] < MaxInFlight
        BY <1>5, FdSlot DEF Send, IInv
    <2>2. inFlight[OfdAt(p, fd)] = 0 /\ MaxInFlight = 0
        BY <2>1, NothingInFlight DEF OneEach
    <2> QED BY <2>1, <2>2
<1>6. ASSUME NEW p \in Procs, NEW old \in Fds, NEW new \in Fds, NEW flags \in FdFlags,
             Dup3(p, old, new, flags)
      PROVE  FALSE
    BY <1>6 DEF Dup3, OneEach
<1>7. ASSUME NEW p \in Procs, NEW ofd \in Ofds, Receive(p, ofd) PROVE FALSE
    <2>1. inFlight[ofd] > 0 /\ inFlight[ofd] = 0
        BY <1>7, NothingInFlight DEF Receive
    <2> QED BY <2>1
<1>8. ASSUME NEW ofd \in Ofds, Discard(ofd) PROVE FALSE
    <2>1. inFlight[ofd] > 0 /\ inFlight[ofd] = 0
        BY <1>8, NothingInFlight DEF Discard
    <2> QED BY <2>1
<1>9. ASSUME NEW p \in Procs, Create(p) PROVE ChainInv'
    <2>1. UNCHANGED <<ofdt, fileOf, records, wake, parked, retrying>>
        BY <1>9 DEF Create, waiters
    <2>2. FilesKept /\ SlotsShrink
        BY <2>1 DEF FilesKept, SlotsShrink, SlotsOf
    <2> QED BY <2>1, <2>2, QuietChain
<1>10. ASSUME NEW p \in Procs, Exec(p) PROVE ChainInv'
    <2>1. PICK gone : ofdt' = [ofdt EXCEPT ![p] = SlotsLeft(p, gone)] /\ CloseAll(p, gone)
        BY <1>10 DEF Exec
    <2>2. /\ UNCHANGED <<fileOf, retrying>> /\ parked' \subseteq parked
          /\ wake' = (wake \/ records' # records)
        BY <1>10, <2>1 DEF Exec, CloseAll, Release
    <2> QED BY <2>1, <2>2, ClosingChain
<1>11. ASSUME NEW p \in Procs, Exit(p) PROVE ChainInv'
    <2>1. /\ ofdt' = [ofdt EXCEPT ![p] = SlotsLeft(p, DOMAIN fdt[p])]
          /\ UNCHANGED <<fileOf, retrying>> /\ parked' \subseteq parked
          /\ wake' = (wake \/ records' # records)
        BY <1>11 DEF Exit, Release
    <2> QED BY <2>1, ClosingChain
<1>12. CASE DescriptorStep
    BY <1>1, <1>2, <1>3, <1>4, <1>5, <1>6, <1>7, <1>8, <1>12 DEF DescriptorStep
<1>13. CASE ProcessStep
    BY <1>9, <1>10, <1>11, <1>13, ForkChain, RemoveChain DEF ProcessStep
<1> QED BY <1>12, <1>13


-----------------------------------------------------------------------------
(* Lock calls.  Without a wake-up no record goes, and at most the one asked  *)
(* for is new.                                                               *)
LEMMA AttemptAdds ==
    ASSUME LocksInv, wake \in BOOLEAN, NEW p, NEW ofd, NEW kind, NEW type,
           Attempt(p, ofd, kind, type), ~ wake'
    PROVE  \/ records' = records
           \/ \E z : z \notin records /\ records' = records \cup {z}
<1> DEFINE new == Asked(p, ofd, kind, type)
<1>1. \A r \in records' : r \in records \/ r = new
    BY AttemptIs
<1>2. ASSUME NEW y \in records PROVE y \in records'
    <2>1. CASE y \notin records'
        <3>1. /\ new \in records' /\ y.type = new.type /\ y.file = new.file /\ y.owner = new.owner
            BY <2>1, AttemptIs
        <3>2. y \in Records /\ y.start = 0 /\ y.end = Eof
            BY RecordIs
        <3>3. y = [file |-> y.file, owner |-> y.owner, type |-> y.type, start |-> y.start, end |-> y.end]
            BY <3>2 DEF Records
        <3>4. new = [file |-> new.file, owner |-> new.owner, type |-> new.type, start |-> 0, end |-> Eof]
            BY DEF Asked, WholeRecord
        <3>5. y = new
            <4> HIDE DEF new
            <4> QED BY <3>1, <3>2, <3>3, <3>4
        <3> QED BY <3>1, <3>5
    <2> QED BY <2>1
<1> HIDE DEF new
<1> QED BY <1>1, <1>2

(* A call that leaves the tables alone, while nobody new waits *)
LEMMA AttemptChain ==
    ASSUME IInv, ChainInv, NEW p, NEW ofd, NEW kind, NEW type, Attempt(p, ofd, kind, type),
           UNCHANGED <<fileOf, ofdt>>, parked' \ retrying' \subseteq parked \ retrying
    PROVE  ChainInv'
<1>1. LocksInv /\ WaitersInv /\ wake \in BOOLEAN
    BY DEF IInv, WaitersInv
<1>2. wake => wake'
    BY <1>1, AttemptIs
<1>3. FilesKept
    BY DEF FilesKept
<1>4. \A F : BehindKept(F)
    BY DEF BehindKept, Behind, SlotsOf
<1>5. CASE wake'
    BY <1>5 DEF ChainInv
<1>6. CASE ~ wake'
    <2>1. CASE records' = records
        <3>1. FlockRecords' = FlockRecords
            BY <2>1 DEF FlockRecords
        <3> QED BY <1>1, <1>2, <1>3, <1>4, <3>1, ChainKept
    <2>2. ASSUME NEW z, z \notin records, records' = records \cup {z} PROVE ChainInv'
        <3>1. CASE z.owner.kind = "Flock"
            <4>1. z \notin FlockRecords /\ FlockRecords' = FlockRecords \cup {z}
                BY <2>2, <3>1 DEF FlockRecords
            <4> QED BY <1>1, <1>2, <1>3, <1>4, <4>1, ChainLonger
        <3>2. CASE z.owner.kind # "Flock"
            <4>1. FlockRecords' = FlockRecords
                BY <2>2, <3>2 DEF FlockRecords
            <4> QED BY <1>1, <1>2, <1>3, <1>4, <4>1, ChainKept
        <3> QED BY <3>1, <3>2
    <2> QED BY <1>1, <1>6, <2>1, <2>2, AttemptAdds
<1> QED BY <1>5, <1>6

(* A call that parks has given up what its process held by flock. *)
LEMMA ParkChain ==
    ASSUME IInv, ChainInv, OneEach, NEW p \in Procs, NEW fd \in DOMAIN fdt[p], NEW ofd,
           ofd = OfdAt(p, fd), NEW kind, NEW type \in LockTypes, Attempt(p, ofd, kind, type),
           Error(p, ofd, kind, type) = "EAGAIN", UNCHANGED <<fileOf, ofdt>>,
           NEW req, req.proc = p, req.kind = kind,
           parked' \ retrying' \subseteq (parked \ retrying) \cup {req}
    PROVE  ChainInv'
<1>1. TablesInv /\ LocksInv /\ WaitersInv /\ wake \in BOOLEAN
    BY DEF IInv, WaitersInv
<1>2. wake => wake'
    BY <1>1, AttemptIs
<1>3. FilesKept
    BY DEF FilesKept
<1>4. ASSUME ~ wake' PROVE records' = records /\ AfterDrop(p, ofd, kind, type) = records
    <2>1. records' = AfterDrop(p, ofd, kind, type)
        BY <1>1, AttemptBlocked
    <2>2. records' \subseteq records
        BY <1>1, <2>1, DropIs
    <2>3. records' = records
        BY <1>1, <1>4, <2>2, AttemptAdds
    <2> QED BY <2>1, <2>3
<1>5. ASSUME ~ wake', NEW x \in FlockRecords, NEW r \in Behind(x)' PROVE r \in Behind(x)
    <2>1. r \in parked' \ retrying' /\ r.kind = "Flock" /\ SlotsOf(r.proc, x.owner.id) # {}
        BY <1>5 DEF Behind, SlotsOf
    <2>2. CASE r = req
        <3>1. x.owner.id = ofd /\ kind = "Flock"
            BY <2>1, <2>2, OneSlot
        <3>2. x \in records /\ x.owner.kind = "Flock"
            BY DEF FlockRecords
        <3>3. x.owner = FlockOwner(ofd) /\ x.file = fileOf[ofd]
            <4>1. OwnerOK(x) /\ x.owner = FlockOwner(x.owner.id)
                BY <1>1, <3>2, RecordIs
            <4> QED BY <3>1, <3>2, <4>1 DEF OwnerOK
        <3>4. type # "Unlock"
            BY DEF LockTypes
        <3>5. RemoveFileOwner(records, fileOf[ofd], FlockOwner(ofd)) = records
            BY <1>4, <1>5, <3>1, <3>4 DEF AfterDrop
        <3> QED BY <3>2, <3>3, <3>5 DEF RemoveFileOwner, Own
    <2>3. CASE r # req
        BY <2>1, <2>3 DEF Behind
    <2> QED BY <2>2, <2>3
<1>6. ~ wake' => BehindKept(FlockRecords)
    BY <1>5 DEF BehindKept
<1>7. ~ wake' => FlockRecords' = FlockRecords
    BY <1>4 DEF FlockRecords
<1> QED BY <1>1, <1>2, <1>3, <1>6, <1>7, ChainKept

LEMMA RetryChain ==
    ASSUME IInv, ChainInv, OneEach, NEW r \in retrying, Retry(r)
    PROVE  ChainInv'
<1>0. PICK p, ofd, again : p = r.proc /\ ofd = OfdAt(p, r.fd) /\ again = [r EXCEPT !.ofd = ofd]
    OBVIOUS
<1>1. /\ retrying' = retrying \ {r} /\ UNCHANGED <<fileOf, ofdt>>
    BY DEF Retry, tables
<1>2. /\ r \in parked /\ r \in Requests /\ p \in Procs
      /\ r.kind \in LockKinds /\ r.type \in LockTypes
    BY <1>0 DEF IInv, WaitersInv, Requests
<1>3. again.proc = p /\ again.kind = r.kind
    BY <1>0, <1>2 DEF Requests
<1>4. CASE parked' = parked \ {r} /\ records' = records /\ wake' = wake
    <2>1. parked' \ retrying' \subseteq parked \ retrying
        BY <1>1, <1>4
    <2>2. FilesKept /\ BehindKept(FlockRecords) /\ FlockRecords' = FlockRecords
        BY <1>1, <1>4, <2>1 DEF FilesKept, BehindKept, Behind, FlockRecords, SlotsOf
    <2> QED BY <1>4, <2>2, ChainKept DEF IInv
<1>5. CASE Attempt(p, ofd, r.kind, r.type) /\ parked' = parked \ {r}
    <2>1. parked' \ retrying' \subseteq parked \ retrying
        BY <1>1, <1>5
    <2> QED BY <1>1, <1>5, <2>1, AttemptChain
<1>6. CASE /\ r.fd \in DOMAIN fdt[p] /\ Attempt(p, ofd, r.kind, r.type)
           /\ Error(p, ofd, r.kind, r.type) = "EAGAIN"
           /\ parked' = (parked \ {r}) \cup {again}
    <2>1. parked' \ retrying' \subseteq (parked \ retrying) \cup {again}
        BY <1>1, <1>6
    <2>2. PICK fd \in DOMAIN fdt[p], kind \in LockKinds, type \in LockTypes :
               fd = r.fd /\ kind = r.kind /\ type = r.type
        BY <1>2, <1>6
    <2>3. /\ ofd = OfdAt(p, fd) /\ Attempt(p, ofd, kind, type) /\ Error(p, ofd, kind, type) = "EAGAIN"
          /\ again.proc = p /\ again.kind = kind
        BY <1>0, <1>3, <1>6, <2>2
    <2>4. UNCHANGED <<fileOf, ofdt>> /\ p \in Procs
        BY <1>1, <1>2
    <2> QED BY <2>1, <2>2, <2>3, <2>4, ParkChain
<1> QED BY <1>0, <1>4, <1>5, <1>6 DEF Retry

LEMMA OtherChain ==
    ASSUME IInv, ChainInv, OneEach, LockStep \/ WakeStep
    PROVE  ChainInv'
<1>1. ASSUME NEW p \in Procs, NEW fd \in Fds, NEW kind \in LockKinds,
             NEW type \in LockTypes \cup {"Unlock"}, Lock(p, fd, kind, type)
      PROVE  ChainInv'
    <2>1. Attempt(p, OfdAt(p, fd), kind, type) /\ UNCHANGED <<fileOf, ofdt, parked, retrying>>
        BY <1>1 DEF Lock, tables, waiters
    <2> QED BY <2>1, AttemptChain
<1>2. ASSUME NEW p \in Procs, NEW fd \in Fds, NEW kind \in LockKinds, NEW type \in LockTypes,
             Park(p, fd, kind, type)
      PROVE  ChainInv'
    <2>0. PICK ofd, req :
            /\ ofd = OfdAt(p, fd)
            /\ req = [proc |-> p, fd |-> fd, kind |-> kind, type |-> type, ofd |-> ofd]
        OBVIOUS
    <2>1. /\ fd \in DOMAIN fdt[p] /\ Attempt(p, ofd, kind, type) /\ Error(p, ofd, kind, type) = "EAGAIN"
          /\ UNCHANGED <<fileOf, ofdt, retrying>> /\ parked' = parked \cup {req}
        BY <1>2, <2>0 DEF Park, tables
    <2>2. req.proc = p /\ req.kind = kind
        BY <2>0
    <2>3. parked' \ retrying' \subseteq (parked \ retrying) \cup {req}
        BY <2>1
    <2> QED BY <2>0, <2>1, <2>2, <2>3, ParkChain
<1>3. CASE DrainWake
    <2>1. parked' \ retrying' = {}
        BY <1>3 DEF DrainWake
    <2>2. \A x, X : WaitOutside(x, X)'
        BY <2>1 DEF WaitOutside, Behind
    <2> QED BY <2>2 DEF ChainInv
<1>4. ASSUME NEW r \in parked, Nudge(r) PROVE ChainInv'
    <2>1. /\ UNCHANGED <<fileOf, ofdt, records, wake, parked>>
          /\ parked' \ retrying' \subseteq parked \ retrying
        BY <1>4 DEF Nudge, Idle, tables
    <2>2. FilesKept /\ BehindKept(FlockRecords) /\ FlockRecords' = FlockRecords
        BY <2>1 DEF FilesKept, BehindKept, Behind, FlockRecords, SlotsOf
    <2> QED BY <2>1, <2>2, ChainKept DEF IInv
<1>5. CASE LockStep
    BY <1>1, <1>2, <1>5 DEF LockStep
<1>6. CASE WakeStep
    BY <1>3, <1>4, <1>6, RetryChain DEF WakeStep
<1> QED BY <1>5, <1>6

LEMMA NextChain ==
    ASSUME OneEach
    PROVE  IInv /\ ChainInv /\ [Next]_vars => ChainInv'
<1> SUFFICES ASSUME IInv, ChainInv, [Next]_vars PROVE ChainInv'
    OBVIOUS
<1>1. CASE UNCHANGED vars
    <2>1. UNCHANGED <<fileOf, ofdt, records, wake, parked, retrying>>
        BY <1>1 DEF vars, tables, waiters
    <2>2. FilesKept /\ SlotsShrink
        BY <2>1 DEF FilesKept, SlotsShrink, SlotsOf
    <2> QED BY <2>1, <2>2, QuietChain
<1> QED BY <1>1, TableChain, OtherChain DEF Next

(* However many processes and files there are: when every process has one    *)
(* descriptor, they cannot all end up waiting for flock.  A blocked          *)
(* conversion has given up its old mode, so the holder of the lock that was  *)
(* granted first waits for nothing.                                          *)
THEOREM UpgradesAlwaysProceed ==
    ASSUME \A a, b \in Fds : a = b, MaxInFlight = 0, MaxFailedOpens = 0
    PROVE  Spec => []UpgradesProceed
<1>1. OneEach
    BY DEF OneEach
<1>2. Init => ChainInv
    BY DEF Init, ChainInv, FlockRecords
<1>3. IInv /\ ChainInv => UpgradesProceed
    BY <1>1, InvUpgrades
<1> QED BY <1>1, <1>2, <1>3, AlwaysInv, NextChain, PTL DEF Spec

=============================================================================
