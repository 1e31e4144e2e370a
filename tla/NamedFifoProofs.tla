--------------------------- MODULE NamedFifoProofs ---------------------------
(***************************************************************************)
(* The invariants of a named pipe for any finite set of threads, any        *)
(* capacity and any number of hard links.  The inductive invariant is       *)
(* stated of a buffer b, descriptors d and the readers s that met a write   *)
(* end, among them those that met an open writer, so that a step is a       *)
(* statement about two such triples.                                        *)
(***************************************************************************)
EXTENDS NamedFifo, TLAPS, FiniteSetTheorems

Waiter == [side : Sides, ready : BOOLEAN]
WaiterMaps == UNION {[D -> Waiter] : D \in SUBSET Threads}
Buffers ==
    [reads : Nat, writes : Nat, readOnly : Nat, everOpened : BOOLEAN,
     hangup : BOOLEAN, names : 0 .. MaxNames, paths : Nat, len : 0 .. Capacity,
     waiters : WaiterMaps, freed : BOOLEAN]
Descs == [Threads -> Kinds \cup {"None"}]

Held(d, K) == {t \in Threads : d[t] \in K}
Waiting(w, side) == {t \in DOMAIN w : w[t].side = side}

Readers == {"Read", "ReadWrite"}
Writers == {"Write", "ReadWrite"}

Counted(b, d) ==
    /\ b.reads = Cardinality(Held(d, Readers)) + Cardinality(Waiting(b.waiters, "Reader"))
    /\ b.writes = Cardinality(Held(d, Writers)) + Cardinality(Waiting(b.waiters, "Writer"))
    /\ b.readOnly = Cardinality(Held(d, {"Read"}))
    /\ b.paths = Cardinality(Held(d, {"Path"}))

(* A thread inside open() has no descriptor of the FIFO yet. *)
NotBoth(b, d) == \A t \in DOMAIN b.waiters : d[t] = "None"

Meets(b) ==
    \A t \in DOMAIN b.waiters : ~ b.waiters[t].ready =>
        IF b.waiters[t].side = "Reader" THEN b.writes = 0 ELSE b.reads = 0

(* everOpened is what a reader's hang-up is derived from. *)
Cohort(b) ==
    /\ b.readOnly > 0 /\ b.writes > 0 => b.everOpened
    /\ ReadyReader(b) => b.everOpened
    /\ b.hangup => b.everOpened /\ b.writes = 0
    /\ b.everOpened /\ b.writes = 0 => b.readOnly > 0 \/ ReadyReader(b)

(* A reader that met a writer is open, and told if the writers left, or its  *)
(* open() is ready to return.                                                *)
Told(b, d, s) ==
    \A t \in s : \/ d[t] = "Read" /\ (b.writes = 0 => b.hangup)
                 \/ t \in Waiting(b.waiters, "Reader") /\ b.waiters[t].ready

Good(b, d, s) ==
    /\ b \in Buffers /\ d \in Descs /\ s \subseteq Threads
    /\ Counted(b, d) /\ NotBoth(b, d) /\ Meets(b)
    /\ b.freed = FullyClosed(b)
    /\ Cohort(b) /\ Told(b, d, s)

-----------------------------------------------------------------------------
(* Counting. *)
LEMMA CountAdd ==
    ASSUME NEW S, IsFiniteSet(S), NEW x, x \notin S
    PROVE  Cardinality(S \cup {x}) = Cardinality(S) + 1 /\ Cardinality(S) \in Nat
BY FS_AddElement, FS_CardinalityType

LEMMA CountDrop ==
    ASSUME NEW S, IsFiniteSet(S), NEW x \in S
    PROVE  Cardinality(S \ {x}) = Cardinality(S) - 1 /\ Cardinality(S) \in Nat \ {0}
<1>1. Cardinality(S \ {x}) = Cardinality(S) - 1 /\ Cardinality(S) \in Nat
    BY FS_RemoveElement, FS_CardinalityType
<1>2. Cardinality(S) # 0
    BY FS_EmptySet
<1> QED BY <1>1, <1>2

LEMMA HeldFinite ==
    ASSUME NEW d, NEW K
    PROVE  IsFiniteSet(Held(d, K)) /\ Cardinality(Held(d, K)) \in Nat
           /\ (Cardinality(Held(d, K)) = 0 <=> Held(d, K) = {})
BY FS_Subset, FS_CardinalityType, FS_EmptySet, NamedFifoConstants DEF Held

LEMMA WaitingFinite ==
    ASSUME NEW w \in WaiterMaps, NEW side
    PROVE  IsFiniteSet(Waiting(w, side)) /\ Cardinality(Waiting(w, side)) \in Nat
           /\ (Cardinality(Waiting(w, side)) = 0 <=> Waiting(w, side) = {})
<1>1. Waiting(w, side) \subseteq Threads
    BY DEF WaiterMaps, Waiting
<1> QED BY <1>1, FS_Subset, FS_CardinalityType, FS_EmptySet, NamedFifoConstants

(* A thread gets a descriptor, or loses it. *)
LEMMA Gains ==
    ASSUME NEW d \in Descs, NEW t \in Threads, d[t] = "None", NEW k \in Kinds,
           NEW K \in SUBSET Kinds
    PROVE  LET e == [d EXCEPT ![t] = k] IN
           /\ e \in Descs
           /\ Cardinality(Held(e, K)) = Cardinality(Held(d, K)) + (IF k \in K THEN 1 ELSE 0)
<1> DEFINE e == [d EXCEPT ![t] = k]
<1>1. e \in Descs /\ t \notin Held(d, K)
    BY DEF Descs, Held, Kinds, Modes
<1>2. CASE k \in K
    <2>1. Held(e, K) = Held(d, K) \cup {t}
        BY <1>2 DEF Held, Descs
    <2> QED BY <1>1, <1>2, <2>1, CountAdd, HeldFinite
<1>3. CASE k \notin K
    <2>1. Held(e, K) = Held(d, K)
        BY <1>1, <1>3 DEF Held, Descs
    <2> QED BY <1>1, <1>3, <2>1, HeldFinite
<1> QED BY <1>2, <1>3

LEMMA Loses ==
    ASSUME NEW d \in Descs, NEW t \in Threads, NEW K \in SUBSET Kinds
    PROVE  LET e == [d EXCEPT ![t] = "None"] IN
           /\ e \in Descs
           /\ Cardinality(Held(e, K)) = Cardinality(Held(d, K)) - (IF d[t] \in K THEN 1 ELSE 0)
           /\ d[t] \in K => Cardinality(Held(d, K)) >= 1
<1> DEFINE e == [d EXCEPT ![t] = "None"]
<1>1. e \in Descs /\ t \notin Held(e, K)
    BY DEF Descs, Held, Kinds, Modes
<1>2. CASE d[t] \in K
    <2>1. Held(e, K) = Held(d, K) \ {t} /\ t \in Held(d, K)
        BY <1>1, <1>2 DEF Held, Descs
    <2>2. /\ Cardinality(Held(e, K)) = Cardinality(Held(d, K)) - 1
          /\ Cardinality(Held(d, K)) \in Nat \ {0}
        BY <2>1, CountDrop, HeldFinite
    <2> QED BY <1>1, <1>2, <2>2
<1>3. CASE d[t] \notin K
    <2>1. Held(e, K) = Held(d, K)
        BY <1>1, <1>3 DEF Held, Descs
    <2> QED BY <1>1, <1>3, <2>1, HeldFinite
<1> QED BY <1>2, <1>3

LEMMA WaiterMapType ==
    /\ \A w \in WaiterMaps : DOMAIN w \in SUBSET Threads /\ w \in [DOMAIN w -> Waiter]
    /\ \A D \in SUBSET Threads : [D -> Waiter] \subseteq WaiterMaps
BY DEF WaiterMaps

(* A waiter comes, goes, or is told that it may return. *)
With(w, t, side) == [u \in DOMAIN w \cup {t} |->
    IF u = t THEN [side |-> side, ready |-> FALSE] ELSE w[u]]
Less(w, t) == Restrict(w, DOMAIN w \ {t})
Woken(w, sides) == [t \in DOMAIN w |->
    IF w[t].side \in sides THEN [w[t] EXCEPT !.ready = TRUE] ELSE w[t]]

Came(w, t, side, v) ==
    /\ v \in WaiterMaps /\ DOMAIN v = DOMAIN w \cup {t}
    /\ v[t] = [side |-> side, ready |-> FALSE]
    /\ \A u \in DOMAIN w : v[u] = w[u]
    /\ \A x \in Sides : Cardinality(Waiting(v, x))
          = Cardinality(Waiting(w, x)) + (IF x = side THEN 1 ELSE 0)

LEMMA WaiterComes ==
    ASSUME NEW w \in WaiterMaps, NEW t \in Threads \ DOMAIN w, NEW side \in Sides
    PROVE  Came(w, t, side, With(w, t, side))
<1> DEFINE v == With(w, t, side)
<1>1. /\ v \in WaiterMaps /\ DOMAIN v = DOMAIN w \cup {t}
      /\ v[t] = [side |-> side, ready |-> FALSE]
      /\ \A u \in DOMAIN w : v[u] = w[u]
    <2>1. DOMAIN w \in SUBSET Threads /\ w \in [DOMAIN w -> Waiter]
        BY WaiterMapType
    <2>2. /\ v \in [DOMAIN w \cup {t} -> Waiter]
          /\ v[t] = [side |-> side, ready |-> FALSE]
          /\ \A u \in DOMAIN w : v[u] = w[u]
        BY <2>1 DEF With, Waiter
    <2> HIDE DEF v
    <2> QED BY <2>1, <2>2, WaiterMapType
<1> HIDE DEF v
<1>2. ASSUME NEW x \in Sides
      PROVE  Cardinality(Waiting(v, x)) = Cardinality(Waiting(w, x)) + (IF x = side THEN 1 ELSE 0)
    <2>1. CASE x = side
        <3>1. Waiting(v, x) = Waiting(w, x) \cup {t} /\ t \notin Waiting(w, x)
            BY <1>1, <2>1 DEF Waiting
        <3> QED BY <2>1, <3>1, CountAdd, WaitingFinite
    <2>2. CASE x # side
        <3>1. Waiting(v, x) = Waiting(w, x)
            BY <1>1, <2>2 DEF Waiting
        <3> QED BY <2>2, <3>1, WaitingFinite
    <2> QED BY <2>1, <2>2
<1>3. Came(w, t, side, v)
    BY <1>1, <1>2 DEF Came
<1> QED BY <1>3 DEF v

LEMMA WaiterGoes ==
    ASSUME NEW w \in WaiterMaps, NEW t \in DOMAIN w
    PROVE  LET v == Less(w, t) IN
           /\ v \in WaiterMaps /\ DOMAIN v = DOMAIN w \ {t}
           /\ \A u \in DOMAIN v : v[u] = w[u]
           /\ w[t].side \in Sides /\ t \in Threads
           /\ Cardinality(Waiting(w, w[t].side)) > 0
           /\ \A x \in Sides : Cardinality(Waiting(v, x))
                 = Cardinality(Waiting(w, x)) - (IF x = w[t].side THEN 1 ELSE 0)
<1> DEFINE v == Less(w, t)
<1>1. /\ v \in WaiterMaps /\ DOMAIN v = DOMAIN w \ {t}
      /\ \A u \in DOMAIN v : v[u] = w[u]
      /\ w[t].side \in Sides /\ t \in Threads
    <2>1. DOMAIN w \in SUBSET Threads /\ w \in [DOMAIN w -> Waiter]
        BY WaiterMapType
    <2>2. v \in [DOMAIN w \ {t} -> Waiter] /\ \A u \in DOMAIN w \ {t} : v[u] = w[u]
        BY <2>1 DEF Less, Restrict, Waiter
    <2> HIDE DEF v
    <2> QED BY <2>1, <2>2, WaiterMapType DEF Waiter
<1> HIDE DEF v
<1>2. Cardinality(Waiting(w, w[t].side)) > 0
    <2>1. t \in Waiting(w, w[t].side)
        BY DEF Waiting
    <2> QED BY <2>1, WaitingFinite
<1>3. ASSUME NEW x \in Sides
      PROVE  Cardinality(Waiting(v, x)) = Cardinality(Waiting(w, x)) - (IF x = w[t].side THEN 1 ELSE 0)
    <2>1. CASE x = w[t].side
        <3>1. Waiting(v, x) = Waiting(w, x) \ {t} /\ t \in Waiting(w, x)
            BY <1>1, <2>1 DEF Waiting
        <3> QED BY <2>1, <3>1, CountDrop, WaitingFinite
    <2>2. CASE x # w[t].side
        <3>1. Waiting(v, x) = Waiting(w, x)
            BY <1>1, <2>2 DEF Waiting
        <3> QED BY <2>2, <3>1, WaitingFinite
    <2> QED BY <2>1, <2>2
<1> QED BY <1>1, <1>2, <1>3 DEF v

LEMMA WaitersWoken ==
    ASSUME NEW w \in WaiterMaps, NEW sides \in SUBSET Sides
    PROVE  LET v == Woken(w, sides) IN
           /\ v \in WaiterMaps /\ DOMAIN v = DOMAIN w
           /\ \A u \in DOMAIN w : /\ v[u].side = w[u].side
                                  /\ v[u].ready <=> w[u].ready \/ w[u].side \in sides
           /\ \A x \in Sides : Waiting(v, x) = Waiting(w, x)
<1> DEFINE v == Woken(w, sides)
<1>1. /\ v \in WaiterMaps /\ DOMAIN v = DOMAIN w
      /\ \A u \in DOMAIN w : /\ v[u].side = w[u].side
                             /\ v[u].ready <=> w[u].ready \/ w[u].side \in sides
    <2>1. DOMAIN w \in SUBSET Threads /\ w \in [DOMAIN w -> Waiter]
        BY WaiterMapType
    <2>2. v \in [DOMAIN w -> Waiter]
        BY <2>1 DEF Woken, Waiter
    <2>3. \A u \in DOMAIN w : /\ v[u].side = w[u].side
                              /\ v[u].ready <=> w[u].ready \/ w[u].side \in sides
        BY <2>1 DEF Woken, Waiter
    <2> HIDE DEF v
    <2> QED BY <2>1, <2>2, <2>3, WaiterMapType
<1> QED BY <1>1 DEF Waiting

-----------------------------------------------------------------------------
(* What each method of the buffer leaves in its fields. *)
SameFlags(b, c) == (c.everOpened <=> b.everOpened) /\ (c.hangup <=> b.hangup)
SameRest(b, c) == c.names = b.names /\ c.paths = b.paths /\ (c.freed <=> b.freed)

LEMMA ReadyReaderSame ==
    ASSUME NEW b, NEW c, c.waiters = b.waiters
    PROVE  ReadyReader(c) <=> ReadyReader(b)
BY DEF ReadyReader

LEMMA AddReaderFields ==
    ASSUME NEW b \in Buffers
    PROVE  LET c == AddReader(b) IN
           /\ c \in Buffers /\ SameFlags(b, c) /\ SameRest(b, c)
           /\ c.reads = b.reads + 1 /\ c.writes = b.writes /\ c.readOnly = b.readOnly
           /\ c.waiters = b.waiters /\ c.len = b.len
BY DEF Buffers, AddReader, SameFlags, SameRest

LEMMA AddWriterFields ==
    ASSUME NEW b \in Buffers
    PROVE  LET c == AddWriter(b) IN
           /\ c \in Buffers /\ SameFlags(b, c) /\ SameRest(b, c)
           /\ c.reads = b.reads /\ c.writes = b.writes + 1 /\ c.readOnly = b.readOnly
           /\ c.waiters = b.waiters /\ c.len = b.len
BY DEF Buffers, AddWriter, SameFlags, SameRest

LEMMA CloseReadEndFields ==
    ASSUME NEW b \in Buffers, b.reads > 0
    PROVE  LET c == CloseReadEnd(b) IN
           /\ c \in Buffers /\ SameFlags(b, c) /\ SameRest(b, c)
           /\ c.reads = b.reads - 1 /\ c.writes = b.writes /\ c.readOnly = b.readOnly
           /\ c.waiters = b.waiters
<1>1. Capacity \in Nat
    BY NamedFifoConstants
<1> DEFINE kept == IF b.reads - 1 = 0 THEN 0 ELSE b.len
<1>2. kept \in 0 .. Capacity /\ b.reads - 1 \in Nat
    BY <1>1 DEF Buffers
<1>3. CloseReadEnd(b) = [b EXCEPT !.reads = b.reads - 1, !.len = kept]
    BY DEF CloseReadEnd, Buffers
<1> HIDE DEF kept
<1> QED BY <1>2, <1>3 DEF Buffers, SameFlags, SameRest

LEMMA CloseWriteEndFields ==
    ASSUME NEW b \in Buffers, b.writes > 0
    PROVE  LET c == CloseWriteEnd(b) IN
           /\ c \in Buffers /\ SameRest(b, c)
           /\ c.reads = b.reads /\ c.writes = b.writes - 1 /\ c.readOnly = b.readOnly
           /\ c.waiters = b.waiters
           /\ c.writes > 0 => SameFlags(b, c)
           /\ c.writes = 0 /\ b.everOpened /\ b.readOnly > 0 => c.everOpened /\ c.hangup
           /\ c.writes = 0 /\ ~ (b.everOpened /\ b.readOnly > 0) =>
                 IF ReadyReader(b) THEN SameFlags(b, c)
                 ELSE ~ c.everOpened /\ ~ c.hangup
<1> DEFINE c == CloseWriteEnd(b)
<1>1. CASE b.writes - 1 > 0
    <2>1. c = [b EXCEPT !.writes = b.writes - 1]
        BY <1>1 DEF CloseWriteEnd
    <2> HIDE DEF c
    <2>2. /\ c \in Buffers /\ SameRest(b, c) /\ SameFlags(b, c)
          /\ c.reads = b.reads /\ c.writes = b.writes - 1 /\ c.readOnly = b.readOnly
          /\ c.waiters = b.waiters
        BY <1>1, <2>1 DEF Buffers, SameFlags, SameRest
    <2> QED BY <1>1, <2>2 DEF c
<1>2. CASE ~ (b.writes - 1 > 0)
    <2>1. b.writes - 1 = 0
        BY <1>2 DEF Buffers
    <2>2. CASE b.everOpened /\ b.readOnly > 0
        <3>1. c = [b EXCEPT !.writes = 0, !.hangup = TRUE]
            BY <1>2, <2>2 DEF CloseWriteEnd
        <3> HIDE DEF c
        <3>2. /\ c \in Buffers /\ SameRest(b, c) /\ c.everOpened /\ c.hangup
              /\ c.reads = b.reads /\ c.writes = 0 /\ c.readOnly = b.readOnly
              /\ c.waiters = b.waiters
            BY <2>2, <3>1 DEF Buffers, SameRest
        <3> QED BY <2>1, <2>2, <3>2 DEF c
    <2>3. CASE ~ (b.everOpened /\ b.readOnly > 0) /\ ~ ReadyReader(b)
        <3>1. c = [b EXCEPT !.writes = 0, !.everOpened = FALSE, !.hangup = FALSE]
            BY <1>2, <2>3 DEF CloseWriteEnd
        <3> HIDE DEF c
        <3>2. /\ c \in Buffers /\ SameRest(b, c) /\ ~ c.everOpened /\ ~ c.hangup
              /\ c.reads = b.reads /\ c.writes = 0 /\ c.readOnly = b.readOnly
              /\ c.waiters = b.waiters
            BY <3>1 DEF Buffers, SameRest
        <3> QED BY <2>1, <2>3, <3>2 DEF c
    <2>4. CASE ~ (b.everOpened /\ b.readOnly > 0) /\ ReadyReader(b)
        <3>1. c = [b EXCEPT !.writes = 0]
            BY <1>2, <2>4 DEF CloseWriteEnd
        <3> HIDE DEF c
        <3>2. /\ c \in Buffers /\ SameRest(b, c) /\ SameFlags(b, c)
              /\ c.reads = b.reads /\ c.writes = 0 /\ c.readOnly = b.readOnly
              /\ c.waiters = b.waiters
            BY <3>1 DEF Buffers, SameFlags, SameRest
        <3> QED BY <2>1, <2>4, <3>2 DEF c
    <2> QED BY <2>2, <2>3, <2>4
<1> QED BY <1>1, <1>2

LEMMA ResetCohortFields ==
    ASSUME NEW b \in Buffers
    PROVE  LET c == ResetCohort(b) IN
           /\ c \in Buffers /\ SameRest(b, c)
           /\ c.reads = b.reads /\ c.writes = b.writes /\ c.readOnly = b.readOnly
           /\ c.waiters = b.waiters
           /\ IF b.readOnly = 0 /\ ~ ReadyReader(b)
              THEN ~ c.hangup /\ (c.everOpened <=> b.everOpened /\ b.writes > 0)
              ELSE SameFlags(b, c)
BY DEF Buffers, ResetCohort, SameFlags, SameRest

LEMMA CloseReadOnlyFields ==
    ASSUME NEW b \in Buffers, b.reads > 0, b.readOnly > 0
    PROVE  LET c == CloseReadOnly(b) IN
           /\ c \in Buffers /\ SameRest(b, c)
           /\ c.reads = b.reads - 1 /\ c.writes = b.writes /\ c.readOnly = b.readOnly - 1
           /\ c.waiters = b.waiters
           /\ IF c.readOnly = 0 /\ ~ ReadyReader(b)
              THEN ~ c.hangup /\ (c.everOpened <=> b.everOpened /\ b.writes > 0)
              ELSE SameFlags(b, c)
<1> DEFINE a == [b EXCEPT !.readOnly = b.readOnly - 1]
           m == CloseReadEnd(a)
<1>1. /\ a \in Buffers /\ SameFlags(b, a) /\ SameRest(b, a) /\ a.reads = b.reads
      /\ a.writes = b.writes /\ a.readOnly = b.readOnly - 1 /\ a.waiters = b.waiters
    BY DEF Buffers, SameFlags, SameRest
<1>2. CloseReadOnly(b) = ResetCohort(m)
    BY DEF CloseReadOnly
<1> HIDE DEF a
<1>3. /\ m \in Buffers /\ SameFlags(a, m) /\ SameRest(a, m) /\ m.reads = a.reads - 1
      /\ m.writes = a.writes /\ m.readOnly = a.readOnly /\ m.waiters = a.waiters
    BY <1>1, CloseReadEndFields
<1> HIDE DEF m
<1> QED BY <1>1, <1>2, <1>3, ResetCohortFields, ReadyReaderSame DEF SameFlags, SameRest

LEMMA MakeReadyFields ==
    ASSUME NEW b \in Buffers, NEW sides \in SUBSET Sides
    PROVE  LET c == MakeReady(b, sides) IN
           /\ c \in Buffers /\ SameFlags(b, c) /\ SameRest(b, c)
           /\ c.reads = b.reads /\ c.writes = b.writes /\ c.readOnly = b.readOnly
           /\ c.waiters = Woken(b.waiters, sides) /\ c.len = b.len
<1>1. MakeReady(b, sides) = [b EXCEPT !.waiters = Woken(b.waiters, sides)]
    BY DEF MakeReady, Woken, Buffers
<1>2. Woken(b.waiters, sides) \in WaiterMaps
    BY WaitersWoken DEF Buffers
<1> QED BY <1>1, <1>2 DEF Buffers, SameFlags, SameRest

LEMMA FreeIfClosedFields ==
    ASSUME NEW b \in Buffers
    PROVE  LET c == FreeIfClosed(b) IN
           /\ c \in Buffers /\ SameFlags(b, c)
           /\ c.names = b.names /\ c.paths = b.paths
           /\ (c.freed <=> b.freed \/ FullyClosed(b))
           /\ c.reads = b.reads /\ c.writes = b.writes /\ c.readOnly = b.readOnly
           /\ c.waiters = b.waiters
<1>1. FullyClosed(b) \in BOOLEAN
    BY DEF FullyClosed
<1> QED BY <1>1 DEF Buffers, FreeIfClosed, SameFlags

-----------------------------------------------------------------------------
(* The readers that have met a writer, after a step to (c, e). *)
Seen(c, e, s) ==
    LET readers == {t \in Threads : e[t] = "Read"} \cup Waiting(c.waiters, "Reader")
    IN  IF c.writes > 0 THEN readers ELSE s \cap readers

(* When everOpened is left after the writers, it was there before them, or   *)
(* they met the cohort.                                                      *)
Grown(b, c) ==
    c.everOpened /\ c.writes = 0 =>
        IF b.writes = 0 THEN b.everOpened ELSE b.readOnly > 0 \/ ReadyReader(b)

GoodStep(b, c, e, s) == Good(c, e, Seen(c, e, s)) /\ Grown(b, c)

LEMMA SeenTold ==
    ASSUME NEW c \in Buffers, NEW e \in Descs, NEW s \in SUBSET Threads, Meets(c),
           c.writes = 0 => \A t \in s :
               /\ e[t] = "Read" => c.hangup
               /\ t \in Waiting(c.waiters, "Reader") => c.waiters[t].ready
    PROVE  Seen(c, e, s) \subseteq Threads /\ Told(c, e, Seen(c, e, s))
<1>1. DOMAIN c.waiters \subseteq Threads
    BY WaiterMapType DEF Buffers
<1>2. Seen(c, e, s) \subseteq Threads
    BY <1>1 DEF Seen, Waiting
<1>3. c.writes \in Nat
    BY DEF Buffers
<1>4. ASSUME NEW t \in Seen(c, e, s)
      PROVE  \/ e[t] = "Read" /\ (c.writes = 0 => c.hangup)
             \/ t \in Waiting(c.waiters, "Reader") /\ c.waiters[t].ready
    <2>1. CASE c.writes = 0
        <3>1. t \in s /\ (e[t] = "Read" \/ t \in Waiting(c.waiters, "Reader"))
            BY <2>1 DEF Seen
        <3> QED BY <2>1, <3>1
    <2>2. CASE c.writes > 0
        <3>1. e[t] = "Read" \/ t \in Waiting(c.waiters, "Reader")
            BY <2>2 DEF Seen
        <3>2. t \in Waiting(c.waiters, "Reader") => c.waiters[t].ready
            BY <2>2 DEF Meets, Waiting
        <3> QED BY <2>2, <3>1, <3>2
    <2> QED BY <1>3, <2>1, <2>2
<1> QED BY <1>2, <1>4 DEF Told

LEMMA FullyClosedSame ==
    ASSUME NEW b, NEW c, c.reads = b.reads, c.writes = b.writes,
           c.names = b.names, c.paths = b.paths
    PROVE  FullyClosed(c) <=> FullyClosed(b)
BY DEF FullyClosed

(* Counts in numbers. *)
LEMMA Numbers ==
    ASSUME NEW b, NEW d, NEW s, Good(b, d, s)
    PROVE  /\ b \in Buffers /\ d \in Descs /\ s \subseteq Threads
           /\ b.reads \in Nat /\ b.writes \in Nat /\ b.readOnly \in Nat /\ b.paths \in Nat
           /\ b.names \in Nat /\ b.waiters \in WaiterMaps
           /\ b.everOpened \in BOOLEAN /\ b.hangup \in BOOLEAN /\ b.freed \in BOOLEAN
           /\ b.readOnly <= b.reads
           /\ \A t \in Threads : /\ d[t] = "Read" => b.readOnly > 0
                                 /\ d[t] \in Readers => b.reads > 0
                                 /\ d[t] \in Writers => b.writes > 0
                                 /\ d[t] = "Path" => b.paths > 0
           /\ \A t \in DOMAIN b.waiters :
                 /\ t \in Threads /\ d[t] = "None"
                 /\ b.waiters[t].side \in Sides /\ b.waiters[t].ready \in BOOLEAN
                 /\ b.waiters[t].side = "Reader" => b.reads > 0
                 /\ b.waiters[t].side = "Writer" => b.writes > 0
<1>1. /\ b \in Buffers /\ d \in Descs /\ s \subseteq Threads
      /\ b.reads \in Nat /\ b.writes \in Nat /\ b.readOnly \in Nat /\ b.paths \in Nat
      /\ b.names \in Nat /\ b.waiters \in WaiterMaps
      /\ b.everOpened \in BOOLEAN /\ b.hangup \in BOOLEAN /\ b.freed \in BOOLEAN
    BY NamedFifoConstants DEF Good, Buffers
<1>2. b.readOnly <= b.reads
    <2>1. Held(d, {"Read"}) \subseteq Held(d, Readers)
        BY DEF Held, Readers
    <2>2. Cardinality(Held(d, {"Read"})) <= Cardinality(Held(d, Readers))
        BY <2>1, HeldFinite, FS_Subset
    <2> QED BY <1>1, <2>2, HeldFinite, WaitingFinite DEF Good, Counted
<1>3. ASSUME NEW t \in Threads
      PROVE  /\ d[t] = "Read" => b.readOnly > 0
             /\ d[t] \in Readers => b.reads > 0
             /\ d[t] \in Writers => b.writes > 0
             /\ d[t] = "Path" => b.paths > 0
    <2>1. \A K : d[t] \in K => Cardinality(Held(d, K)) \in Nat \ {0}
        BY HeldFinite DEF Held
    <2>2. \A x : Cardinality(Waiting(b.waiters, x)) \in Nat
        BY <1>1, WaitingFinite
    <2> QED BY <2>1, <2>2, HeldFinite DEF Good, Counted
<1>4. ASSUME NEW t \in DOMAIN b.waiters
      PROVE  /\ t \in Threads /\ d[t] = "None"
             /\ b.waiters[t].side \in Sides /\ b.waiters[t].ready \in BOOLEAN
             /\ b.waiters[t].side = "Reader" => b.reads > 0
             /\ b.waiters[t].side = "Writer" => b.writes > 0
    <2>1. /\ t \in Threads /\ d[t] = "None"
          /\ b.waiters[t].side \in Sides /\ b.waiters[t].ready \in BOOLEAN
        BY <1>1, WaiterMapType DEF Good, NotBoth, Waiter
    <2>2. \A x : b.waiters[t].side = x => Cardinality(Waiting(b.waiters, x)) \in Nat \ {0}
        BY <1>1, WaitingFinite DEF Waiting
    <2>3. \A K : Cardinality(Held(d, K)) \in Nat
        BY HeldFinite
    <2> QED BY <1>1, <2>1, <2>2, <2>3, WaitingFinite DEF Good, Counted
<1> QED BY <1>1, <1>2, <1>3, <1>4

LEMMA MetReader ==
    ASSUME NEW b, NEW d, NEW s, Good(b, d, s), NEW u \in s
    PROVE  /\ d[u] = "Read" \/ u \in Waiting(b.waiters, "Reader")
           /\ d[u] = "Read" /\ b.writes = 0 => b.hangup
           /\ u \in Waiting(b.waiters, "Reader") => b.waiters[u].ready
           /\ u \in DOMAIN b.waiters => u \in Waiting(b.waiters, "Reader")
           /\ u \in Threads
<1>1. \/ d[u] = "Read" /\ (b.writes = 0 => b.hangup)
      \/ u \in Waiting(b.waiters, "Reader") /\ b.waiters[u].ready
    BY DEF Good, Told
<1>2. u \in DOMAIN b.waiters => d[u] = "None"
    BY DEF Good, NotBoth
<1>3. u \in Threads
    BY DEF Good
<1> QED BY <1>1, <1>2, <1>3 DEF Waiting

(* Four counts follow a descriptor. *)
LEMMA CountedGain ==
    ASSUME NEW b, NEW d, NEW s, Good(b, d, s), NEW t \in Threads, d[t] = "None",
           NEW k \in Kinds, NEW c \in Buffers,
           \A x \in Sides : Waiting(c.waiters, x) = Waiting(b.waiters, x),
           c.reads = b.reads + (IF k \in Readers THEN 1 ELSE 0),
           c.writes = b.writes + (IF k \in Writers THEN 1 ELSE 0),
           c.readOnly = b.readOnly + (IF k = "Read" THEN 1 ELSE 0),
           c.paths = b.paths + (IF k = "Path" THEN 1 ELSE 0)
    PROVE  [d EXCEPT ![t] = k] \in Descs /\ Counted(c, [d EXCEPT ![t] = k])
<1> DEFINE e == [d EXCEPT ![t] = k]
<1>1. \A K \in SUBSET Kinds :
        /\ e \in Descs
        /\ Cardinality(Held(e, K)) = Cardinality(Held(d, K)) + (IF k \in K THEN 1 ELSE 0)
        /\ Cardinality(Held(d, K)) \in Nat
    BY Gains, HeldFinite DEF Good
<1>2. {Readers, Writers, {"Read"}, {"Path"}} \subseteq SUBSET Kinds
    BY DEF Readers, Writers, Kinds, Modes
<1>3. \A x \in Sides : Cardinality(Waiting(b.waiters, x)) \in Nat
    BY Numbers, WaitingFinite
<1> HIDE DEF e
<1>4. Counted(c, e)
    BY <1>1, <1>2, <1>3 DEF Good, Counted, Sides
<1> QED BY <1>1, <1>4 DEF e

LEMMA CountedLoss ==
    ASSUME NEW b, NEW d, NEW s, Good(b, d, s), NEW t \in Threads,
           NEW k, k = d[t], NEW c \in Buffers, c.waiters = b.waiters,
           c.reads = b.reads - (IF k \in Readers THEN 1 ELSE 0),
           c.writes = b.writes - (IF k \in Writers THEN 1 ELSE 0),
           c.readOnly = b.readOnly - (IF k = "Read" THEN 1 ELSE 0),
           c.paths = b.paths - (IF k = "Path" THEN 1 ELSE 0)
    PROVE  [d EXCEPT ![t] = "None"] \in Descs /\ Counted(c, [d EXCEPT ![t] = "None"])
<1> DEFINE e == [d EXCEPT ![t] = "None"]
<1>1. \A K \in SUBSET Kinds :
        /\ e \in Descs
        /\ Cardinality(Held(e, K)) = Cardinality(Held(d, K)) - (IF k \in K THEN 1 ELSE 0)
        /\ Cardinality(Held(d, K)) \in Nat
    BY Loses, HeldFinite DEF Good
<1>2. {Readers, Writers, {"Read"}, {"Path"}} \subseteq SUBSET Kinds
    BY DEF Readers, Writers, Kinds, Modes
<1>3. \A x \in Sides : Cardinality(Waiting(b.waiters, x)) \in Nat
    BY Numbers, WaitingFinite
<1> HIDE DEF e
<1>4. Counted(c, e)
    BY <1>1, <1>2, <1>3 DEF Good, Counted, Sides
<1> QED BY <1>1, <1>4 DEF e

-----------------------------------------------------------------------------
(* A close of each kind.  The common part: the counts, the waiters and the   *)
(* threads that lose nothing.                                                *)
LEMMA CloseParts ==
    ASSUME NEW b, NEW d, NEW s, Good(b, d, s), NEW t \in Threads, d[t] # "None",
           NEW c \in Buffers, c.waiters = b.waiters, c.names = b.names,
           c.freed <=> b.freed \/ FullyClosed(c),
           c.reads = b.reads - (IF d[t] \in Readers THEN 1 ELSE 0),
           c.writes = b.writes - (IF d[t] \in Writers THEN 1 ELSE 0),
           c.readOnly = b.readOnly - (IF d[t] = "Read" THEN 1 ELSE 0),
           c.paths = b.paths - (IF d[t] = "Path" THEN 1 ELSE 0),
           Cohort(c),
           c.writes = 0 /\ c.readOnly > 0 /\ (b.writes > 0 \/ b.hangup) => c.hangup
    PROVE  LET e == [d EXCEPT ![t] = "None"] IN Good(c, e, Seen(c, e, s))
<1> DEFINE e == [d EXCEPT ![t] = "None"]
<1>1. e \in Descs /\ Counted(c, e)
    BY CountedLoss
<1>2. \A u \in Threads : u # t => e[u] = d[u]
    BY Numbers DEF Descs
<1>3. e[t] = "None"
    BY Numbers DEF Descs
<1> HIDE DEF e
<1>4. NotBoth(c, e)
    BY <1>2, <1>3, Numbers DEF NotBoth
<1>5. Meets(c)
    BY Numbers DEF Good, Meets, Buffers
<1>6. c.freed = FullyClosed(c)
    <2>1. d[t] \in Kinds
        BY Numbers DEF Descs
    <2>2. ~ FullyClosed(b)
        BY <2>1, Numbers DEF FullyClosed, Kinds, Modes, Readers, Writers
    <2> QED BY <2>2 DEF Good, Buffers, FullyClosed
<1>7. ASSUME c.writes = 0, NEW u \in s, e[u] = "Read" PROVE c.hangup
    <2>1. u # t /\ d[u] = "Read"
        BY <1>2, <1>3, <1>7, MetReader
    <2>2. c.readOnly > 0
        <3>1. u \in Held(e, {"Read"})
            BY <1>7, MetReader DEF Held
        <3>2. Cardinality(Held(e, {"Read"})) \in Nat \ {0}
            BY <3>1, HeldFinite
        <3> QED BY <1>1, <3>2 DEF Counted
    <2>3. b.writes = 0 => b.hangup
        BY <2>1, MetReader
    <2>4. b.writes \in Nat
        BY Numbers
    <2> QED BY <1>7, <2>2, <2>3, <2>4
<1>8. ASSUME NEW u \in s, u \in Waiting(c.waiters, "Reader") PROVE c.waiters[u].ready
    BY <1>8, MetReader
<1>9. Seen(c, e, s) \subseteq Threads /\ Told(c, e, Seen(c, e, s))
    BY <1>1, <1>5, <1>7, <1>8, SeenTold, Numbers
<1>10. Good(c, e, Seen(c, e, s))
    BY <1>1, <1>4, <1>5, <1>6, <1>9 DEF Good
<1> QED BY <1>10 DEF e

LEMMA CloseGood ==
    ASSUME NEW b, NEW d, NEW s, Good(b, d, s), NEW t \in Threads, d[t] # "None"
    PROVE  LET c == FreeIfClosed(CloseReference(b, d[t]))
               e == [d EXCEPT ![t] = "None"]
           IN  GoodStep(b, c, e, s)
<1> DEFINE m == CloseReference(b, d[t])
           c == FreeIfClosed(m)
           e == [d EXCEPT ![t] = "None"]
<1> SUFFICES GoodStep(b, c, e, s)
    OBVIOUS
<1>1. d[t] \in {"Path", "Read", "Write", "ReadWrite"}
    BY Numbers DEF Descs, Kinds, Modes
<1>2. ASSUME m \in Buffers, m.names = b.names, m.freed <=> b.freed, m.waiters = b.waiters,
             m.reads = b.reads - (IF d[t] \in Readers THEN 1 ELSE 0),
             m.writes = b.writes - (IF d[t] \in Writers THEN 1 ELSE 0),
             m.readOnly = b.readOnly - (IF d[t] = "Read" THEN 1 ELSE 0),
             m.paths = b.paths - (IF d[t] = "Path" THEN 1 ELSE 0),
             Cohort(m), Grown(b, m),
             m.writes = 0 /\ m.readOnly > 0 /\ (b.writes > 0 \/ b.hangup) => m.hangup
      PROVE  GoodStep(b, c, e, s)
    <2> HIDE DEF m
    <2>1. /\ c \in Buffers /\ SameFlags(m, c)
          /\ c.names = m.names /\ c.paths = m.paths
          /\ (c.freed <=> m.freed \/ FullyClosed(m))
          /\ c.reads = m.reads /\ c.writes = m.writes /\ c.readOnly = m.readOnly
          /\ c.waiters = m.waiters
        BY <1>2, FreeIfClosedFields
    <2> HIDE DEF c
    <2>3. FullyClosed(c) <=> FullyClosed(m)
        BY <2>1, FullyClosedSame
    <2>4. Cohort(c)
        BY <1>2, <2>1, ReadyReaderSame DEF Cohort, SameFlags
    <2>5. c.writes = 0 /\ c.readOnly > 0 /\ (b.writes > 0 \/ b.hangup) => c.hangup
        BY <1>2, <2>1 DEF SameFlags
    <2>6. LET f == [d EXCEPT ![t] = "None"] IN Good(c, f, Seen(c, f, s))
        BY <1>2, <2>1, <2>3, <2>4, <2>5, CloseParts
    <2>7. Grown(b, c)
        BY <1>2, <2>1 DEF Grown, SameFlags
    <2> QED BY <2>6, <2>7 DEF GoodStep
<1>3. CASE d[t] = "Path"
    <2>1. m = [b EXCEPT !.paths = b.paths - 1] /\ b.paths > 0
        BY <1>3, Numbers DEF CloseReference
    <2>2. d[t] \notin Readers /\ d[t] \notin Writers
        BY <1>3 DEF Readers, Writers
    <2> HIDE DEF m, c, e
    <2>3. /\ m \in Buffers /\ SameFlags(b, m) /\ m.names = b.names /\ (m.freed <=> b.freed)
          /\ m.paths = b.paths - 1 /\ m.reads = b.reads /\ m.writes = b.writes
          /\ m.readOnly = b.readOnly /\ m.waiters = b.waiters
        BY <2>1, Numbers DEF Buffers, SameFlags
    <2>4. Cohort(m) /\ Grown(b, m) /\ (m.writes = 0 /\ (b.writes > 0 \/ b.hangup) => m.hangup)
        BY <2>3, ReadyReaderSame, Numbers DEF Good, Cohort, Grown, SameFlags
    <2> QED BY <1>2, <1>3, <2>2, <2>3, <2>4, Numbers
<1>4. CASE d[t] = "Read"
    <2>1. m = CloseReadOnly(b) /\ b.reads > 0 /\ b.readOnly > 0
        BY <1>4, Numbers DEF CloseReference, Readers
    <2>2. d[t] \in Readers /\ d[t] \notin Writers
        BY <1>4 DEF Readers, Writers
    <2> HIDE DEF m, c, e
    <2>3. /\ m \in Buffers /\ SameRest(b, m)
          /\ m.reads = b.reads - 1 /\ m.writes = b.writes /\ m.readOnly = b.readOnly - 1
          /\ m.waiters = b.waiters
          /\ IF m.readOnly = 0 /\ ~ ReadyReader(b)
             THEN ~ m.hangup /\ (m.everOpened <=> b.everOpened /\ b.writes > 0)
             ELSE SameFlags(b, m)
        BY <2>1, CloseReadOnlyFields, Numbers
    <2>4. /\ Cohort(m) /\ Grown(b, m)
          /\ m.writes = 0 /\ m.readOnly > 0 /\ (b.writes > 0 \/ b.hangup) => m.hangup
        BY <2>1, <2>3, ReadyReaderSame, Numbers DEF Good, Cohort, Grown, SameFlags
    <2> QED BY <1>2, <1>4, <2>2, <2>3, <2>4, Numbers DEF SameRest
<1>5. CASE d[t] = "Write"
    <2>1. m = CloseWriteEnd(b) /\ b.writes > 0
        BY <1>5, Numbers DEF CloseReference, Writers
    <2>2. d[t] \notin Readers /\ d[t] \in Writers
        BY <1>5 DEF Readers, Writers
    <2> HIDE DEF m, c, e
    <2>3. /\ m \in Buffers /\ SameRest(b, m)
          /\ m.reads = b.reads /\ m.writes = b.writes - 1 /\ m.readOnly = b.readOnly
          /\ m.waiters = b.waiters
          /\ m.writes > 0 => SameFlags(b, m)
          /\ m.writes = 0 /\ b.everOpened /\ b.readOnly > 0 => m.everOpened /\ m.hangup
          /\ m.writes = 0 /\ ~ (b.everOpened /\ b.readOnly > 0) =>
                IF ReadyReader(b) THEN SameFlags(b, m) ELSE ~ m.everOpened /\ ~ m.hangup
        BY <2>1, CloseWriteEndFields, Numbers
    <2>4. Cohort(m) /\ Grown(b, m) /\ (m.writes = 0 /\ m.readOnly > 0 => m.hangup)
        BY <2>1, <2>3, ReadyReaderSame, Numbers DEF Good, Cohort, Grown, SameFlags
    <2> QED BY <1>2, <1>5, <2>2, <2>3, <2>4, Numbers DEF SameRest
<1>6. CASE d[t] = "ReadWrite"
    <2> DEFINE a == CloseReadEnd(b)
    <2>1. m = CloseWriteEnd(a) /\ b.writes > 0 /\ b.reads > 0
        BY <1>6, Numbers DEF CloseReference, Writers, Readers
    <2>2. d[t] \in Readers /\ d[t] \in Writers
        BY <1>6 DEF Readers, Writers
    <2> HIDE DEF m, c, e
    <2>3. /\ a \in Buffers /\ SameFlags(b, a) /\ SameRest(b, a)
          /\ a.reads = b.reads - 1 /\ a.writes = b.writes /\ a.readOnly = b.readOnly
          /\ a.waiters = b.waiters
        BY <2>1, CloseReadEndFields, Numbers
    <2> HIDE DEF a
    <2>4. /\ m \in Buffers /\ SameRest(a, m)
          /\ m.reads = a.reads /\ m.writes = a.writes - 1 /\ m.readOnly = a.readOnly
          /\ m.waiters = a.waiters
          /\ m.writes > 0 => SameFlags(a, m)
          /\ m.writes = 0 /\ a.everOpened /\ a.readOnly > 0 => m.everOpened /\ m.hangup
          /\ m.writes = 0 /\ ~ (a.everOpened /\ a.readOnly > 0) =>
                IF ReadyReader(a) THEN SameFlags(a, m) ELSE ~ m.everOpened /\ ~ m.hangup
        BY <2>1, <2>3, CloseWriteEndFields
    <2>5. Cohort(m) /\ Grown(b, m) /\ (m.writes = 0 /\ m.readOnly > 0 => m.hangup)
        BY <2>1, <2>3, <2>4, ReadyReaderSame, Numbers DEF Good, Cohort, Grown, SameFlags
    <2> QED BY <1>2, <1>6, <2>2, <2>3, <2>4, <2>5, Numbers DEF SameRest
<1> QED BY <1>1, <1>3, <1>4, <1>5, <1>6

-----------------------------------------------------------------------------
(* A descriptor more: open() that need not wait, O_PATH, fork, SCM_RIGHTS.   *)
LEMMA GainParts ==
    ASSUME NEW b, NEW d, NEW s, Good(b, d, s), NEW t \in Threads, d[t] = "None",
           t \notin DOMAIN b.waiters, NEW k \in Kinds, NEW c \in Buffers,
           NEW sides \in SUBSET Sides, c.waiters = Woken(b.waiters, sides),
           c.names = b.names, c.freed <=> b.freed,
           b.names > 0 \/ \E u \in Threads : d[u] = k,
           c.reads = b.reads + (IF k \in Readers THEN 1 ELSE 0),
           c.writes = b.writes + (IF k \in Writers THEN 1 ELSE 0),
           c.readOnly = b.readOnly + (IF k = "Read" THEN 1 ELSE 0),
           c.paths = b.paths + (IF k = "Path" THEN 1 ELSE 0),
           Meets(c), Cohort(c), c.writes = 0 /\ b.hangup => c.hangup
    PROVE  LET e == [d EXCEPT ![t] = k] IN Good(c, e, Seen(c, e, s))
<1> DEFINE e == [d EXCEPT ![t] = k]
<1>1. /\ DOMAIN c.waiters = DOMAIN b.waiters
      /\ \A u \in DOMAIN b.waiters : /\ c.waiters[u].side = b.waiters[u].side
                                     /\ b.waiters[u].ready => c.waiters[u].ready
      /\ \A x \in Sides : Waiting(c.waiters, x) = Waiting(b.waiters, x)
    BY WaitersWoken, Numbers
<1>2. e \in Descs /\ Counted(c, e)
    BY <1>1, CountedGain
<1>3. \A u \in Threads : u # t => e[u] = d[u]
    BY Numbers DEF Descs
<1>4. e[t] = k
    BY Numbers DEF Descs
<1> HIDE DEF e
<1>5. NotBoth(c, e)
    BY <1>1, <1>3, Numbers DEF NotBoth
<1>6. c.freed = FullyClosed(c)
    <2>1. ~ FullyClosed(b) /\ ~ FullyClosed(c)
        BY Numbers DEF FullyClosed, Kinds, Modes, Readers, Writers
    <2>2. ~ b.freed
        BY <2>1 DEF Good
    <2>3. c.freed \in BOOLEAN /\ FullyClosed(c) \in BOOLEAN
        BY DEF Buffers, FullyClosed
    <2> QED BY <2>1, <2>2, <2>3
<1>7. ASSUME NEW u \in s PROVE u # t /\ d[u] = e[u]
    BY <1>3, MetReader DEF Waiting
<1>8. ASSUME c.writes = 0, NEW u \in s, e[u] = "Read" PROVE c.hangup
    <2>1. b.writes = 0
        BY <1>8, Numbers
    <2> QED BY <1>7, <1>8, <2>1, MetReader
<1>9. ASSUME NEW u \in s, u \in Waiting(c.waiters, "Reader") PROVE c.waiters[u].ready
    <2>1. u \in Waiting(b.waiters, "Reader")
        BY <1>1, <1>9 DEF Sides
    <2> QED BY <1>1, <2>1, MetReader DEF Waiting
<1>10. Seen(c, e, s) \subseteq Threads /\ Told(c, e, Seen(c, e, s))
    BY <1>2, <1>8, <1>9, SeenTold, Numbers
<1>11. Good(c, e, Seen(c, e, s))
    BY <1>2, <1>5, <1>6, <1>10 DEF Good
<1> QED BY <1>11 DEF e

LEMMA WakeNone ==
    ASSUME NEW w \in WaiterMaps
    PROVE  Woken(w, {}) = w
BY WaiterMapType DEF Woken

(* add_reference *)
LEMMA AddReferenceFields ==
    ASSUME NEW b \in Buffers, NEW k \in Kinds
    PROVE  LET c == AddReference(b, k) IN
           /\ c \in Buffers /\ SameFlags(b, c) /\ c.names = b.names /\ (c.freed <=> b.freed)
           /\ c.reads = b.reads + (IF k \in Readers THEN 1 ELSE 0)
           /\ c.writes = b.writes + (IF k \in Writers THEN 1 ELSE 0)
           /\ c.readOnly = b.readOnly + (IF k = "Read" THEN 1 ELSE 0)
           /\ c.paths = b.paths + (IF k = "Path" THEN 1 ELSE 0)
           /\ c.waiters = b.waiters
<1>1. CASE k = "Path"
    BY <1>1 DEF AddReference, Buffers, SameFlags, Readers, Writers
<1>2. CASE k = "Read"
    <2> DEFINE a == AddReader(b)
    <2>1. /\ a \in Buffers /\ SameFlags(b, a) /\ SameRest(b, a)
          /\ a.reads = b.reads + 1 /\ a.writes = b.writes /\ a.readOnly = b.readOnly
          /\ a.waiters = b.waiters
        BY AddReaderFields
    <2>2. AddReference(b, k) = [a EXCEPT !.readOnly = a.readOnly + 1]
        BY <1>2 DEF AddReference
    <2> HIDE DEF a
    <2>3. k \in Readers /\ k \notin Writers
        BY <1>2 DEF Readers, Writers
    <2> QED BY <1>2, <2>1, <2>2, <2>3 DEF Buffers, SameFlags, SameRest
<1>3. CASE k = "Write"
    BY <1>3 DEF AddReference, AddWriter, Buffers, SameFlags, Readers, Writers
<1>4. CASE k = "ReadWrite"
    <2> DEFINE a == AddReader(b)
    <2>1. /\ a \in Buffers /\ SameFlags(b, a) /\ SameRest(b, a)
          /\ a.reads = b.reads + 1 /\ a.writes = b.writes /\ a.readOnly = b.readOnly
          /\ a.waiters = b.waiters
        BY AddReaderFields
    <2>2. AddReference(b, k) = AddWriter(a)
        BY <1>4 DEF AddReference
    <2> HIDE DEF a
    <2>3. k \in Readers /\ k \in Writers
        BY <1>4 DEF Readers, Writers
    <2> DEFINE c == AddWriter(a)
    <2>4. /\ c \in Buffers /\ SameFlags(a, c) /\ SameRest(a, c)
          /\ c.reads = a.reads /\ c.writes = a.writes + 1 /\ c.readOnly = a.readOnly
          /\ c.waiters = a.waiters
        BY <2>1, AddWriterFields
    <2> HIDE DEF c
    <2>5. /\ c \in Buffers /\ SameFlags(b, c) /\ SameRest(b, c)
          /\ c.reads = b.reads + 1 /\ c.writes = b.writes + 1 /\ c.readOnly = b.readOnly
          /\ c.waiters = b.waiters
        BY <2>1, <2>4 DEF SameFlags, SameRest
    <2>6. /\ AddReference(b, k) = c
          /\ b.readOnly + 0 = b.readOnly /\ b.paths + 0 = b.paths
        BY <2>2 DEF c, Buffers
    <2> QED BY <1>4, <2>3, <2>5, <2>6 DEF SameRest
<1> QED BY <1>1, <1>2, <1>3, <1>4 DEF Kinds, Modes

LEMMA ReferenceGood ==
    ASSUME NEW b, NEW d, NEW s, Good(b, d, s), NEW t \in Threads, d[t] = "None",
           t \notin DOMAIN b.waiters, NEW k \in Kinds,
           (k = "Path" /\ b.names > 0) \/ \E u \in Threads : d[u] = k
    PROVE  LET c == AddReference(b, k)
               e == [d EXCEPT ![t] = k]
           IN  GoodStep(b, c, e, s)
<1> DEFINE c == AddReference(b, k)
           e == [d EXCEPT ![t] = k]
<1> SUFFICES GoodStep(b, c, e, s)
    OBVIOUS
<1>1. /\ c \in Buffers /\ SameFlags(b, c) /\ c.names = b.names /\ (c.freed <=> b.freed)
      /\ c.reads = b.reads + (IF k \in Readers THEN 1 ELSE 0)
      /\ c.writes = b.writes + (IF k \in Writers THEN 1 ELSE 0)
      /\ c.readOnly = b.readOnly + (IF k = "Read" THEN 1 ELSE 0)
      /\ c.paths = b.paths + (IF k = "Path" THEN 1 ELSE 0)
      /\ c.waiters = b.waiters
    BY AddReferenceFields, Numbers
<1> HIDE DEF c
<1>2. c.waiters = Woken(b.waiters, {})
    BY <1>1, WakeNone, Numbers
<1>3. /\ k \in Readers => b.reads > 0
      /\ k \in Writers => b.writes > 0
      /\ k = "Read" => b.readOnly > 0
    BY Numbers DEF Readers, Writers
<1>4. Meets(c)
    BY <1>1, <1>3, Numbers DEF Good, Meets
<1>5. Cohort(c) /\ Grown(b, c) /\ (c.writes = 0 /\ b.hangup => c.hangup)
    BY <1>1, <1>3, ReadyReaderSame, Numbers DEF Good, Cohort, Grown, SameFlags
<1>6. b.names > 0 \/ \E u \in Threads : d[u] = k
    OBVIOUS
<1>7. {} \in SUBSET Sides
    OBVIOUS
<1>8. LET f == [d EXCEPT ![t] = k] IN Good(c, f, Seen(c, f, s))
    BY <1>1, <1>2, <1>4, <1>5, <1>6, <1>7, GainParts
<1> QED BY <1>5, <1>8 DEF GoodStep

(* publish_fifo_open *)
LEMMA PublishFields ==
    ASSUME NEW b \in Buffers, NEW mode \in Modes
    PROVE  LET c == Publish(b, mode)
               sides == IF mode = "Read" THEN {"Writer"}
                        ELSE IF mode = "Write" THEN {"Reader"} ELSE Sides
           IN
           /\ c \in Buffers /\ SameRest(b, c)
           /\ c.reads = b.reads /\ c.writes = b.writes
           /\ c.readOnly = b.readOnly + (IF mode = "Read" THEN 1 ELSE 0)
           /\ c.waiters = Woken(b.waiters, sides)
           /\ IF mode = "Read"
              THEN /\ c.everOpened <=> b.everOpened \/ b.writes > 0
                   /\ c.hangup <=> b.writes = 0 /\ (b.hangup \/ b.everOpened)
              ELSE c.everOpened /\ ~ c.hangup
<1>1. CASE mode = "Read"
    <2> DEFINE ever == b.everOpened \/ b.writes > 0
               hup == IF b.writes > 0 THEN FALSE ELSE b.hangup \/ b.everOpened
               a == [b EXCEPT !.readOnly = b.readOnly + 1, !.everOpened = ever,
                              !.hangup = hup]
    <2>0. b.writes \in Nat /\ b.readOnly + 1 \in Nat
          /\ b.everOpened \in BOOLEAN /\ b.hangup \in BOOLEAN
        BY DEF Buffers
    <2>1. /\ a \in Buffers /\ SameRest(b, a)
          /\ a.reads = b.reads /\ a.writes = b.writes
          /\ a.readOnly = b.readOnly + 1 /\ a.waiters = b.waiters
          /\ a.everOpened <=> b.everOpened \/ b.writes > 0
          /\ a.hangup <=> b.writes = 0 /\ (b.hangup \/ b.everOpened)
        <3>1. ever \in BOOLEAN /\ hup \in BOOLEAN
            BY <2>0, Zenon
        <3>2. hup <=> b.writes = 0 /\ (b.hangup \/ b.everOpened)
            BY <2>0
        <3>3. ever <=> b.everOpened \/ b.writes > 0
            OBVIOUS
        <3> HIDE DEF ever, hup
        <3>4. /\ a \in Buffers /\ SameRest(b, a)
              /\ a.reads = b.reads /\ a.writes = b.writes
              /\ a.readOnly = b.readOnly + 1 /\ a.waiters = b.waiters
              /\ a.everOpened = ever /\ a.hangup = hup
            <4>1. PICK x \in BOOLEAN : x = ever
                BY <3>1, Zenon
            <4>2. PICK y \in BOOLEAN : y = hup
                BY <3>1, Zenon
            <4> DEFINE f == [b EXCEPT !.readOnly = b.readOnly + 1, !.everOpened = x, !.hangup = y]
            <4>3. /\ f \in Buffers /\ SameRest(b, f)
                  /\ f.reads = b.reads /\ f.writes = b.writes
                  /\ f.readOnly = b.readOnly + 1 /\ f.waiters = b.waiters
                  /\ f.everOpened = x /\ f.hangup = y
                BY <2>0 DEF Buffers, SameRest
            <4>4. f = a
                BY <4>1, <4>2, Zenon
            <4> HIDE DEF f, a
            <4> QED BY <4>1, <4>2, <4>3, <4>4, Zenon
        <3> HIDE DEF a
        <3> QED BY <3>1, <3>2, <3>3, <3>4
    <2>2. Publish(b, mode) = MakeReady(a, {"Writer"})
        BY <1>1 DEF Publish, Buffers
    <2> HIDE DEF a
    <2> QED BY <1>1, <2>1, <2>2, MakeReadyFields DEF Sides, SameFlags, SameRest
<1>2. CASE mode # "Read"
    <2> DEFINE a == [b EXCEPT !.everOpened = TRUE, !.hangup = FALSE]
               sides == IF mode = "Write" THEN {"Reader"} ELSE Sides
    <2>1. /\ a \in Buffers /\ SameRest(b, a)
          /\ a.reads = b.reads /\ a.writes = b.writes
          /\ a.readOnly = b.readOnly /\ a.waiters = b.waiters
          /\ a.everOpened /\ ~ a.hangup
        BY DEF Buffers, SameRest
    <2>2. Publish(b, mode) = MakeReady(a, sides) /\ sides \in SUBSET Sides
        BY <1>2 DEF Publish, Sides
    <2> HIDE DEF a, sides
    <2>3. /\ Publish(b, mode) \in Buffers /\ SameFlags(a, Publish(b, mode))
          /\ SameRest(a, Publish(b, mode))
          /\ Publish(b, mode).reads = a.reads /\ Publish(b, mode).writes = a.writes
          /\ Publish(b, mode).readOnly = a.readOnly
          /\ Publish(b, mode).waiters = Woken(a.waiters, sides)
        BY <2>1, <2>2, MakeReadyFields
    <2>4. /\ Publish(b, mode).everOpened /\ ~ Publish(b, mode).hangup
          /\ SameRest(b, Publish(b, mode))
        BY <2>1, <2>3 DEF SameFlags, SameRest
    <2>5. b.readOnly + 0 = b.readOnly
        BY DEF Buffers
    <2> QED BY <1>2, <2>1, <2>3, <2>4, <2>5 DEF sides
<1> QED BY <1>1, <1>2

LEMMA WokenReady ==
    ASSUME NEW b \in Buffers, NEW c \in Buffers, NEW sides \in SUBSET Sides,
           c.waiters = Woken(b.waiters, sides)
    PROVE  /\ "Reader" \notin sides => (ReadyReader(c) <=> ReadyReader(b))
           /\ \A u \in DOMAIN c.waiters :
                 /\ u \in DOMAIN b.waiters /\ c.waiters[u].side = b.waiters[u].side
                 /\ c.waiters[u].side \in Sides
                 /\ c.waiters[u].ready <=> b.waiters[u].ready \/ b.waiters[u].side \in sides
<1>1. b.waiters \in WaiterMaps
    BY DEF Buffers
<1>2. /\ DOMAIN c.waiters = DOMAIN b.waiters
      /\ \A u \in DOMAIN b.waiters :
           /\ c.waiters[u].side = b.waiters[u].side
           /\ b.waiters[u].side \in Sides
           /\ c.waiters[u].ready <=> b.waiters[u].ready \/ b.waiters[u].side \in sides
    BY <1>1, WaitersWoken, WaiterMapType DEF Waiter
<1> QED BY <1>2 DEF ReadyReader

LEMMA OpenGood ==
    ASSUME NEW b, NEW d, NEW s, Good(b, d, s), NEW t \in Threads, d[t] = "None",
           t \notin DOMAIN b.waiters, NEW mode \in Modes, b.names > 0,
           mode = "Write" => b.reads > 0
    PROVE  LET a == IF mode = "ReadWrite" THEN AddWriter(AddReader(b))
                    ELSE AddEndpoint(b, SideOf(mode))
               c == Publish(a, mode)
               e == [d EXCEPT ![t] = mode]
           IN  GoodStep(b, c, e, s)
<1> DEFINE a == IF mode = "ReadWrite" THEN AddWriter(AddReader(b))
                ELSE AddEndpoint(b, SideOf(mode))
           c == Publish(a, mode)
           e == [d EXCEPT ![t] = mode]
           sides == IF mode = "Read" THEN {"Writer"}
                    ELSE IF mode = "Write" THEN {"Reader"} ELSE Sides
<1> SUFFICES GoodStep(b, c, e, s)
    OBVIOUS
<1>1. /\ a \in Buffers /\ SameFlags(b, a) /\ SameRest(b, a)
      /\ a.reads = b.reads + (IF mode \in Readers THEN 1 ELSE 0)
      /\ a.writes = b.writes + (IF mode \in Writers THEN 1 ELSE 0)
      /\ a.readOnly = b.readOnly /\ a.waiters = b.waiters
    <2>1. CASE mode = "Read"
        <3>1. a = AddReader(b) /\ mode \in Readers /\ mode \notin Writers
            BY <2>1 DEF AddEndpoint, SideOf, Readers, Writers
        <3> HIDE DEF a
        <3> QED BY <3>1, AddReaderFields, Numbers
    <2>2. CASE mode = "Write"
        <3>1. a = AddWriter(b) /\ mode \notin Readers /\ mode \in Writers
            BY <2>2 DEF AddEndpoint, SideOf, Readers, Writers
        <3> HIDE DEF a
        <3> QED BY <3>1, AddWriterFields, Numbers
    <2>3. CASE mode = "ReadWrite"
        <3>1. a = AddReference(b, mode) /\ mode \in Kinds
            BY <2>3 DEF AddReference, Kinds, Modes
        <3>2. a.paths = b.paths /\ a.readOnly = b.readOnly
            <4> HIDE DEF a
            <4> QED BY <2>3, <3>1, AddReferenceFields, Numbers
        <3> HIDE DEF a
        <3> QED BY <3>1, <3>2, AddReferenceFields, Numbers DEF SameRest
    <2> QED BY <2>1, <2>2, <2>3 DEF Modes
<1> HIDE DEF a
<1>2. /\ c \in Buffers /\ SameRest(a, c)
      /\ c.reads = a.reads /\ c.writes = a.writes
      /\ c.readOnly = a.readOnly + (IF mode = "Read" THEN 1 ELSE 0)
      /\ c.waiters = Woken(a.waiters, sides)
      /\ IF mode = "Read"
         THEN /\ c.everOpened <=> a.everOpened \/ a.writes > 0
              /\ c.hangup <=> a.writes = 0 /\ (a.hangup \/ a.everOpened)
         ELSE c.everOpened /\ ~ c.hangup
    BY <1>1, PublishFields
<1>3. sides \in SUBSET Sides
    BY DEF Sides
<1>4. mode = "Read" => sides = {"Writer"} /\ mode \notin Writers
    BY DEF Writers
<1>5. mode = "Write" => sides = {"Reader"} /\ mode \notin Readers
    BY DEF Readers
<1>6. mode = "ReadWrite" => sides = Sides
    OBVIOUS
<1> HIDE DEF c, sides
<1>7. /\ c.names = b.names /\ c.paths = b.paths /\ (c.freed <=> b.freed)
      /\ c.waiters = Woken(b.waiters, sides)
    BY <1>1, <1>2 DEF SameRest
<1>8. /\ "Reader" \notin sides => (ReadyReader(c) <=> ReadyReader(b))
      /\ \A u \in DOMAIN c.waiters :
            /\ u \in DOMAIN b.waiters /\ c.waiters[u].side = b.waiters[u].side
            /\ c.waiters[u].side \in Sides
            /\ c.waiters[u].ready <=> b.waiters[u].ready \/ b.waiters[u].side \in sides
    BY <1>2, <1>3, <1>7, WokenReady, Numbers
<1>9. Meets(c)
    <2> SUFFICES ASSUME NEW u \in DOMAIN c.waiters, ~ c.waiters[u].ready
                 PROVE  IF c.waiters[u].side = "Reader" THEN c.writes = 0 ELSE c.reads = 0
        BY DEF Meets
    <2>1. /\ u \in DOMAIN b.waiters /\ c.waiters[u].side = b.waiters[u].side
          /\ b.waiters[u].side \in Sides \ sides /\ ~ b.waiters[u].ready
        BY <1>8
    <2>2. IF b.waiters[u].side = "Reader" THEN b.writes = 0 ELSE b.reads = 0
        BY <2>1 DEF Good, Meets
    <2>3. CASE mode = "Read"
        BY <1>1, <1>2, <1>4, <2>1, <2>2, <2>3, Numbers DEF Sides
    <2>4. CASE mode = "Write"
        BY <1>1, <1>2, <1>5, <2>1, <2>2, <2>4, Numbers DEF Sides
    <2> QED BY <1>6, <2>1, <2>3, <2>4 DEF Modes
<1>10. Cohort(c) /\ Grown(b, c) /\ (c.writes = 0 /\ b.hangup => c.hangup)
    <2>1. CASE mode = "Read"
        <3>1. ReadyReader(c) <=> ReadyReader(b)
            BY <1>4, <1>8, <2>1
        <3> QED BY <1>1, <1>2, <1>4, <2>1, <3>1, Numbers DEF Good, Cohort, Grown, SameFlags
    <2>2. CASE mode # "Read"
        <3>1. mode \in Writers
            BY <2>2 DEF Writers, Modes
        <3> QED BY <1>1, <1>2, <2>2, <3>1, Numbers DEF Cohort, Grown
    <2> QED BY <2>1, <2>2
<1>11. mode \in Kinds /\ mode # "Path"
    BY DEF Kinds, Modes
<1>12. /\ c.reads = b.reads + (IF mode \in Readers THEN 1 ELSE 0)
       /\ c.writes = b.writes + (IF mode \in Writers THEN 1 ELSE 0)
       /\ c.readOnly = b.readOnly + (IF mode = "Read" THEN 1 ELSE 0)
       /\ c.paths = b.paths + (IF mode = "Path" THEN 1 ELSE 0)
    BY <1>1, <1>2, <1>7, <1>11, Numbers
<1>13. LET f == [d EXCEPT ![t] = mode] IN Good(c, f, Seen(c, f, s))
    BY <1>2, <1>3, <1>7, <1>9, <1>10, <1>11, <1>12, GainParts
<1> QED BY <1>10, <1>13 DEF GoodStep

-----------------------------------------------------------------------------
(* Steps that move no descriptor and no waiter. *)
LEMMA IdleParts ==
    ASSUME NEW b, NEW d, NEW s, Good(b, d, s), NEW c \in Buffers,
           c.waiters = b.waiters, c.reads = b.reads, c.writes = b.writes,
           c.readOnly = b.readOnly, c.paths = b.paths, c.freed <=> FullyClosed(c),
           Cohort(c), c.writes = 0 /\ c.readOnly > 0 /\ b.hangup => c.hangup
    PROVE  Good(c, d, Seen(c, d, s))
<1>1. Counted(c, d) /\ NotBoth(c, d) /\ Meets(c)
    BY DEF Good, Counted, NotBoth, Meets
<1>2. c.freed = FullyClosed(c)
    BY DEF Buffers, FullyClosed
<1>3. ASSUME c.writes = 0, NEW u \in s, d[u] = "Read" PROVE c.hangup
    <2>1. u \in Threads /\ b.hangup
        BY <1>3, MetReader
    <2>2. b.readOnly > 0
        BY <1>3, <2>1, Numbers
    <2> QED BY <1>3, <2>1, <2>2
<1>4. ASSUME NEW u \in s, u \in Waiting(c.waiters, "Reader") PROVE c.waiters[u].ready
    BY <1>4, MetReader
<1>5. Seen(c, d, s) \subseteq Threads /\ Told(c, d, Seen(c, d, s))
    BY <1>1, <1>3, <1>4, SeenTold, Numbers
<1> QED BY <1>1, <1>2, <1>5, Numbers DEF Good

LEMMA EmfileGood ==
    ASSUME NEW b, NEW d, NEW s, Good(b, d, s), NEW mode \in Modes, b.names > 0
    PROVE  LET m == IF mode = "ReadWrite" THEN CloseReference(AddReference(b, mode), mode)
                    ELSE IF mode = "Read" THEN CloseReadEnd(AddReader(b))
                    ELSE CloseWriteEnd(AddWriter(b))
               c == FreeIfClosed(m)
           IN  GoodStep(b, c, d, s)
<1> DEFINE m == IF mode = "ReadWrite" THEN CloseReference(AddReference(b, mode), mode)
                ELSE IF mode = "Read" THEN CloseReadEnd(AddReader(b))
                ELSE CloseWriteEnd(AddWriter(b))
           c == FreeIfClosed(m)
           Back == /\ m \in Buffers /\ SameRest(b, m) /\ m.waiters = b.waiters
                   /\ m.reads = b.reads /\ m.writes = b.writes /\ m.readOnly = b.readOnly
                   /\ Cohort(m) /\ Grown(b, m)
                   /\ m.writes = 0 /\ m.readOnly > 0 /\ b.hangup => m.hangup
<1> SUFFICES GoodStep(b, c, d, s)
    OBVIOUS
<1>1. ASSUME NEW a \in Buffers, SameFlags(b, a), SameRest(b, a), a.waiters = b.waiters,
             a.reads = b.reads, a.writes = b.writes + 1, a.readOnly = b.readOnly,
             m = CloseWriteEnd(a)
      PROVE  Back
    <2> HIDE DEF m
    <2>1. a.writes > 0 /\ b.writes \in Nat
        BY <1>1, Numbers
    <2>2. /\ m \in Buffers /\ SameRest(a, m)
          /\ m.reads = a.reads /\ m.writes = a.writes - 1 /\ m.readOnly = a.readOnly
          /\ m.waiters = a.waiters
          /\ m.writes > 0 => SameFlags(a, m)
          /\ m.writes = 0 /\ a.everOpened /\ a.readOnly > 0 => m.everOpened /\ m.hangup
          /\ m.writes = 0 /\ ~ (a.everOpened /\ a.readOnly > 0) =>
                IF ReadyReader(a) THEN SameFlags(a, m) ELSE ~ m.everOpened /\ ~ m.hangup
        BY <1>1, <2>1, CloseWriteEndFields
    <2>3. m.writes = b.writes /\ SameRest(b, m)
        BY <1>1, <2>1, <2>2 DEF SameRest
    <2>4. (ReadyReader(a) <=> ReadyReader(b)) /\ (ReadyReader(m) <=> ReadyReader(b))
        BY <1>1, <2>2, ReadyReaderSame
    <2>5. /\ Cohort(m) /\ Grown(b, m)
          /\ m.writes = 0 /\ m.readOnly > 0 /\ b.hangup => m.hangup
        BY <1>1, <2>2, <2>3, <2>4, Numbers DEF Good, Cohort, Grown, SameFlags
    <2> QED BY <1>1, <2>2, <2>3, <2>5
<1>2. ASSUME mode = "Write" PROVE Back
    <2>1. m = CloseWriteEnd(AddWriter(b))
        BY <1>2
    <2> HIDE DEF m, Back
    <2> QED BY <1>1, <2>1, AddWriterFields, Numbers
<1>3. ASSUME mode = "Read" PROVE Back
    <2> DEFINE a == AddReader(b)
    <2>1. /\ a \in Buffers /\ SameFlags(b, a) /\ SameRest(b, a)
          /\ a.reads = b.reads + 1 /\ a.writes = b.writes /\ a.readOnly = b.readOnly
          /\ a.waiters = b.waiters
        BY AddReaderFields, Numbers
    <2>2. m = CloseReadEnd(a)
        BY <1>3
    <2> HIDE DEF m, a
    <2>3. a.reads > 0 /\ b.reads \in Nat
        BY <2>1, Numbers
    <2>4. /\ m \in Buffers /\ SameFlags(a, m) /\ SameRest(a, m)
          /\ m.reads = a.reads - 1 /\ m.writes = a.writes /\ m.readOnly = a.readOnly
          /\ m.waiters = a.waiters
        BY <2>1, <2>2, <2>3, CloseReadEndFields
    <2>5. SameFlags(b, m) /\ SameRest(b, m) /\ m.reads = b.reads /\ m.waiters = b.waiters
        BY <2>1, <2>3, <2>4 DEF SameFlags, SameRest
    <2>6. ReadyReader(m) <=> ReadyReader(b)
        BY <2>5, ReadyReaderSame
    <2> QED BY <2>1, <2>4, <2>5, <2>6, Numbers DEF Good, Cohort, Grown, SameFlags
<1>4. ASSUME mode = "ReadWrite" PROVE Back
    <2> DEFINE f == AddReference(b, mode)
               a == CloseReadEnd(f)
    <2>1. mode \in Kinds /\ mode \in Readers /\ mode \in Writers /\ mode \notin {"Read", "Path"}
        BY <1>4 DEF Kinds, Modes, Readers, Writers
    <2>2. /\ f \in Buffers /\ SameFlags(b, f) /\ SameRest(b, f)
          /\ f.reads = b.reads + 1 /\ f.writes = b.writes + 1 /\ f.readOnly = b.readOnly
          /\ f.waiters = b.waiters
        <3> HIDE DEF f
        <3> QED BY <2>1, AddReferenceFields, Numbers DEF f, SameRest
    <2>3. m = CloseWriteEnd(a)
        BY <1>4 DEF CloseReference
    <2> HIDE DEF m, f
    <2>4. f.reads > 0 /\ b.reads \in Nat
        BY <2>2, Numbers
    <2>5. /\ a \in Buffers /\ SameFlags(f, a) /\ SameRest(f, a)
          /\ a.reads = f.reads - 1 /\ a.writes = f.writes /\ a.readOnly = f.readOnly
          /\ a.waiters = f.waiters
        BY <2>2, <2>4, CloseReadEndFields
    <2> HIDE DEF a
    <2>6. /\ SameFlags(b, a) /\ SameRest(b, a) /\ a.waiters = b.waiters
          /\ a.reads = b.reads /\ a.writes = b.writes + 1 /\ a.readOnly = b.readOnly
        BY <2>2, <2>4, <2>5 DEF SameFlags, SameRest
    <2> HIDE DEF Back
    <2> QED BY <1>1, <2>3, <2>5, <2>6
<1>5. Back
    BY <1>2, <1>3, <1>4 DEF Modes
<1> HIDE DEF m
<1>6. /\ c \in Buffers /\ SameFlags(m, c)
      /\ c.names = m.names /\ c.paths = m.paths
      /\ (c.freed <=> m.freed \/ FullyClosed(m))
      /\ c.reads = m.reads /\ c.writes = m.writes /\ c.readOnly = m.readOnly
      /\ c.waiters = m.waiters
    BY <1>5, FreeIfClosedFields
<1> HIDE DEF c
<1>7. c.freed <=> FullyClosed(c)
    <2>1. ~ FullyClosed(b) /\ ~ FullyClosed(m) /\ ~ FullyClosed(c)
        BY <1>5, <1>6, Numbers DEF FullyClosed, SameRest
    <2> QED BY <1>5, <1>6, <2>1 DEF SameRest, Good
<1>8. /\ Cohort(c) /\ Grown(b, c)
      /\ c.writes = 0 /\ c.readOnly > 0 /\ b.hangup => c.hangup
    BY <1>5, <1>6, ReadyReaderSame DEF Cohort, Grown, SameFlags
<1>9. Good(c, d, Seen(c, d, s))
    BY <1>5, <1>6, <1>7, <1>8, IdleParts DEF SameRest
<1> QED BY <1>8, <1>9 DEF GoodStep

-----------------------------------------------------------------------------
(* reserve_fifo_open: the other side is absent, so nothing it says can       *)
(* matter to anybody who waits.                                              *)
LEMMA ReserveFields ==
    ASSUME NEW b \in Buffers, NEW t \in Threads \ DOMAIN b.waiters, NEW side \in Sides
    PROVE  LET c == Reserve(b, t, side) IN
           /\ c \in Buffers /\ SameFlags(b, c) /\ SameRest(b, c)
           /\ c.reads = b.reads + (IF side = "Reader" THEN 1 ELSE 0)
           /\ c.writes = b.writes + (IF side = "Writer" THEN 1 ELSE 0)
           /\ c.readOnly = b.readOnly /\ c.waiters = With(b.waiters, t, side)
<1> DEFINE a == [b EXCEPT !.waiters = With(b.waiters, t, side)]
<1>1. With(b.waiters, t, side) \in WaiterMaps
    BY WaiterComes DEF Buffers, Came
<1>2. /\ a \in Buffers /\ SameFlags(b, a) /\ SameRest(b, a)
      /\ a.reads = b.reads /\ a.writes = b.writes /\ a.readOnly = b.readOnly
      /\ a.waiters = With(b.waiters, t, side)
    BY <1>1 DEF Buffers, SameFlags, SameRest
<1>3. Reserve(b, t, side) = AddEndpoint(a, side)
    BY DEF Reserve, With, Buffers
<1> HIDE DEF a
<1>4. CASE side = "Reader"
    <2>1. Reserve(b, t, side) = AddReader(a)
        BY <1>3, <1>4 DEF AddEndpoint
    <2> QED BY <1>2, <1>4, <2>1, AddReaderFields DEF SameFlags, SameRest, Buffers
<1>5. CASE side = "Writer"
    <2>1. Reserve(b, t, side) = AddWriter(a)
        BY <1>3, <1>5 DEF AddEndpoint
    <2> QED BY <1>2, <1>5, <2>1, AddWriterFields DEF SameFlags, SameRest, Buffers
<1> QED BY <1>4, <1>5 DEF Sides

LEMMA ReserveGood ==
    ASSUME NEW b, NEW d, NEW s, Good(b, d, s), NEW t \in Threads, d[t] = "None",
           t \notin DOMAIN b.waiters, NEW side \in Sides, b.names > 0,
           IF side = "Reader" THEN b.writes = 0 ELSE b.reads = 0
    PROVE  LET c == Reserve(b, t, side) IN GoodStep(b, c, d, s)
<1> DEFINE c == Reserve(b, t, side)
<1> SUFFICES GoodStep(b, c, d, s)
    OBVIOUS
<1>1. /\ c \in Buffers /\ SameFlags(b, c) /\ SameRest(b, c)
      /\ c.reads = b.reads + (IF side = "Reader" THEN 1 ELSE 0)
      /\ c.writes = b.writes + (IF side = "Writer" THEN 1 ELSE 0)
      /\ c.readOnly = b.readOnly /\ c.waiters = With(b.waiters, t, side)
    BY ReserveFields, Numbers
<1> HIDE DEF c
<1>2. /\ DOMAIN c.waiters = DOMAIN b.waiters \cup {t}
      /\ c.waiters[t] = [side |-> side, ready |-> FALSE]
      /\ \A u \in DOMAIN b.waiters : c.waiters[u] = b.waiters[u]
      /\ \A x \in Sides : Cardinality(Waiting(c.waiters, x))
            = Cardinality(Waiting(b.waiters, x)) + (IF x = side THEN 1 ELSE 0)
    <2>1. b.waiters \in WaiterMaps /\ t \in Threads \ DOMAIN b.waiters
        BY Numbers
    <2>2. Came(b.waiters, t, side, c.waiters)
        BY <1>1, <2>1, WaiterComes
    <2> QED BY <2>2 DEF Came
<1>3. Counted(c, d)
    <2>1. \A x \in Sides : Cardinality(Waiting(b.waiters, x)) \in Nat
        BY WaitingFinite, Numbers
    <2>2. \A K : Cardinality(Held(d, K)) \in Nat
        BY HeldFinite
    <2> QED BY <1>1, <1>2, <2>1, <2>2, Numbers DEF Good, Counted, Sides, SameRest
<1>4. NotBoth(c, d)
    BY <1>2, Numbers DEF NotBoth
<1>5. ReadyReader(c) <=> ReadyReader(b)
    BY <1>2 DEF ReadyReader
<1>6. ASSUME NEW u \in DOMAIN b.waiters, ~ b.waiters[u].ready
      PROVE  IF b.waiters[u].side = "Reader" THEN c.writes = 0 ELSE c.reads = 0
    <2>1. IF b.waiters[u].side = "Reader" THEN b.writes = 0 ELSE b.reads = 0
        BY <1>6 DEF Good, Meets
    <2> QED BY <1>1, <2>1, Numbers DEF Sides
<1>7. Meets(c)
    <2>1. IF side = "Reader" THEN c.writes = 0 ELSE c.reads = 0
        BY <1>1, Numbers DEF Sides
    <2> QED BY <1>2, <1>6, <2>1 DEF Meets
<1>8. c.freed = FullyClosed(c)
    <2>1. ~ FullyClosed(b) /\ ~ FullyClosed(c)
        BY <1>1, Numbers DEF FullyClosed, SameRest
    <2>2. ~ b.freed
        BY <2>1 DEF Good
    <2>3. ~ c.freed /\ c.freed \in BOOLEAN /\ FullyClosed(c) \in BOOLEAN
        BY <1>1, <2>2 DEF SameRest, Buffers, FullyClosed
    <2> QED BY <2>1, <2>3
<1>9. Cohort(c) /\ Grown(b, c)
    <2>1. side = "Writer" => b.readOnly = 0 /\ ~ ReadyReader(b)
        BY Numbers DEF ReadyReader
    <2> QED BY <1>1, <1>5, <2>1, Numbers DEF Good, Cohort, Grown, SameFlags, Sides
<1>10. ASSUME c.writes = 0, NEW u \in s, d[u] = "Read" PROVE c.hangup
    <2>1. b.writes = 0
        BY <1>1, <1>10, Numbers
    <2> QED BY <1>1, <1>10, <2>1, MetReader DEF SameFlags
<1>11. ASSUME NEW u \in s, u \in Waiting(c.waiters, "Reader") PROVE c.waiters[u].ready
    <2>1. u # t
        BY MetReader DEF Waiting
    <2>2. u \in DOMAIN b.waiters
        BY <1>2, <1>11, <2>1 DEF Waiting
    <2> QED BY <1>2, <2>2, MetReader
<1>12. Seen(c, d, s) \subseteq Threads /\ Told(c, d, Seen(c, d, s))
    BY <1>1, <1>7, <1>10, <1>11, SeenTold, Numbers
<1> QED BY <1>1, <1>3, <1>4, <1>7, <1>8, <1>9, <1>12, Numbers DEF Good, GoodStep

-----------------------------------------------------------------------------
(* A waiter goes: with a descriptor, or without. *)
Gone(b, d, t, a) ==
    /\ a \in Buffers /\ SameFlags(b, a) /\ SameRest(b, a)
    /\ a.reads = b.reads /\ a.writes = b.writes /\ a.readOnly = b.readOnly
    /\ a.waiters = Less(b.waiters, t)
    /\ DOMAIN a.waiters = DOMAIN b.waiters \ {t}
    /\ \A u \in DOMAIN a.waiters : a.waiters[u] = b.waiters[u]
    /\ ReadyReader(a) => ReadyReader(b)
    /\ b.waiters[t].side = "Writer" => (ReadyReader(a) <=> ReadyReader(b))
    /\ t \in Threads /\ d[t] = "None" /\ ~ FullyClosed(b) /\ ~ b.freed
    /\ \A x \in Sides :
          /\ Cardinality(Waiting(b.waiters, x)) \in Nat
          /\ Cardinality(Waiting(a.waiters, x)) = Cardinality(Waiting(b.waiters, x))
                                 - (IF x = b.waiters[t].side THEN 1 ELSE 0)

LEMMA GoneFields ==
    ASSUME NEW b, NEW d, NEW s, Good(b, d, s), NEW t \in DOMAIN b.waiters,
           NEW a, a = [b EXCEPT !.waiters = Less(b.waiters, t)]
    PROVE  Gone(b, d, t, a)
<1> DEFINE v == Less(b.waiters, t)
<1>1. /\ v \in WaiterMaps /\ DOMAIN v = DOMAIN b.waiters \ {t}
      /\ \A u \in DOMAIN v : v[u] = b.waiters[u]
      /\ \A x \in Sides :
            Cardinality(Waiting(v, x)) = Cardinality(Waiting(b.waiters, x))
                                         - (IF x = b.waiters[t].side THEN 1 ELSE 0)
    BY WaiterGoes, Numbers
<1>0. a = [b EXCEPT !.waiters = v]
    OBVIOUS
<1> HIDE DEF v
<1>2. /\ a \in Buffers /\ SameFlags(b, a) /\ SameRest(b, a)
      /\ a.reads = b.reads /\ a.writes = b.writes /\ a.readOnly = b.readOnly
      /\ a.waiters = v
    BY <1>0, <1>1, Numbers DEF Buffers, SameFlags, SameRest
<1>3. /\ ReadyReader(a) => ReadyReader(b)
      /\ b.waiters[t].side = "Writer" => (ReadyReader(a) <=> ReadyReader(b))
    BY <1>1, <1>2 DEF ReadyReader
<1>4. t \in Threads /\ d[t] = "None" /\ ~ FullyClosed(b)
    BY Numbers DEF FullyClosed, Sides
<1>5. ~ b.freed
    BY <1>4 DEF Good
<1>6. \A x \in Sides : Cardinality(Waiting(b.waiters, x)) \in Nat
    BY WaitingFinite, Numbers
<1> QED BY <1>1, <1>2, <1>3, <1>4, <1>5, <1>6 DEF v, Gone

(* cancel_fifo_open *)
LEMMA CancelGood ==
    ASSUME NEW b, NEW d, NEW s, Good(b, d, s), NEW t \in DOMAIN b.waiters
    PROVE  LET c == FreeIfClosed(CancelWaiter(b, t)) IN GoodStep(b, c, d, s)
<1> DEFINE a == [b EXCEPT !.waiters = Less(b.waiters, t)]
           m == CancelWaiter(b, t)
           c == FreeIfClosed(m)
           Rest == /\ m \in Buffers /\ SameRest(b, m) /\ m.waiters = a.waiters
                   /\ m.reads = b.reads - (IF b.waiters[t].side = "Reader" THEN 1 ELSE 0)
                   /\ m.writes = b.writes - (IF b.waiters[t].side = "Writer" THEN 1 ELSE 0)
                   /\ m.readOnly = b.readOnly /\ Cohort(m) /\ Grown(b, m)
                   /\ m.writes = 0 /\ m.readOnly > 0 /\ (b.writes > 0 \/ b.hangup) => m.hangup
<1> SUFFICES GoodStep(b, c, d, s)
    OBVIOUS
<1>1. /\ a \in Buffers /\ SameFlags(b, a) /\ SameRest(b, a)
      /\ a.reads = b.reads /\ a.writes = b.writes /\ a.readOnly = b.readOnly
      /\ DOMAIN a.waiters = DOMAIN b.waiters \ {t}
      /\ \A u \in DOMAIN a.waiters : a.waiters[u] = b.waiters[u]
      /\ ReadyReader(a) => ReadyReader(b)
      /\ b.waiters[t].side = "Writer" => (ReadyReader(a) <=> ReadyReader(b))
      /\ t \in Threads /\ d[t] = "None" /\ ~ FullyClosed(b) /\ ~ b.freed
      /\ \A x \in Sides :
            /\ Cardinality(Waiting(b.waiters, x)) \in Nat
            /\ Cardinality(Waiting(a.waiters, x)) = Cardinality(Waiting(b.waiters, x))
                                   - (IF x = b.waiters[t].side THEN 1 ELSE 0)
    <2>1. a = [b EXCEPT !.waiters = Less(b.waiters, t)]
        OBVIOUS
    <2> HIDE DEF a
    <2>2. Gone(b, d, t, a)
        BY <2>1, GoneFields
    <2> QED BY <2>2 DEF Gone
<1>2. m = IF b.waiters[t].side = "Reader" THEN ResetCohort(CloseReadEnd(a))
          ELSE CloseWriteEnd(a)
    BY DEF CancelWaiter, Less
<1> HIDE DEF a, m
<1>3. ASSUME b.waiters[t].side = "Reader" PROVE Rest
    <2> DEFINE f == CloseReadEnd(a)
    <2>1. a.reads > 0
        BY <1>1, <1>3, Numbers
    <2>2. /\ f \in Buffers /\ SameFlags(a, f) /\ SameRest(a, f)
          /\ f.reads = a.reads - 1 /\ f.writes = a.writes /\ f.readOnly = a.readOnly
          /\ f.waiters = a.waiters
        BY <1>1, <2>1, CloseReadEndFields
    <2>3. m = ResetCohort(f)
        BY <1>2, <1>3
    <2> HIDE DEF f
    <2>4. /\ m \in Buffers /\ SameRest(f, m)
          /\ m.reads = f.reads /\ m.writes = f.writes /\ m.readOnly = f.readOnly
          /\ m.waiters = f.waiters
          /\ IF f.readOnly = 0 /\ ~ ReadyReader(f)
             THEN ~ m.hangup /\ (m.everOpened <=> f.everOpened /\ f.writes > 0)
             ELSE SameFlags(f, m)
        BY <2>2, <2>3, ResetCohortFields
    <2>5. (ReadyReader(f) <=> ReadyReader(a)) /\ (ReadyReader(m) <=> ReadyReader(a))
        BY <2>2, <2>4, ReadyReaderSame
    <2>6. SameRest(b, m) /\ (SameFlags(f, m) => SameFlags(b, m)) /\ SameFlags(b, f)
        BY <1>1, <2>2, <2>4 DEF SameFlags, SameRest
    <2>7. /\ m.reads = b.reads - 1 /\ m.writes = b.writes /\ m.readOnly = b.readOnly
          /\ f.readOnly = b.readOnly /\ f.writes = b.writes /\ m.waiters = a.waiters
        BY <1>1, <2>2, <2>4
    <2>8. /\ Cohort(m) /\ Grown(b, m)
          /\ m.writes = 0 /\ m.readOnly > 0 /\ (b.writes > 0 \/ b.hangup) => m.hangup
        BY <1>1, <2>4, <2>5, <2>6, <2>7, Numbers DEF Good, Cohort, Grown, SameFlags
    <2> QED BY <1>3, <2>4, <2>6, <2>7, <2>8, Numbers
<1>4. ASSUME b.waiters[t].side = "Writer" PROVE Rest
    <2>1. a.writes > 0
        BY <1>1, <1>4, Numbers
    <2>2. /\ m \in Buffers /\ SameRest(a, m)
          /\ m.reads = a.reads /\ m.writes = a.writes - 1 /\ m.readOnly = a.readOnly
          /\ m.waiters = a.waiters
          /\ m.writes > 0 => SameFlags(a, m)
          /\ m.writes = 0 /\ a.everOpened /\ a.readOnly > 0 => m.everOpened /\ m.hangup
          /\ m.writes = 0 /\ ~ (a.everOpened /\ a.readOnly > 0) =>
                IF ReadyReader(a) THEN SameFlags(a, m) ELSE ~ m.everOpened /\ ~ m.hangup
        BY <1>1, <1>2, <1>4, <2>1, CloseWriteEndFields
    <2>3. (ReadyReader(a) <=> ReadyReader(b)) /\ (ReadyReader(m) <=> ReadyReader(b))
        BY <1>1, <1>4, <2>2, ReadyReaderSame
    <2>4. SameRest(b, m)
        BY <1>1, <2>2 DEF SameRest
    <2>5. Cohort(m) /\ Grown(b, m) /\ (m.writes = 0 /\ m.readOnly > 0 => m.hangup)
        BY <1>1, <2>1, <2>2, <2>3, Numbers DEF Good, Cohort, Grown, SameFlags
    <2> QED BY <1>1, <1>4, <2>2, <2>4, <2>5, Numbers
<1>5. Rest
    BY <1>3, <1>4, Numbers DEF Sides
<1>6. /\ c \in Buffers /\ SameFlags(m, c)
      /\ c.names = m.names /\ c.paths = m.paths
      /\ (c.freed <=> m.freed \/ FullyClosed(m))
      /\ c.reads = m.reads /\ c.writes = m.writes /\ c.readOnly = m.readOnly
      /\ c.waiters = m.waiters
    BY <1>5, FreeIfClosedFields
<1> HIDE DEF c
<1>7. c.freed = FullyClosed(c)
    <2>1. (FullyClosed(c) <=> FullyClosed(m)) /\ ~ m.freed
        BY <1>1, <1>5, <1>6, FullyClosedSame DEF SameRest
    <2>2. c.freed \in BOOLEAN /\ FullyClosed(c) \in BOOLEAN
        BY <1>6 DEF Buffers, FullyClosed
    <2> QED BY <1>6, <2>1, <2>2
<1>8. /\ Cohort(c) /\ Grown(b, c)
      /\ c.writes = 0 /\ c.readOnly > 0 /\ (b.writes > 0 \/ b.hangup) => c.hangup
    BY <1>5, <1>6, ReadyReaderSame DEF Cohort, Grown, SameFlags
<1>9. Counted(c, d)
    <2>1. \A K : Cardinality(Held(d, K)) \in Nat
        BY HeldFinite
    <2>2. \A x \in Sides : Cardinality(Waiting(c.waiters, x)) = Cardinality(Waiting(b.waiters, x))
                                   - (IF x = b.waiters[t].side THEN 1 ELSE 0)
        BY <1>1, <1>5, <1>6
    <2> QED BY <1>1, <1>5, <1>6, <2>1, <2>2 DEF Good, Counted, Sides, SameRest
<1>10. NotBoth(c, d)
    BY <1>1, <1>5, <1>6, Numbers DEF NotBoth
<1>11. Meets(c)
    <2> SUFFICES ASSUME NEW u \in DOMAIN c.waiters, ~ c.waiters[u].ready
                 PROVE  IF c.waiters[u].side = "Reader" THEN c.writes = 0 ELSE c.reads = 0
        BY DEF Meets
    <2>1. u \in DOMAIN b.waiters /\ c.waiters[u] = b.waiters[u]
        BY <1>1, <1>5, <1>6
    <2>2. IF b.waiters[u].side = "Reader" THEN b.writes = 0 ELSE b.reads = 0
        BY <2>1 DEF Good, Meets
    <2> QED BY <1>5, <1>6, <2>1, <2>2, Numbers DEF Sides
<1>12. ASSUME c.writes = 0, NEW u \in s, d[u] = "Read" PROVE c.hangup
    <2>1. u \in Threads /\ (b.writes = 0 => b.hangup)
        BY <1>12, MetReader
    <2>2. b.readOnly > 0 /\ b.writes \in Nat
        BY <1>12, <2>1, Numbers
    <2> QED BY <1>5, <1>6, <1>8, <1>12, <2>1, <2>2
<1>13. ASSUME NEW u \in s, u \in Waiting(c.waiters, "Reader") PROVE c.waiters[u].ready
    <2>1. u \in DOMAIN b.waiters /\ c.waiters[u] = b.waiters[u]
        BY <1>1, <1>5, <1>6, <1>13 DEF Waiting
    <2> QED BY <2>1, MetReader
<1>14. Seen(c, d, s) \subseteq Threads /\ Told(c, d, Seen(c, d, s))
    BY <1>6, <1>11, <1>12, <1>13, SeenTold, Numbers
<1> QED BY <1>6, <1>7, <1>8, <1>9, <1>10, <1>11, <1>14, Numbers
       DEF Good, GoodStep

(* resume_fifo_open *)
LEMMA ResumeGood ==
    ASSUME NEW b, NEW d, NEW s, Good(b, d, s), NEW t \in DOMAIN b.waiters,
           b.waiters[t].ready
    PROVE  LET mode == ModeOf(b.waiters[t].side)
               c == Publish([b EXCEPT !.waiters = Less(b.waiters, t)], mode)
               e == [d EXCEPT ![t] = mode]
           IN  GoodStep(b, c, e, s)
<1> DEFINE side == b.waiters[t].side
           mode == ModeOf(side)
           a == [b EXCEPT !.waiters = Less(b.waiters, t)]
           c == Publish(a, mode)
           e == [d EXCEPT ![t] = mode]
           sides == IF mode = "Read" THEN {"Writer"}
                    ELSE IF mode = "Write" THEN {"Reader"} ELSE Sides
<1> SUFFICES GoodStep(b, c, e, s)
    OBVIOUS
<1>1. /\ a \in Buffers /\ SameFlags(b, a) /\ SameRest(b, a)
      /\ a.reads = b.reads /\ a.writes = b.writes /\ a.readOnly = b.readOnly
      /\ DOMAIN a.waiters = DOMAIN b.waiters \ {t}
      /\ \A u \in DOMAIN a.waiters : a.waiters[u] = b.waiters[u]
      /\ ReadyReader(a) => ReadyReader(b)
      /\ b.waiters[t].side = "Writer" => (ReadyReader(a) <=> ReadyReader(b))
      /\ t \in Threads /\ d[t] = "None" /\ ~ FullyClosed(b) /\ ~ b.freed
      /\ \A x \in Sides :
            /\ Cardinality(Waiting(b.waiters, x)) \in Nat
            /\ Cardinality(Waiting(a.waiters, x)) = Cardinality(Waiting(b.waiters, x))
                                   - (IF x = b.waiters[t].side THEN 1 ELSE 0)
    <2>1. a = [b EXCEPT !.waiters = Less(b.waiters, t)]
        OBVIOUS
    <2> HIDE DEF a
    <2>2. Gone(b, d, t, a)
        BY <2>1, GoneFields
    <2> QED BY <2>2 DEF Gone
<1>2. /\ side \in Sides /\ mode \in Modes /\ mode \in Kinds
      /\ side = "Reader" => mode = "Read" /\ mode \in Readers /\ mode \notin Writers
      /\ side = "Writer" => mode = "Write" /\ mode \notin Readers /\ mode \in Writers
      /\ sides \in SUBSET Sides
      /\ side = "Reader" => sides = {"Writer"}
      /\ side = "Writer" => sides = {"Reader"}
    <2>1. side \in Sides
        BY Numbers
    <2> HIDE DEF side
    <2> QED BY <2>1 DEF ModeOf, Modes, Kinds, Readers, Writers, Sides
<1>3. \A K \in SUBSET Kinds :
        /\ e \in Descs
        /\ Cardinality(Held(e, K)) = Cardinality(Held(d, K)) + (IF mode \in K THEN 1 ELSE 0)
        /\ Cardinality(Held(d, K)) \in Nat
    BY <1>1, <1>2, Gains, HeldFinite DEF Good
<1>4. e[t] = mode /\ \A u \in Threads : u # t => e[u] = d[u]
    BY <1>1, Numbers DEF Descs
<1> HIDE DEF a, e, mode, sides
<1>5. /\ c \in Buffers /\ SameRest(a, c)
      /\ c.reads = a.reads /\ c.writes = a.writes
      /\ c.readOnly = a.readOnly + (IF mode = "Read" THEN 1 ELSE 0)
      /\ c.waiters = Woken(a.waiters, sides)
      /\ IF mode = "Read"
         THEN /\ c.everOpened <=> a.everOpened \/ a.writes > 0
              /\ c.hangup <=> a.writes = 0 /\ (a.hangup \/ a.everOpened)
         ELSE c.everOpened /\ ~ c.hangup
    BY <1>1, <1>2, PublishFields DEF sides
<1> HIDE DEF c
<1>6. \A u \in DOMAIN c.waiters :
         /\ u \in DOMAIN b.waiters /\ u # t /\ c.waiters[u].side = b.waiters[u].side
         /\ c.waiters[u].side \in Sides
         /\ c.waiters[u].ready <=> b.waiters[u].ready \/ b.waiters[u].side \in sides
    BY <1>1, <1>2, <1>5, WokenReady
<1>7. \A x \in Sides : Waiting(c.waiters, x) = Waiting(a.waiters, x)
    <2>1. a.waiters \in WaiterMaps
        BY <1>1 DEF Buffers
    <2> QED BY <1>2, <1>5, <2>1, WaitersWoken
<1>8. Counted(c, e)
    <2>1. {Readers, Writers, {"Read"}, {"Path"}} \subseteq SUBSET Kinds
        BY DEF Readers, Writers, Kinds, Modes
    <2>2. /\ c.reads = b.reads /\ c.writes = b.writes /\ c.paths = b.paths
          /\ c.readOnly = b.readOnly + (IF mode = "Read" THEN 1 ELSE 0)
        BY <1>1, <1>5 DEF SameRest
    <2>3. \A x \in Sides : /\ Cardinality(Waiting(b.waiters, x)) \in Nat
                           /\ Cardinality(Waiting(c.waiters, x))
                                 = Cardinality(Waiting(b.waiters, x)) - (IF x = side THEN 1 ELSE 0)
        BY <1>1, <1>7
    <2> HIDE DEF side
    <2> QED BY <1>2, <1>3, <2>1, <2>2, <2>3 DEF Good, Counted, Sides
<1>9. e \in Descs
    BY <1>3
<1>10. NotBoth(c, e)
    BY <1>4, <1>6, Numbers DEF NotBoth
<1>11. Meets(c)
    <2> SUFFICES ASSUME NEW u \in DOMAIN c.waiters, ~ c.waiters[u].ready
                 PROVE  IF c.waiters[u].side = "Reader" THEN c.writes = 0 ELSE c.reads = 0
        BY DEF Meets
    <2>1. u \in DOMAIN b.waiters /\ c.waiters[u].side = b.waiters[u].side /\ ~ b.waiters[u].ready
        BY <1>6
    <2>2. IF b.waiters[u].side = "Reader" THEN b.writes = 0 ELSE b.reads = 0
        BY <2>1 DEF Good, Meets
    <2> QED BY <1>1, <1>5, <2>1, <2>2
<1>12. c.freed = FullyClosed(c)
    <2>1. (FullyClosed(c) <=> FullyClosed(b)) /\ ~ c.freed
        BY <1>1, <1>5, FullyClosedSame DEF SameRest
    <2>2. c.freed \in BOOLEAN /\ FullyClosed(c) \in BOOLEAN
        BY <1>5 DEF Buffers, FullyClosed
    <2> QED BY <1>1, <2>1, <2>2
<1>13. Cohort(c) /\ Grown(b, c) /\ (c.writes = 0 => c.hangup)
    <2>1. CASE side = "Reader"
        <3>1. b.everOpened
            BY <2>1 DEF Good, Cohort, ReadyReader
        <3> QED BY <1>1, <1>2, <1>5, <2>1, <3>1, Numbers DEF Cohort, Grown, SameFlags
    <2>2. CASE side = "Writer"
        <3>1. b.writes > 0
            BY <2>2, Numbers
        <3> QED BY <1>1, <1>2, <1>5, <2>2, <3>1 DEF Cohort, Grown
    <2> QED BY <1>2, <2>1, <2>2 DEF Sides
<1>14. ASSUME NEW u \in s, u \in Waiting(c.waiters, "Reader") PROVE c.waiters[u].ready
    <2>1. u \in DOMAIN c.waiters
        BY <1>14 DEF Waiting
    <2>2. u \in DOMAIN b.waiters /\ (b.waiters[u].ready => c.waiters[u].ready)
        BY <1>6, <2>1
    <2> QED BY <2>2, MetReader
<1>15. Seen(c, e, s) \subseteq Threads /\ Told(c, e, Seen(c, e, s))
    BY <1>5, <1>9, <1>11, <1>13, <1>14, SeenTold, Numbers
<1> QED BY <1>5, <1>8, <1>9, <1>10, <1>11, <1>12, <1>13, <1>15
       DEF Good, GoodStep

-----------------------------------------------------------------------------
(* A name comes or goes; data comes or goes. *)
LEMMA IdleGood ==
    ASSUME NEW b, NEW d, NEW s, Good(b, d, s), NEW c \in Buffers, SameFlags(b, c),
           c.waiters = b.waiters, c.reads = b.reads, c.writes = b.writes,
           c.readOnly = b.readOnly, c.paths = b.paths, c.freed <=> FullyClosed(c)
    PROVE  GoodStep(b, c, d, s)
<1>1. Cohort(c) /\ Grown(b, c) /\ (c.writes = 0 /\ c.readOnly > 0 /\ b.hangup => c.hangup)
    BY ReadyReaderSame, Numbers DEF Good, Cohort, Grown, SameFlags
<1>2. Good(c, d, Seen(c, d, s))
    BY <1>1, IdleParts
<1> QED BY <1>1, <1>2 DEF GoodStep

LEMMA LinkGood ==
    ASSUME NEW b, NEW d, NEW s, Good(b, d, s), b.names \in 1 .. MaxNames - 1
    PROVE  LET c == [b EXCEPT !.names = @ + 1] IN GoodStep(b, c, d, s)
<1> DEFINE c == [b EXCEPT !.names = @ + 1]
<1>1. /\ c \in Buffers /\ SameFlags(b, c) /\ c.names = b.names + 1
      /\ c.waiters = b.waiters /\ c.reads = b.reads /\ c.writes = b.writes
      /\ c.readOnly = b.readOnly /\ c.paths = b.paths /\ c.freed = b.freed
    BY Numbers, NamedFifoConstants DEF Buffers, SameFlags
<1> HIDE DEF c
<1>2. ~ c.freed /\ ~ FullyClosed(c)
    BY <1>1, Numbers DEF Good, FullyClosed
<1>3. GoodStep(b, c, d, s)
    BY <1>1, <1>2, IdleGood
<1> QED BY <1>3 DEF c

LEMMA UnlinkGood ==
    ASSUME NEW b, NEW d, NEW s, Good(b, d, s), b.names > 0
    PROVE  LET c == FreeIfClosed([b EXCEPT !.names = @ - 1]) IN GoodStep(b, c, d, s)
<1> DEFINE m == [b EXCEPT !.names = @ - 1]
           c == FreeIfClosed(m)
<1>1. /\ m \in Buffers /\ SameFlags(b, m) /\ m.names = b.names - 1
      /\ m.waiters = b.waiters /\ m.reads = b.reads /\ m.writes = b.writes
      /\ m.readOnly = b.readOnly /\ m.paths = b.paths /\ m.freed = b.freed
    BY Numbers, NamedFifoConstants DEF Buffers, SameFlags
<1> HIDE DEF m
<1>2. /\ c \in Buffers /\ SameFlags(m, c)
      /\ c.names = m.names /\ c.paths = m.paths
      /\ (c.freed <=> m.freed \/ FullyClosed(m))
      /\ c.reads = m.reads /\ c.writes = m.writes /\ c.readOnly = m.readOnly
      /\ c.waiters = m.waiters
    BY <1>1, FreeIfClosedFields
<1> HIDE DEF c
<1>3. ~ b.freed
    BY Numbers DEF Good, FullyClosed
<1>4. c.freed <=> FullyClosed(c)
    BY <1>1, <1>2, <1>3 DEF FullyClosed
<1>5. SameFlags(b, c)
    BY <1>1, <1>2 DEF SameFlags
<1>6. GoodStep(b, c, d, s)
    BY <1>1, <1>2, <1>4, <1>5, IdleGood
<1> QED BY <1>6 DEF c, m

LEMMA DataGood ==
    ASSUME NEW b, NEW d, NEW s, Good(b, d, s), NEW n \in 0 .. Capacity
    PROVE  LET c == [b EXCEPT !.len = n] IN GoodStep(b, c, d, s)
<1> DEFINE c == [b EXCEPT !.len = n]
<1>1. /\ c \in Buffers /\ SameFlags(b, c) /\ c.names = b.names
      /\ c.waiters = b.waiters /\ c.reads = b.reads /\ c.writes = b.writes
      /\ c.readOnly = b.readOnly /\ c.paths = b.paths /\ c.freed = b.freed
    BY Numbers DEF Buffers, SameFlags
<1> HIDE DEF c
<1>2. c.freed <=> FullyClosed(c)
    BY <1>1, Numbers DEF Good, FullyClosed
<1>3. GoodStep(b, c, d, s)
    BY <1>1, <1>2, IdleGood
<1> QED BY <1>3 DEF c

-----------------------------------------------------------------------------
(* The inductive invariant of the specification. *)
IInv ==
    /\ Good(pipe, desc, sawWriter) /\ {metEnd, writerOpened} \subseteq BOOLEAN
    /\ pipe.everOpened /\ pipe.writes = 0 => metEnd
    /\ (pipe.readOnly > 0 \/ ReadyReader(pipe)) /\ pipe.writes > 0 => metEnd

LEMMA InitGood == Init => IInv
<1> SUFFICES ASSUME Init PROVE IInv
    OBVIOUS
<1>1. << >> \in WaiterMaps /\ DOMAIN << >> = {}
    <2>1. {} \in SUBSET Threads /\ << >> \in [{} -> Waiter] /\ DOMAIN << >> = {}
        OBVIOUS
    <2> QED BY <2>1, WaiterMapType
<1>2. /\ pipe \in Buffers /\ pipe.waiters = << >> /\ pipe.names = 1
      /\ pipe.reads = 0 /\ pipe.writes = 0 /\ pipe.readOnly = 0 /\ pipe.paths = 0
      /\ ~ pipe.hangup /\ ~ pipe.freed /\ ~ pipe.everOpened
    BY <1>1, NamedFifoConstants DEF Init, Buffers
<1>3. /\ desc \in Descs /\ sawWriter = {} /\ metEnd = FALSE /\ writerOpened = FALSE
      /\ \A t \in Threads : desc[t] = "None"
    BY DEF Init, Descs
<1>4. /\ \A K \in SUBSET Kinds : Held(desc, K) = {}
      /\ \A x : Waiting(pipe.waiters, x) = {}
    BY <1>1, <1>2, <1>3 DEF Held, Waiting, Kinds, Modes
<1>5. Counted(pipe, desc)
    <2>1. {Readers, Writers, {"Read"}, {"Path"}} \subseteq SUBSET Kinds
        BY DEF Readers, Writers, Kinds, Modes
    <2>2. Cardinality({}) = 0
        BY FS_EmptySet
    <2>3. /\ Cardinality(Held(desc, Readers)) = 0 /\ Cardinality(Held(desc, Writers)) = 0
          /\ Cardinality(Held(desc, {"Read"})) = 0 /\ Cardinality(Held(desc, {"Path"})) = 0
          /\ \A x : Cardinality(Waiting(pipe.waiters, x)) = 0
        BY <1>4, <2>1, <2>2
    <2> QED BY <1>2, <2>3 DEF Counted
<1>6. NotBoth(pipe, desc) /\ Meets(pipe) /\ Told(pipe, desc, sawWriter)
    BY <1>1, <1>2, <1>3 DEF NotBoth, Meets, Told
<1>7. Cohort(pipe) /\ ~ FullyClosed(pipe)
    BY <1>1, <1>2 DEF Cohort, ReadyReader, FullyClosed
<1>8. pipe.freed = FullyClosed(pipe)
    BY <1>2, <1>7 DEF Buffers, FullyClosed
<1>9. Good(pipe, desc, sawWriter)
    BY <1>2, <1>3, <1>5, <1>6, <1>7, <1>8 DEF Good
<1>10. {metEnd, writerOpened} \subseteq BOOLEAN
    BY <1>3
<1>11. ~ pipe.everOpened /\ ~ (pipe.writes > 0)
    BY <1>2
<1> QED BY <1>9, <1>10, <1>11 DEF IInv

(* Fewer readers met an open writer than met a write end. *)
LEMMA SawSome ==
    ASSUME NEW c, NEW e, NEW s, Good(c, e, s)
    PROVE  SawWriter(c, e) \subseteq Seen(c, e, sawWriter)
<1>1. ASSUME NEW t \in Threads, e[t] \in {"Write", "ReadWrite"}
      PROVE  c.writes > 0
    BY <1>1, Numbers DEF Writers
<1> QED BY <1>1 DEF SawWriter, Seen, Waiting

LEMMA StepGood ==
    ASSUME IInv, NEW c, NEW e, Become(c), desc' = e, GoodStep(pipe, c, e, sawWriter),
           writerOpened' \in BOOLEAN
    PROVE  IInv'
<1>1. /\ pipe' = c /\ sawWriter' = SawWriter(c, e)
      /\ metEnd' = (ReaderCohort(c, e) /\ (metEnd \/ c.writes > 0))
    BY DEF Become, MetEnd
<1>2. Good(c, e, Seen(c, e, sawWriter)) /\ Grown(pipe, c)
    BY DEF GoodStep
<1>3. Good(c, e, SawWriter(c, e))
    BY <1>2, SawSome DEF Good, Told
<1>4. c.writes \in Nat /\ pipe.writes \in Nat /\ {metEnd} \subseteq BOOLEAN
    BY <1>2, Numbers DEF IInv
<1>5. c.readOnly > 0 => \E t \in Threads : e[t] = "Read"
  <2>1. c.readOnly = Cardinality(Held(e, {"Read"}))
    BY <1>2 DEF Good, Counted
  <2> QED BY <2>1, HeldFinite DEF Held
<1>6. c.readOnly > 0 \/ ReadyReader(c) => ReaderCohort(c, e)
    BY <1>5 DEF ReaderCohort
<1>7. c.everOpened /\ c.writes = 0 => metEnd /\ (c.readOnly > 0 \/ ReadyReader(c))
    BY <1>2, <1>4 DEF Grown, Good, Cohort, IInv
<1>8. metEnd' \in BOOLEAN
    BY <1>1 DEF ReaderCohort, ReadyReader
<1>9. ReadyReader(pipe)' <=> ReadyReader(c)
    BY <1>1 DEF ReadyReader
<1>10. Good(pipe, desc, sawWriter)'
  <2>1. Good(pipe', desc', sawWriter')
    BY <1>1, <1>3
  <2> QED BY <2>1
<1> QED BY <1>1, <1>6, <1>7, <1>8, <1>9, <1>10 DEF IInv

LEMMA NextGood == IInv /\ [Next]_vars => IInv'
<1> SUFFICES ASSUME IInv, [Next]_vars PROVE IInv'
    OBVIOUS
<1> USE DEF IInv
<1>1. ASSUME NEW t \in Threads, NEW mode \in Modes, NEW nonblock \in BOOLEAN,
             Open(t, mode, nonblock)
      PROVE  IInv'
    <2> DEFINE a == IF mode = "ReadWrite" THEN AddWriter(AddReader(pipe))
                    ELSE AddEndpoint(pipe, SideOf(mode))
               c == Publish(a, mode)
               e == [desc EXCEPT ![t] = mode]
    <2>1. mode = "Write" => pipe.reads > 0
        BY <1>1 DEF Open, OppositeOpen
    <2>2. GoodStep(pipe, c, e, sawWriter)
        BY <1>1, <2>1, OpenGood DEF Open, Free, Opening
    <2>3. Become(c) /\ desc' = e /\ writerOpened' \in BOOLEAN
        BY <1>1 DEF Open
    <2> HIDE DEF c, e
    <2> QED BY <2>2, <2>3, StepGood
<1>2. ASSUME NEW t \in Threads, NEW mode \in Modes, NEW nonblock \in BOOLEAN,
             OpenEmfile(t, mode, nonblock)
      PROVE  IInv'
    <2> DEFINE m == IF mode = "ReadWrite" THEN CloseReference(AddReference(pipe, mode), mode)
                    ELSE IF mode = "Read" THEN CloseReadEnd(AddReader(pipe))
                    ELSE CloseWriteEnd(AddWriter(pipe))
               c == FreeIfClosed(m)
    <2>1. GoodStep(pipe, c, desc, sawWriter)
        BY <1>2, EmfileGood DEF OpenEmfile
    <2>2. Become(c) /\ desc' = desc /\ writerOpened' \in BOOLEAN
        BY <1>2 DEF OpenEmfile
    <2> HIDE DEF c
    <2> QED BY <2>1, <2>2, StepGood
<1>3. ASSUME NEW t \in Threads, NEW mode \in {"Read", "Write"}, OpenWaits(t, mode)
      PROVE  IInv'
    <2> DEFINE c == Reserve(pipe, t, SideOf(mode))
    <2>1. /\ SideOf(mode) \in Sides
          /\ IF SideOf(mode) = "Reader" THEN pipe.writes = 0 ELSE pipe.reads = 0
        <3>1. pipe.reads \in Nat /\ pipe.writes \in Nat
            BY Numbers
        <3> QED BY <1>3, <3>1 DEF OpenWaits, OppositeOpen, SideOf, Sides
    <2>2. GoodStep(pipe, c, desc, sawWriter)
        BY <1>3, <2>1, ReserveGood DEF OpenWaits, Free, Opening
    <2>3. Become(c) /\ desc' = desc /\ writerOpened' \in BOOLEAN
        BY <1>3 DEF OpenWaits
    <2> HIDE DEF c
    <2> QED BY <2>2, <2>3, StepGood
<1>4. ASSUME NEW t \in Threads, Resume(t) PROVE IInv'
    <2> DEFINE mode == ModeOf(pipe.waiters[t].side)
               c == Publish([pipe EXCEPT !.waiters = Less(pipe.waiters, t)], mode)
               e == [desc EXCEPT ![t] = mode]
    <2>1. t \in DOMAIN pipe.waiters /\ pipe.waiters[t].ready
        BY <1>4 DEF Resume, Opening
    <2>2. GoodStep(pipe, c, e, sawWriter)
        BY <2>1, ResumeGood
    <2>3. Become(c) /\ desc' = e /\ writerOpened' \in BOOLEAN
        BY <1>4 DEF Resume, Less
    <2> HIDE DEF c, e
    <2> QED BY <2>2, <2>3, StepGood
<1>5. ASSUME NEW t \in Threads, Cancel(t) PROVE IInv'
    <2> DEFINE c == FreeIfClosed(CancelWaiter(pipe, t))
    <2>1. GoodStep(pipe, c, desc, sawWriter)
        BY <1>5, CancelGood DEF Cancel, Opening
    <2>2. Become(c) /\ desc' = desc /\ writerOpened' \in BOOLEAN
        BY <1>5 DEF Cancel
    <2> HIDE DEF c
    <2> QED BY <2>1, <2>2, StepGood
<1>6. ASSUME NEW t \in Threads, OpenPath(t) PROVE IInv'
    <2> DEFINE c == AddReference(pipe, "Path")
               e == [desc EXCEPT ![t] = "Path"]
    <2>1. GoodStep(pipe, c, e, sawWriter)
        BY <1>6, ReferenceGood DEF OpenPath, Free, Opening, Kinds
    <2>2. Become(c) /\ desc' = e /\ writerOpened' \in BOOLEAN
        BY <1>6 DEF OpenPath
    <2> HIDE DEF c, e
    <2> QED BY <2>1, <2>2, StepGood
<1>7. ASSUME NEW t \in Threads, Close(t) PROVE IInv'
    <2> DEFINE c == FreeIfClosed(CloseReference(pipe, desc[t]))
               e == [desc EXCEPT ![t] = "None"]
    <2>1. GoodStep(pipe, c, e, sawWriter)
        BY <1>7, CloseGood DEF Close
    <2>2. Become(c) /\ desc' = e /\ writerOpened' \in BOOLEAN
        BY <1>7 DEF Close
    <2> HIDE DEF c, e
    <2> QED BY <2>1, <2>2, StepGood
<1>8. ASSUME NEW t \in Threads, NEW u \in Threads, Share(t, u) PROVE IInv'
    <2> DEFINE c == AddReference(pipe, desc[t])
               e == [desc EXCEPT ![u] = desc[t]]
    <2>1. desc[t] \in Kinds
        BY <1>8, Numbers DEF Share, Descs
    <2>2. GoodStep(pipe, c, e, sawWriter)
        BY <1>8, <2>1, ReferenceGood DEF Share, Free, Opening
    <2>3. Become(c) /\ desc' = e /\ writerOpened' \in BOOLEAN
        BY <1>8 DEF Share
    <2> HIDE DEF c, e
    <2> QED BY <2>2, <2>3, StepGood
<1>9. ASSUME Link PROVE IInv'
    <2> DEFINE c == [pipe EXCEPT !.names = @ + 1]
    <2>1. GoodStep(pipe, c, desc, sawWriter)
        BY <1>9, LinkGood DEF Link
    <2>2. Become(c) /\ desc' = desc /\ writerOpened' \in BOOLEAN
        BY <1>9 DEF Link
    <2> HIDE DEF c
    <2> QED BY <2>1, <2>2, StepGood
<1>10. ASSUME Unlink PROVE IInv'
    <2> DEFINE c == FreeIfClosed([pipe EXCEPT !.names = @ - 1])
    <2>1. GoodStep(pipe, c, desc, sawWriter)
        BY <1>10, UnlinkGood DEF Unlink
    <2>2. Become(c) /\ desc' = desc /\ writerOpened' \in BOOLEAN
        BY <1>10 DEF Unlink
    <2> HIDE DEF c
    <2> QED BY <2>1, <2>2, StepGood
<1>11. ASSUME NEW t \in Threads, NEW n \in 1 .. Capacity, Write(t, n) PROVE IInv'
    <2> DEFINE k == pipe.len + n
               c == [pipe EXCEPT !.len = k]
    <2>1. pipe.len \in 0 .. Capacity
        BY Numbers DEF Buffers
    <2>2. k \in 0 .. Capacity
        BY <1>11, <2>1, NamedFifoConstants DEF Write
    <2>3. Become(c) /\ desc' = desc /\ writerOpened' \in BOOLEAN
        BY <1>11 DEF Write
    <2> HIDE DEF k
    <2>4. GoodStep(pipe, c, desc, sawWriter)
        BY <2>2, DataGood
    <2> HIDE DEF c
    <2> QED BY <2>3, <2>4, StepGood
<1>12. ASSUME NEW t \in Threads, NEW n \in 1 .. Capacity, Read(t, n) PROVE IInv'
    <2> DEFINE k == pipe.len - n
               c == [pipe EXCEPT !.len = k]
    <2>1. pipe.len \in 0 .. Capacity
        BY Numbers DEF Buffers
    <2>2. k \in 0 .. Capacity
        BY <1>12, <2>1, NamedFifoConstants DEF Read
    <2>3. Become(c) /\ desc' = desc /\ writerOpened' \in BOOLEAN
        BY <1>12 DEF Read
    <2> HIDE DEF k
    <2>4. GoodStep(pipe, c, desc, sawWriter)
        BY <2>2, DataGood
    <2> HIDE DEF c
    <2> QED BY <2>3, <2>4, StepGood
<1>13. ASSUME UNCHANGED vars PROVE IInv'
    BY <1>13 DEF vars
<1> HIDE DEF IInv
<1> QED BY <1>1, <1>2, <1>3, <1>4, <1>5, <1>6, <1>7, <1>8, <1>9, <1>10, <1>11, <1>12,
           <1>13 DEF Next

-----------------------------------------------------------------------------
(* What the invariant says of the FIFO. *)
LEMMA GoodEnds == IInv => EndsCounted
<1> SUFFICES ASSUME IInv PROVE EndsCounted
    OBVIOUS
<1>1. Good(pipe, desc, sawWriter) /\ {metEnd, writerOpened} \subseteq BOOLEAN
    BY DEF IInv
<1>2. pipe \in Buffers /\ pipe.waiters \in WaiterMaps /\ desc \in Descs /\ sawWriter \subseteq Threads
    BY <1>1, Numbers
<1>3. DOMAIN pipe.waiters \subseteq Threads /\ pipe.waiters \in [DOMAIN pipe.waiters -> Waiter]
    BY <1>2, WaiterMapType
<1>4. Range(pipe.waiters) \subseteq [side : Sides, ready : BOOLEAN]
    BY <1>3 DEF Range, Waiter
<1>5. TypeOK
    BY <1>1, <1>2, <1>3, <1>4 DEF TypeOK, Buffers, Descs
<1>6. /\ \A K : Holders(K) = Held(desc, K)
      /\ \A x : WaitersOf(x) = Waiting(pipe.waiters, x)
    BY DEF Holders, Held, WaitersOf, Waiting
<1>7. CountsExact
    BY <1>1, <1>6 DEF CountsExact, Good, Counted, Readers, Writers
<1> QED BY <1>5, <1>7 DEF EndsCounted

LEMMA GoodRendezvous == IInv => Rendezvous
BY DEF IInv, Good, Meets, Rendezvous

LEMMA GoodFreed == IInv => FreedWhenUnused
<1> SUFFICES ASSUME IInv PROVE FreedWhenUnused
    OBVIOUS
<1>1. Good(pipe, desc, sawWriter)
    BY DEF IInv
<1>2. pipe.waiters \in WaiterMaps /\ Counted(pipe, desc) /\ pipe.freed = FullyClosed(pipe)
    BY <1>1, Numbers DEF Good
<1>3. /\ \A K : /\ Cardinality(Held(desc, K)) \in Nat
                /\ Cardinality(Held(desc, K)) = 0 <=> Held(desc, K) = {}
      /\ \A x : /\ Cardinality(Waiting(pipe.waiters, x)) \in Nat
                /\ Cardinality(Waiting(pipe.waiters, x)) = 0 <=> Waiting(pipe.waiters, x) = {}
    BY <1>2, HeldFinite, WaitingFinite
<1>4. /\ pipe.reads = 0 <=> Held(desc, Readers) = {} /\ Waiting(pipe.waiters, "Reader") = {}
      /\ pipe.writes = 0 <=> Held(desc, Writers) = {} /\ Waiting(pipe.waiters, "Writer") = {}
      /\ pipe.paths = 0 <=> Held(desc, {"Path"}) = {}
    BY <1>2, <1>3 DEF Counted
<1>5. Holders(Kinds) = {} <=> /\ Held(desc, Readers) = {} /\ Held(desc, Writers) = {}
                              /\ Held(desc, {"Path"}) = {}
    BY DEF Holders, Held, Kinds, Modes, Readers, Writers
<1>6. DOMAIN pipe.waiters = {} <=> /\ Waiting(pipe.waiters, "Reader") = {}
                                   /\ Waiting(pipe.waiters, "Writer") = {}
    BY <1>1, Numbers DEF Waiting, Sides
<1> QED BY <1>2, <1>4, <1>5, <1>6 DEF FreedWhenUnused, FullyClosed

LEMMA GoodHangup == IInv => HangupRight
<1> SUFFICES ASSUME IInv PROVE HangupRight
    OBVIOUS
<1>1. Good(pipe, desc, sawWriter)
    BY DEF IInv
<1>2. HangupReported
    <2> SUFFICES ASSUME NEW t \in Holders({"Read"}) \cap sawWriter, pipe.writes = 0
                 PROVE  pipe.hangup
        BY DEF HangupReported
    <2>1. t \in Threads /\ desc[t] = "Read" /\ t \in sawWriter
        BY DEF Holders
    <2> QED BY <1>1, <2>1 DEF Good, Told, NotBoth, Waiting
<1>3. ASSUME pipe.hangup
      PROVE  pipe.writes = 0 /\ ReaderCohort(pipe, desc) /\ metEnd
    <2>1. pipe.writes = 0 /\ (pipe.readOnly > 0 \/ ReadyReader(pipe)) /\ metEnd
        BY <1>1, <1>3 DEF Good, Cohort, IInv
    <2>2. pipe.readOnly = Cardinality(Holders({"Read"}))
        BY <1>1 DEF Good, Counted, Holders, Held
    <2>3. pipe.readOnly > 0 => Holders({"Read"}) # {}
        BY <2>2, FS_EmptySet
    <2> QED BY <2>1, <2>3 DEF ReaderCohort, Holders
<1> QED BY <1>2, <1>3 DEF HangupRight, HangupTrue

LEMMA Invariance == Spec => []IInv
BY InitGood, NextGood, PTL DEF Spec

(* The end-point counts that decide EOF, EPIPE and readiness are exactly     *)
(* those of the descriptors and the reservations of waiting opens, and the   *)
(* ring is never overfull, whatever mixture of failed, cancelled and         *)
(* completed opens, forks, closes and unlinks came before.                   *)
THEOREM EndsStayCounted == Spec => []EndsCounted
BY Invariance, GoodEnds, PTL

(* A reader and a writer never both wait in open() for each other: this is   *)
(* what reserving the endpoint before waiting (reserve_fifo_open) is for.    *)
THEOREM OpensMeet == Spec => []Rendezvous
BY Invariance, GoodRendezvous, PTL

(* free_if_closed frees the buffer of a FIFO exactly when no name,           *)
(* descriptor or waiting open() refers to it.                                *)
THEOREM FreedExactly == Spec => []FreedWhenUnused
BY Invariance, GoodFreed, PTL

(* poll() tells every reader that met an open writer when the last write end *)
(* has gone (close_write_end, publish_fifo_open); it tells none while a      *)
(* write end is there, or after the cohort it was for ended, or when that    *)
(* cohort never met a write end, open or reserved.                           *)
THEOREM HangupIsRight == Spec => []HangupRight
BY Invariance, GoodHangup, PTL
==============================================================================
