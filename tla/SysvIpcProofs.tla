--------------------------- MODULE SysvIpcProofs ---------------------------
(***************************************************************************)
(* What the System V table promises for any processes, keys, permissions,   *)
(* messages and arrays of semaphore operations, as long as fewer than 2^31  *)
(* objects are ever created: alloc_id then never gives an id out again.     *)
(***************************************************************************)
EXTENDS SysvIpc, TLAPS, FiniteSetTheorems, WellFoundedInduction

Msgs == [mtype : MTypes, size : Sizes, serial : Nat]
Queues == [key : Keys, uid : Nat, gid : Nat, mode : Modes, born : Nat,
           messages : Seq(Msgs), cbytes : 0 .. MSGMNB]
Vals == UNION {[0 .. n - 1 -> U16] : n \in NSems}
SemSets == [key : Keys, uid : Nat, gid : Nat, mode : Modes, born : Nat, val : Vals]

-----------------------------------------------------------------------------
(* The least element of a set of naturals: what stands in for induction. *)
LEMMA NatHasMin ==
    ASSUME NEW T \in SUBSET Nat, T # {}
    PROVE  \E x \in T : \A y \in T : x <= y
<1> DEFINE R == {ss \in Nat \X Nat : ss[1] < ss[2]}
<1>1. IsWellFoundedOn(R, Nat)
    BY NatLessThanWellFounded, Zenon DEF OpToRel
<1>2. \A x, y \in Nat : ~ (<<y, x>> \in R) => x <= y
    OBVIOUS
<1> HIDE DEF R
<1>3. \E x \in T : \A y \in T : ~ (<<y, x>> \in R)
    BY <1>1, WFMin
<1> QED BY <1>2, <1>3

LEMMA SizeType == \A m \in Msgs : m.size \in Nat
<1>1. Sizes \subseteq Nat
    BY SysvIpcConstants
<1> QED BY <1>1 DEF Msgs

(* The sum that Bytes takes: f counts the bytes of the first k messages. *)
Sums(ms, f, n) ==
    f = [k \in 0 .. n |-> IF k = 0 THEN 0 ELSE f[k - 1] + ms[k].size]

LEMMA SumsGrow ==
    ASSUME NEW ms \in Seq(Msgs), NEW n \in 0 .. Len(ms), n # 0,
           NEW f, Sums(ms, f, n - 1), f \in [0 .. n - 1 -> Nat]
    PROVE  \E g : Sums(ms, g, n) /\ g \in [0 .. n -> Nat]
<1> DEFINE v == f[n - 1] + ms[n].size
           g == [k \in 0 .. n |-> IF k = n THEN v ELSE f[k]]
<1>1. v \in Nat /\ n \in Nat
    <2>1. n \in 1 .. Len(ms) /\ n - 1 \in 0 .. n - 1
        OBVIOUS
    <2>2. ms[n] \in Msgs /\ f[n - 1] \in Nat
        BY <2>1
    <2> QED BY <2>1, <2>2, SizeType
<1>2. \A k \in 0 .. n - 1 : f[k] = IF k = 0 THEN 0 ELSE f[k - 1] + ms[k].size
    BY DEF Sums
<1>3. g \in [0 .. n -> Nat]
    BY <1>1
<1>4. \A k \in 0 .. n : g[k] = IF k = 0 THEN 0 ELSE g[k - 1] + ms[k].size
    BY <1>1, <1>2
<1> HIDE DEF g
<1>5. Sums(ms, g, n)
    BY <1>3, <1>4 DEF Sums
<1> QED BY <1>3, <1>5

LEMMA SumsExist ==
    ASSUME NEW ms \in Seq(Msgs)
    PROVE  \A n \in 0 .. Len(ms) : \E f : Sums(ms, f, n) /\ f \in [0 .. n -> Nat]
<1> DEFINE T == {n \in 0 .. Len(ms) : ~ \E f : Sums(ms, f, n) /\ f \in [0 .. n -> Nat]}
<1> SUFFICES ASSUME T # {} PROVE FALSE
    OBVIOUS
<1>1. T \subseteq Nat
    OBVIOUS
<1>2. PICK n \in T : \A k \in T : n <= k
    <2> HIDE DEF T
    <2> QED BY <1>1, NatHasMin
<1>3. n # 0
    <2> SUFFICES ASSUME n = 0 PROVE FALSE
        OBVIOUS
    <2> DEFINE f == [k \in 0 .. 0 |-> 0]
    <2>1. f \in [0 .. 0 -> Nat] /\ \A k \in 0 .. 0 : k = 0 /\ f[k] = 0
        OBVIOUS
    <2> HIDE DEF f
    <2>2. Sums(ms, f, 0)
        BY <2>1 DEF Sums
    <2> QED BY <2>1, <2>2
<1>4. n - 1 \in 0 .. Len(ms) /\ n - 1 \notin T
    <2>1. n \in 0 .. Len(ms)
        OBVIOUS
    <2> HIDE DEF T
    <2> QED BY <1>2, <1>3, <2>1
<1>5. PICK f : Sums(ms, f, n - 1) /\ f \in [0 .. n - 1 -> Nat]
    BY <1>4
<1>6. \E g : Sums(ms, g, n) /\ g \in [0 .. n -> Nat]
    BY <1>3, <1>5, SumsGrow
<1> QED BY <1>6

Agree(ms, ns, l) == \A k \in 1 .. l : ms[k] = ns[k]

LEMMA SumsAgree ==
    ASSUME NEW ms \in Seq(Msgs), NEW ns \in Seq(Msgs), NEW n \in Nat, NEW m \in Nat,
           NEW f, Sums(ms, f, n), NEW g, Sums(ns, g, m),
           NEW l \in Nat, l <= n, l <= m, Agree(ms, ns, l)
    PROVE  \A k \in 0 .. l : f[k] = g[k]
<1> DEFINE T == {k \in 0 .. l : f[k] # g[k]}
<1> SUFFICES ASSUME T # {} PROVE FALSE
    OBVIOUS
<1>1. PICK k \in T : \A j \in T : k <= j
    <2>1. T \subseteq Nat
        OBVIOUS
    <2> HIDE DEF T
    <2> QED BY <2>1, NatHasMin
<1>2. /\ f[k] = IF k = 0 THEN 0 ELSE f[k - 1] + ms[k].size
      /\ g[k] = IF k = 0 THEN 0 ELSE g[k - 1] + ns[k].size
    BY DEF Sums
<1>3. k # 0
    BY <1>2
<1>4. k - 1 \in 0 .. l /\ k - 1 \notin T /\ k \in 1 .. l
    BY <1>1, <1>3
<1> QED BY <1>2, <1>3, <1>4 DEF Agree

LEMMA BytesIs ==
    ASSUME NEW ms \in Seq(Msgs)
    PROVE  \E f : /\ Sums(ms, f, Len(ms)) /\ f \in [0 .. Len(ms) -> Nat]
                  /\ Bytes(ms) = f[Len(ms)]
<1> DEFINE n == Len(ms)
           h == CHOOSE f : Sums(ms, f, n)
<1>1. Bytes(ms) = h[n]
    BY DEF Bytes, Sums
<1>2. n \in 0 .. n /\ n \in Nat
    OBVIOUS
<1>3. PICK f : Sums(ms, f, n) /\ f \in [0 .. n -> Nat]
    BY <1>2, SumsExist
<1>4. Sums(ms, h, n)
    BY <1>3
<1> HIDE DEF h
<1>5. \A k \in 0 .. n : f[k] = h[k]
    <2>1. n <= n /\ Agree(ms, ms, n)
        BY <1>2 DEF Agree
    <2> QED BY <1>2, <1>3, <1>4, <2>1, SumsAgree
<1> QED BY <1>1, <1>2, <1>3, <1>5

LEMMA NoBytes == Bytes(<<>>) = 0
<1>1. <<>> \in Seq(Msgs) /\ Len(<<>>) = 0
    OBVIOUS
<1>2. PICK f : Sums(<<>>, f, 0) /\ Bytes(<<>>) = f[0]
    BY <1>1, BytesIs
<1>3. f[0] = 0
    BY <1>2 DEF Sums
<1> QED BY <1>2, <1>3

LEMMA BytesType ==
    ASSUME NEW ms \in Seq(Msgs)
    PROVE  Bytes(ms) \in Nat
<1>1. PICK f \in [0 .. Len(ms) -> Nat] : Bytes(ms) = f[Len(ms)]
    BY BytesIs
<1>2. Len(ms) \in 0 .. Len(ms)
    OBVIOUS
<1> QED BY <1>1, <1>2

LEMMA BytesAppend ==
    ASSUME NEW ms \in Seq(Msgs), NEW m \in Msgs
    PROVE  Bytes(Append(ms, m)) = Bytes(ms) + m.size
<1> DEFINE ns == Append(ms, m)
           n == Len(ms)
<1>1. /\ ns \in Seq(Msgs) /\ Len(ns) = n + 1 /\ n \in Nat /\ ns[n + 1] = m
      /\ \A k \in 1 .. n : ms[k] = ns[k]
    OBVIOUS
<1> HIDE DEF ns
<1>2. PICK f : Sums(ms, f, n) /\ Bytes(ms) = f[n]
    BY BytesIs
<1>3. PICK g : Sums(ns, g, n + 1) /\ Bytes(ns) = g[n + 1]
    BY <1>1, BytesIs
<1>4. f[n] = g[n]
    <2>1. n + 1 \in Nat /\ n <= n /\ n <= n + 1 /\ n \in 0 .. n
        BY <1>1
    <2>2. Agree(ms, ns, n)
        BY <1>1 DEF Agree
    <2> HIDE DEF n
    <2>3. \A k \in 0 .. n : f[k] = g[k]
        BY <1>1, <1>2, <1>3, <2>1, <2>2, SumsAgree
    <2> QED BY <2>1, <2>3
<1>5. g[n + 1] = g[n] + m.size
    <2>1. n + 1 \in 0 .. n + 1 /\ n + 1 # 0 /\ (n + 1) - 1 = n
        BY <1>1
    <2> HIDE DEF n
    <2> QED BY <1>1, <1>3, <2>1 DEF Sums
<1>6. Bytes(ns) = Bytes(ms) + m.size
    BY <1>2, <1>3, <1>4, <1>5
<1> QED BY <1>6 DEF ns

LEMMA Concatenated ==
    ASSUME NEW S, NEW a \in Seq(S), NEW b \in Seq(S)
    PROVE  /\ a \o b \in Seq(S) /\ Len(a \o b) = Len(a) + Len(b)
           /\ \A k \in 1 .. Len(a) + Len(b) :
                 (a \o b)[k] = IF k <= Len(a) THEN a[k] ELSE b[k - Len(a)]
<1>1. ASSUME NEW k \in 1 .. Len(a) + Len(b)
      PROVE  (a \o b)[k] = IF k <= Len(a) THEN a[k] ELSE b[k - Len(a)]
    OBVIOUS
<1> QED BY <1>1

(* A queue without the message at i. *)
LEMMA Removed ==
    ASSUME NEW ms \in Seq(Msgs), NEW i \in 1 .. Len(ms)
    PROVE  LET ns == RemoveAt(ms, i) IN
           /\ ns \in Seq(Msgs) /\ Len(ns) = Len(ms) - 1
           /\ \A k \in 1 .. Len(ms) - 1 : ns[k] = IF k < i THEN ms[k] ELSE ms[k + 1]
<1> DEFINE a == SubSeq(ms, 1, i - 1)
           b == SubSeq(ms, i + 1, Len(ms))
<1>1. a \in Seq(Msgs) /\ Len(a) = i - 1 /\ \A k \in 1 .. i - 1 : a[k] = ms[k]
    OBVIOUS
<1>2. /\ b \in Seq(Msgs) /\ Len(b) = Len(ms) - i
      /\ \A k \in 1 .. Len(ms) - i : b[k] = ms[k + i]
    OBVIOUS
<1>3. RemoveAt(ms, i) = a \o b /\ Len(ms) \in Nat
    BY DEF RemoveAt
<1> HIDE DEF a, b
<1>4. /\ a \o b \in Seq(Msgs) /\ Len(a \o b) = Len(ms) - 1
      /\ \A k \in 1 .. Len(ms) - 1 : (a \o b)[k] = IF k < i THEN a[k] ELSE b[k - i + 1]
    <2>1. /\ a \o b \in Seq(Msgs) /\ Len(a \o b) = Len(a) + Len(b)
          /\ \A k \in 1 .. Len(a) + Len(b) :
                (a \o b)[k] = IF k <= Len(a) THEN a[k] ELSE b[k - Len(a)]
        BY <1>1, <1>2, Concatenated
    <2>2. /\ Len(a) + Len(b) = Len(ms) - 1
          /\ \A k \in 1 .. Len(ms) - 1 : (k <= Len(a) <=> k < i) /\ k - Len(a) = k - i + 1
        BY <1>1, <1>2, <1>3
    <2> QED BY <2>1, <2>2
<1>5. ASSUME NEW k \in 1 .. Len(ms) - 1
      PROVE  (a \o b)[k] = IF k < i THEN ms[k] ELSE ms[k + 1]
    <2>1. k < i => k \in 1 .. i - 1
        OBVIOUS
    <2>2. ~ (k < i) => k - i + 1 \in 1 .. Len(ms) - i /\ (k - i + 1) + i = k + 1
        BY <1>3
    <2> QED BY <1>1, <1>2, <1>4, <2>1, <2>2
<1> QED BY <1>3, <1>4, <1>5

LEMMA BytesRemoved ==
    ASSUME NEW ms \in Seq(Msgs), NEW i \in 1 .. Len(ms)
    PROVE  Bytes(RemoveAt(ms, i)) = Bytes(ms) - ms[i].size
<1> DEFINE ns == RemoveAt(ms, i)
           n == Len(ms)
<1>1. /\ ns \in Seq(Msgs) /\ Len(ns) = n - 1 /\ n \in Nat /\ n >= 1
      /\ \A k \in 1 .. n - 1 : ns[k] = IF k < i THEN ms[k] ELSE ms[k + 1]
    <2>1. Len(ms) \in Nat /\ Len(ms) >= 1
        OBVIOUS
    <2> QED BY <2>1, Removed
<1> HIDE DEF ns
<1>2. PICK f : Sums(ms, f, n) /\ Bytes(ms) = f[n] /\ f \in [0 .. n -> Nat]
    BY BytesIs
<1>3. PICK g : Sums(ns, g, n - 1) /\ Bytes(ns) = g[n - 1] /\ g \in [0 .. n - 1 -> Nat]
    BY <1>1, BytesIs
<1>4. ms[i] \in Msgs /\ ms[i].size \in Nat
    BY SizeType
<1>5. i \in 1 .. n
    OBVIOUS
<1> HIDE DEF n
<1>6. \A k \in 0 .. i - 1 : f[k] = g[k]
    <2>1. /\ n - 1 \in Nat /\ i - 1 \in Nat /\ i - 1 <= n /\ i - 1 <= n - 1
          /\ \A k \in 1 .. i - 1 : k \in 1 .. n - 1 /\ k < i
        BY <1>1, <1>5
    <2>2. Agree(ms, ns, i - 1)
        BY <1>1, <2>1 DEF Agree
    <2> DEFINE l == i - 1
               m == n - 1
    <2>3. Sums(ns, g, m) /\ Agree(ms, ns, l) /\ l \in Nat /\ m \in Nat /\ l <= n /\ l <= m
        BY <1>3, <2>1, <2>2
    <2> HIDE DEF l, m
    <2>4. \A k \in 0 .. l : f[k] = g[k]
        BY <1>1, <1>2, <2>3, SumsAgree
    <2> QED BY <2>4 DEF l
<1>7. f[i] = f[i - 1] + ms[i].size
    BY <1>1, <1>2, <1>5 DEF Sums
<1> DEFINE T == {k \in i - 1 .. n - 1 : g[k] # f[k + 1] - ms[i].size}
<1>8. T = {}
    <2> SUFFICES ASSUME T # {} PROVE FALSE
        OBVIOUS
    <2>1. T \subseteq Nat
        BY <1>1, <1>5
    <2>2. PICK k \in T : \A j \in T : k <= j
        <3> HIDE DEF T
        <3> QED BY <2>1, NatHasMin
    <2>3. k \in i - 1 .. n - 1 /\ g[k] # f[k + 1] - ms[i].size
        OBVIOUS
    <2>4. k # i - 1
        <3> SUFFICES ASSUME k = i - 1 PROVE FALSE
            OBVIOUS
        <3>1. g[k] = f[k] /\ f[k + 1] = f[k] + ms[i].size /\ f[k] \in Nat
            BY <1>1, <1>2, <1>5, <1>6, <1>7
        <3> QED BY <1>4, <2>3, <3>1
    <2>5. k - 1 \in i - 1 .. n - 1 /\ k \in 1 .. n - 1 /\ ~ (k < i)
        BY <1>1, <1>5, <2>3, <2>4
    <2>6. k - 1 \notin T
        <3> HIDE DEF T
        <3> QED BY <2>1, <2>2, <2>5
    <2>7. g[k - 1] = f[k] - ms[i].size
        BY <2>5, <2>6
    <2>8. g[k] = g[k - 1] + ms[k + 1].size
        <3>1. k \in 0 .. n - 1 /\ k # 0 /\ ns[k] = ms[k + 1]
            BY <1>1, <2>5
        <3> QED BY <1>3, <3>1 DEF Sums
    <2>9. f[k + 1] = f[k] + ms[k + 1].size
        BY <1>1, <1>2, <2>5 DEF Sums
    <2>10. f[k] \in Nat /\ ms[k + 1].size \in Nat
        <3>1. k + 1 \in 1 .. Len(ms)
            BY <1>1, <2>5 DEF n
        <3>2. ms[k + 1] \in Msgs
            BY <3>1
        <3>3. k \in 0 .. n
            BY <1>1, <2>5
        <3> QED BY <1>2, <3>2, <3>3, SizeType
    <2> QED BY <1>4, <2>3, <2>7, <2>8, <2>9, <2>10
<1>9. g[n - 1] = f[n] - ms[i].size
    <2>1. n - 1 \in i - 1 .. n - 1 /\ (n - 1) + 1 = n
        BY <1>1, <1>5
    <2> QED BY <1>8, <2>1
<1> QED BY <1>2, <1>3, <1>9 DEF ns

-----------------------------------------------------------------------------
(* Values of semaphores stay u16 whatever is added to them. *)
Sops == [num : Nat, op : Int]

Steps(val, sops, f, n) ==
    f = [k \in 0 .. n |->
            IF k = 0 THEN val
            ELSE ApplyOne(f[k - 1], sops[k])]

LEMMA Wraps == /\ \A x \in Int : x % (U16Max + 1) \in U16
               /\ \A x \in U16 : x \in Int
               /\ 0 \in U16
<1>1. U16Max \in Nat
    BY DEF U16Max
<1>2. \A x \in Int : x % (U16Max + 1) \in 0 .. U16Max
    BY <1>1
<1> QED BY <1>1, <1>2 DEF U16

LEMMA OneStep ==
    ASSUME NEW D, NEW v \in [D -> U16], NEW sop \in Sops
    PROVE  ApplyOne(v, sop) \in [D -> U16]
<1> DEFINE n == sop.num
           x == v[n] + sop.op
           y == x % (U16Max + 1)
           w == [v EXCEPT ![n] = y]
<1>1. ApplyOne(v, sop) = w
    BY DEF ApplyOne
<1>2. ASSUME n \in D PROVE y \in U16
    <2>1. v[n] \in U16 /\ sop.op \in Int
        BY <1>2 DEF Sops
    <2>2. v[n] \in Int
        BY <2>1, Wraps
    <2>3. x \in Int
        BY <2>1, <2>2
    <2> HIDE DEF x
    <2> QED BY <2>3, Wraps
<1> HIDE DEF n, y
<1>3. w \in [D -> U16]
    BY <1>2
<1> QED BY <1>1, <1>3

LEMMA StepsType ==
    ASSUME NEW D, NEW val \in [D -> U16], NEW sops \in Seq(Sops), NEW n \in 0 .. Len(sops),
           NEW f, Steps(val, sops, f, n)
    PROVE  f \in [0 .. n -> [D -> U16]]
<1> DEFINE T == {k \in 0 .. n : f[k] \notin [D -> U16]}
<1>1. T = {}
    <2> SUFFICES ASSUME T # {} PROVE FALSE
        OBVIOUS
    <2>1. PICK k \in T : \A j \in T : k <= j
        <3>1. T \subseteq Nat
            OBVIOUS
        <3> HIDE DEF T
        <3> QED BY <3>1, NatHasMin
    <2>2. k \in 0 .. n /\ f[k] \notin [D -> U16]
        OBVIOUS
    <2>3. f[k] = IF k = 0 THEN val
                 ELSE ApplyOne(f[k - 1], sops[k])
        BY <2>2 DEF Steps
    <2>4. k # 0
        BY <2>2, <2>3
    <2>5. k - 1 \in 0 .. n /\ k - 1 \notin T /\ k \in 1 .. Len(sops)
        <3> HIDE DEF T
        <3> QED BY <2>1, <2>2, <2>4
    <2>6. f[k - 1] \in [D -> U16] /\ sops[k] \in Sops
        BY <2>5
    <2>7. ApplyOne(f[k - 1], sops[k]) \in [D -> U16]
        BY <2>6, OneStep
    <2> QED BY <2>2, <2>3, <2>4, <2>7
<1>2. DOMAIN f = 0 .. n /\ f = [k \in 0 .. n |-> f[k]]
    BY DEF Steps
<1> QED BY <1>1, <1>2

LEMMA StepsExist ==
    ASSUME NEW D, NEW val \in [D -> U16], NEW sops \in Seq(Sops)
    PROVE  \A n \in 0 .. Len(sops) : \E f : Steps(val, sops, f, n)
<1> DEFINE T == {n \in 0 .. Len(sops) : ~ \E f : Steps(val, sops, f, n)}
<1> SUFFICES ASSUME T # {} PROVE FALSE
    OBVIOUS
<1>1. PICK n \in T : \A k \in T : n <= k
    <2>1. T \subseteq Nat
        OBVIOUS
    <2> HIDE DEF T
    <2> QED BY <2>1, NatHasMin
<1>2. n \in 0 .. Len(sops)
    OBVIOUS
<1>3. n # 0
    <2> SUFFICES ASSUME n = 0 PROVE FALSE
        OBVIOUS
    <2> DEFINE f == [k \in 0 .. 0 |-> val]
    <2>1. f = [k \in 0 .. 0 |-> f[k]] /\ \A k \in 0 .. 0 : k = 0 /\ f[k] = val
        OBVIOUS
    <2> HIDE DEF f
    <2>2. Steps(val, sops, f, 0)
        BY <2>1 DEF Steps
    <2> QED BY <2>2
<1>4. n - 1 \in 0 .. Len(sops) /\ n - 1 \notin T
    <2> HIDE DEF T
    <2> QED BY <1>1, <1>2, <1>3
<1>5. PICK f : Steps(val, sops, f, n - 1)
    BY <1>4
<1> DEFINE v == ApplyOne(f[n - 1], sops[n])
           g == [k \in 0 .. n |-> IF k = n THEN v ELSE f[k]]
<1>6. \A k \in 0 .. n - 1 : f[k] =
         IF k = 0 THEN val ELSE ApplyOne(f[k - 1], sops[k])
    BY <1>5 DEF Steps
<1>7. /\ g = [k \in 0 .. n |-> g[k]] /\ g[n] = v
      /\ \A k \in 0 .. n - 1 : g[k] = f[k]
    BY <1>2
<1>8. v = ApplyOne(g[n - 1], sops[n])
    <2>1. n - 1 \in 0 .. n - 1
        BY <1>2, <1>3
    <2> QED BY <1>7, <2>1
<1> HIDE DEF g, v
<1>9. ASSUME NEW k \in 0 .. n
      PROVE  g[k] = IF k = 0 THEN val
                    ELSE ApplyOne(g[k - 1], sops[k])
    <2>1. CASE k = n
        BY <1>3, <1>7, <1>8, <2>1
    <2>2. CASE k # n
        <3>1. k \in 0 .. n - 1 /\ (k # 0 => k - 1 \in 0 .. n - 1)
            BY <1>2, <2>2
        <3> QED BY <1>6, <1>7, <3>1
    <2> QED BY <2>1, <2>2
<1>10. Steps(val, sops, g, n)
    BY <1>7, <1>9 DEF Steps
<1> QED BY <1>10

LEMMA ApplyType ==
    ASSUME NEW D, NEW val \in [D -> U16], NEW sops \in Seq(Sops)
    PROVE  Apply(val, sops) \in [D -> U16]
<1> DEFINE n == Len(sops)
           h == CHOOSE f : Steps(val, sops, f, n)
<1>1. Apply(val, sops) = h[n]
    BY DEF Apply, Steps
<1>2. n \in 0 .. n /\ n \in 0 .. Len(sops)
    OBVIOUS
<1>3. \E f : Steps(val, sops, f, n)
    BY <1>2, StepsExist
<1>4. Steps(val, sops, h, n)
    BY <1>3
<1> HIDE DEF h
<1>5. h \in [0 .. n -> [D -> U16]]
    BY <1>2, <1>4, StepsType
<1> QED BY <1>1, <1>2, <1>5

-----------------------------------------------------------------------------
(* One message queue: its messages are in the order they were sent, their    *)
(* serials are those accepted and not delivered, and its count of bytes      *)
(* covers them.                                                              *)
Serials(ms) == {ms[k].serial : k \in 1 .. Len(ms)}
InOrder(ms) == \A j, k \in 1 .. Len(ms) : j < k => ms[j].serial < ms[k].serial

QueueOK(q, i, n, out) ==
    /\ q \in Queues /\ q.born = i
    /\ InOrder(q.messages) /\ (\A k \in 1 .. Len(q.messages) : q.messages[k].serial < n)
    /\ Serials(q.messages) = out
    /\ IsFiniteSet(out) /\ Len(q.messages) = Cardinality(out)
    /\ Bytes(q.messages) <= q.cbytes

LEMMA QueueLater ==
    ASSUME NEW q, NEW i, NEW n \in Nat, NEW out, QueueOK(q, i, n, out)
    PROVE  QueueOK(q, i, n + 1, out)
<1>1. \A k \in 1 .. Len(q.messages) : q.messages[k].serial \in Nat
    <2>1. q.messages \in Seq(Msgs)
        BY DEF QueueOK, Queues
    <2>2. \A k \in 1 .. Len(q.messages) : q.messages[k] \in Msgs
        BY <2>1
    <2> QED BY <2>2 DEF Msgs
<1> QED BY <1>1 DEF QueueOK

LEMMA QueueSend ==
    ASSUME NEW q, NEW i, NEW n \in Nat, NEW out, QueueOK(q, i, n, out),
           NEW mtype \in MTypes, NEW size \in Sizes, Fits(q, size)
    PROVE  LET m == [mtype |-> mtype, size |-> size, serial |-> n]
           IN  QueueOK([q EXCEPT !.cbytes = @ + size, !.messages = Append(@, m)],
                       i, n + 1, out \cup {n})
<1> DEFINE m == [mtype |-> mtype, size |-> size, serial |-> n]
           ms == q.messages
           ns == Append(ms, m)
           p == [q EXCEPT !.cbytes = @ + size, !.messages = ns]
<1>1. q \in Queues /\ ms \in Seq(Msgs) /\ q.cbytes \in 0 .. MSGMNB /\ MSGMNB \in Nat
    BY SysvIpcConstants DEF QueueOK, Queues
<1>2. m \in Msgs /\ m.size = size /\ m.serial = n /\ size \in Nat
    <2>1. m \in Msgs /\ m.size = size /\ m.serial = n
        BY DEF Msgs
    <2> QED BY <2>1, SizeType
<1> HIDE DEF m
<1>3. /\ ns \in Seq(Msgs) /\ Len(ns) = Len(ms) + 1 /\ Len(ms) \in Nat
      /\ ns[Len(ms) + 1] = m /\ \A k \in 1 .. Len(ms) : ns[k] = ms[k]
    BY <1>1, <1>2
<1>4. Bytes(ns) = Bytes(ms) + size /\ Bytes(ms) \in Nat
    BY <1>1, <1>2, BytesAppend, BytesType
<1>5. q.cbytes + size \in 0 .. MSGMNB
    BY <1>1, <1>2 DEF Fits
<1> HIDE DEF ns
<1>6. p \in Queues /\ p.messages = ns /\ p.cbytes = q.cbytes + size /\ p.born = q.born
    BY <1>1, <1>3, <1>5 DEF Queues
<1> HIDE DEF p
<1>7. \A k \in 1 .. Len(ms) : ms[k].serial \in Nat /\ ms[k].serial < n
    <2>1. \A k \in 1 .. Len(ms) : ms[k] \in Msgs
        BY <1>1
    <2> QED BY <2>1 DEF QueueOK, Msgs
<1>8. \A k \in 1 .. Len(ns) : k \in 1 .. Len(ms) \/ k = Len(ms) + 1
    BY <1>3
<1>9. InOrder(ns) /\ (\A k \in 1 .. Len(ns) : ns[k].serial < n + 1)
    <2>1. ASSUME NEW j \in 1 .. Len(ns), NEW k \in 1 .. Len(ns), j < k
          PROVE  ns[j].serial < ns[k].serial
        <3>1. j \in 1 .. Len(ms)
            BY <1>3, <2>1
        <3>2. CASE k \in 1 .. Len(ms)
            BY <1>3, <2>1, <3>1, <3>2 DEF QueueOK, InOrder
        <3>3. CASE k = Len(ms) + 1
            BY <1>2, <1>3, <1>7, <3>1, <3>3
        <3> QED BY <1>8, <3>2, <3>3
    <2>2. ASSUME NEW k \in 1 .. Len(ns) PROVE ns[k].serial < n + 1
        BY <1>2, <1>3, <1>7, <1>8
    <2> QED BY <2>1, <2>2 DEF InOrder
<1>10. Serials(ns) = out \cup {n}
    <2>1. Serials(ms) = out
        BY DEF QueueOK
    <2>2. ASSUME NEW x \in Serials(ns) PROVE x \in out \cup {n}
        BY <1>2, <1>3, <1>8, <2>1 DEF Serials
    <2>3. ASSUME NEW x \in out PROVE x \in Serials(ns)
        <3>1. PICK k \in 1 .. Len(ms) : x = ms[k].serial
            BY <2>1 DEF Serials
        <3>2. k \in 1 .. Len(ns)
            BY <1>3
        <3> QED BY <1>3, <3>1, <3>2 DEF Serials
    <2>4. n \in Serials(ns)
        <3>1. Len(ms) + 1 \in 1 .. Len(ns)
            BY <1>3
        <3> QED BY <1>2, <1>3, <3>1 DEF Serials
    <2> QED BY <2>2, <2>3, <2>4
<1>11. n \notin out
    BY <1>7 DEF QueueOK, Serials
<1>12. /\ IsFiniteSet(out \cup {n}) /\ Cardinality(out \cup {n}) = Cardinality(out) + 1
    BY <1>11, FS_AddElement DEF QueueOK
<1>13. QueueOK(p, i, n + 1, out \cup {n})
    <2>1. Bytes(ms) <= q.cbytes /\ Len(ms) = Cardinality(out) /\ q.born = i
        BY DEF QueueOK
    <2>2. Bytes(ns) <= p.cbytes /\ Len(ns) = Cardinality(out \cup {n})
        BY <1>1, <1>2, <1>3, <1>4, <1>6, <1>12, <2>1
    <2> QED BY <1>6, <1>9, <1>10, <1>12, <2>1, <2>2 DEF QueueOK
<1> QED BY <1>13 DEF p, ns, m

LEMMA QueueReceive ==
    ASSUME NEW q, NEW i, NEW n \in Nat, NEW out, QueueOK(q, i, n, out),
           NEW k \in 1 .. Len(q.messages), NEW r \in Receives
    PROVE  QueueOK([q EXCEPT !.messages = RemoveAt(@, k),
                             !.cbytes = Less(q, q.messages[k], r)],
                   i, n, out \ {q.messages[k].serial})
<1> DEFINE ms == q.messages
           m == ms[k]
           ns == RemoveAt(ms, k)
           c == Less(q, m, r)
           p == [q EXCEPT !.messages = ns, !.cbytes = c]
           left == out \ {m.serial}
<1>1. /\ q \in Queues /\ ms \in Seq(Msgs) /\ q.cbytes \in 0 .. MSGMNB /\ MSGMNB \in Nat
      /\ Bytes(ms) <= q.cbytes /\ Bytes(ms) \in Nat
    BY SysvIpcConstants, BytesType DEF QueueOK, Queues
<1>2. m \in Msgs /\ m.size \in Nat /\ m.serial \in Nat
    <2>1. m \in Msgs
        BY <1>1
    <2> QED BY <2>1, SizeType DEF Msgs
<1>3. r.max \in Nat
    BY SysvIpcArguments
<1>4. /\ ns \in Seq(Msgs) /\ Len(ns) = Len(ms) - 1 /\ Len(ms) \in Nat /\ Len(ms) > 0
      /\ \A j \in 1 .. Len(ms) - 1 : ns[j] = IF j < k THEN ms[j] ELSE ms[j + 1]
    <2>1. Len(ms) \in Nat /\ Len(ms) > 0
        BY <1>1
    <2> QED BY <1>1, <2>1, Removed
<1>5. Bytes(ns) = Bytes(ms) - m.size /\ Bytes(ns) \in Nat
    BY <1>1, <1>4, BytesRemoved, BytesType
<1> HIDE DEF ns
<1>6. c \in 0 .. MSGMNB /\ Bytes(ns) <= c
    <2> DEFINE copied == IF m.size <= r.max THEN m.size ELSE r.max
    <2>1. copied \in Nat /\ copied <= m.size
        BY <1>2, <1>3
    <2>2. c = IF q.cbytes > copied THEN q.cbytes - copied ELSE 0
        BY DEF Less
    <2> HIDE DEF copied, c, m, ms
    <2>3. /\ q.cbytes \in Nat /\ q.cbytes <= MSGMNB /\ MSGMNB \in Nat
          /\ Bytes(ns) <= q.cbytes - m.size /\ Bytes(ns) \in Nat
        BY <1>1, <1>2, <1>5
    <2>4. CASE q.cbytes > copied
        BY <1>2, <2>1, <2>2, <2>3, <2>4
    <2>5. CASE ~ (q.cbytes > copied)
        BY <1>2, <2>1, <2>2, <2>3, <2>5
    <2> QED BY <2>4, <2>5
<1> HIDE DEF c
<1>7. p \in Queues /\ p.messages = ns /\ p.cbytes = c /\ p.born = q.born
    BY <1>1, <1>4, <1>6 DEF Queues
<1> HIDE DEF p
(* Where a message of the shorter queue was. *)
<1> DEFINE was(j) == IF j < k THEN j ELSE j + 1
<1>8. \A j \in 1 .. Len(ns) : was(j) \in 1 .. Len(ms) /\ was(j) # k /\ ns[j] = ms[was(j)]
    BY <1>4
<1>9. \A j, l \in 1 .. Len(ns) : j < l => was(j) < was(l)
    BY <1>4
<1>10. \A l \in 1 .. Len(ms) : l # k => \E j \in 1 .. Len(ns) : was(j) = l
    <2> SUFFICES ASSUME NEW l \in 1 .. Len(ms), l # k
                 PROVE  \E j \in 1 .. Len(ns) : was(j) = l
        OBVIOUS
    <2>1. CASE l < k
        <3>1. l \in 1 .. Len(ns) /\ was(l) = l
            BY <1>4, <2>1
        <3> QED BY <3>1
    <2>2. CASE l > k
        <3>1. l - 1 \in 1 .. Len(ns) /\ was(l - 1) = l
            BY <1>4, <2>2
        <3> QED BY <3>1
    <2> QED BY <1>4, <2>1, <2>2
<1> HIDE DEF was
<1>11. InOrder(ms) /\ \A j \in 1 .. Len(ms) : ms[j].serial < n /\ ms[j].serial \in Nat
    <2>1. \A j \in 1 .. Len(ms) : ms[j] \in Msgs
        BY <1>1
    <2> QED BY <2>1 DEF QueueOK, Msgs
<1>12. InOrder(ns) /\ (\A j \in 1 .. Len(ns) : ns[j].serial < n)
    BY <1>8, <1>9, <1>11 DEF InOrder
<1>13. \A l \in 1 .. Len(ms) : l # k => ms[l].serial # m.serial
    <2> SUFFICES ASSUME NEW l \in 1 .. Len(ms), l # k PROVE ms[l].serial # m.serial
        OBVIOUS
    <2>1. l < k \/ k < l
        BY <1>4
    <2>2. (l < k => ms[l].serial < ms[k].serial) /\ (k < l => ms[k].serial < ms[l].serial)
        BY <1>11 DEF InOrder
    <2> QED BY <1>2, <1>11, <2>1, <2>2
<1>14. Serials(ns) = left
    <2>1. Serials(ms) = out
        BY DEF QueueOK
    <2>2. ASSUME NEW x \in Serials(ns) PROVE x \in left
        <3>1. PICK j \in 1 .. Len(ns) : x = ns[j].serial
            BY DEF Serials
        <3>2. x = ms[was(j)].serial /\ was(j) \in 1 .. Len(ms) /\ was(j) # k
            BY <1>8, <3>1
        <3> QED BY <1>13, <2>1, <3>2 DEF Serials
    <2>3. ASSUME NEW x \in left PROVE x \in Serials(ns)
        <3>1. PICK l \in 1 .. Len(ms) : x = ms[l].serial
            BY <2>1 DEF Serials
        <3>2. l # k
            BY <3>1
        <3>3. PICK j \in 1 .. Len(ns) : was(j) = l
            BY <1>10, <3>2
        <3> QED BY <1>8, <3>1, <3>3 DEF Serials
    <2> QED BY <2>2, <2>3
<1>15. m.serial \in out
    BY DEF QueueOK, Serials
<1>16. IsFiniteSet(left) /\ Cardinality(left) = Cardinality(out) - 1
    BY <1>15, FS_RemoveElement DEF QueueOK
<1>17. QueueOK(p, i, n, left)
    <2>1. Len(ms) = Cardinality(out) /\ q.born = i
        BY DEF QueueOK
    <2>2. Len(ns) = Cardinality(left)
        BY <1>4, <1>16, <2>1
    <2> QED BY <1>6, <1>7, <1>12, <1>14, <1>16, <2>1, <2>2 DEF QueueOK
<1> QED BY <1>17 DEF p, c, ns

LEMMA QueueNew ==
    ASSUME NEW p \in Procs, NEW key \in Keys, NEW mode \in Modes, born \in Nat, NEW n \in Nat
    PROVE  QueueOK(NewQueue(p, key, mode), born, n, {})
<1> DEFINE q == NewQueue(p, key, mode)
<1>1. Uid[p] \in Nat /\ Gid[p] \in Nat /\ 0 \in 0 .. MSGMNB
    BY SysvIpcConstants
<1>2. <<>> \in Seq(Msgs) /\ Len(<<>>) = 0
    OBVIOUS
<1>3. q \in Queues /\ q.messages = <<>> /\ q.cbytes = 0 /\ q.born = born
    BY <1>1, <1>2 DEF NewQueue, Queues
<1> HIDE DEF q
<1>4. InOrder(<<>>) /\ (\A k \in 1 .. Len(<<>>) : (<<>>)[k].serial < n) /\ Serials(<<>>) = {}
    BY <1>2 DEF InOrder, Serials
<1>5. IsFiniteSet({}) /\ Cardinality({}) = 0
    BY FS_EmptySet
<1>6. QueueOK(q, born, n, {})
    BY <1>2, <1>3, <1>4, <1>5, NoBytes DEF QueueOK
<1> QED BY <1>6 DEF q

-----------------------------------------------------------------------------
(* The inductive invariant, by the parts of the table. *)
Base ==
    /\ born \in 0 .. MaxIds /\ next_id = born
    /\ live \subseteq Procs /\ sent \in 0 .. MaxSends

QueuesInv ==
    /\ outbox \in [Ids -> SUBSET Nat]
    /\ DOMAIN msg_queues \subseteq Ids
    /\ \A i \in DOMAIN msg_queues : i < born /\ QueueOK(msg_queues[i], i, sent, outbox[i])
    /\ \A i \in Ids \ DOMAIN msg_queues : outbox[i] = {}

SetsInv ==
    /\ DOMAIN sem_sets \subseteq Ids
    /\ \A i \in DOMAIN sem_sets : i < born /\ sem_sets[i] \in SemSets /\ sem_sets[i].born = i

(* A parked call knows which object it was made for: its id is the object's  *)
(* birth.                                                                    *)
ParkedAt(c) == c.call.id \in Ids /\ c.born = c.call.id
CallsInv ==
    /\ DOMAIN pc = Procs
    /\ \A p \in Procs : pc[p] = Idle \/ (p \in live /\ ParkedAt(pc[p]))

IInv == Base /\ QueuesInv /\ SetsInv /\ CallsInv

(* With fewer than 2^31 objects the counter does not come around. *)
FewObjects == MaxIds <= 2147483647

LEMMA InitInv == Init => IInv
<1> SUFFICES ASSUME Init PROVE IInv
    OBVIOUS
<1>1. MaxIds \in Nat /\ MaxSends \in Nat
    BY SysvIpcConstants
<1>2. DOMAIN <<>> = {}
    OBVIOUS
<1>3. Base /\ SetsInv
    BY <1>1, <1>2 DEF Init, Base, SetsInv
<1>4. QueuesInv
    BY <1>1, <1>2 DEF Init, QueuesInv
<1>5. CallsInv
    BY DEF Init, CallsInv
<1> QED BY <1>3, <1>4, <1>5 DEF IInv

-----------------------------------------------------------------------------
LEMMA Later == \A i \in Int, n \in Nat : i < n => i < n + 1
OBVIOUS

(* Calls that park, return, or leave the calls alone. *)
LEMMA ReturnKeeps ==
    ASSUME CallsInv, NEW p \in Procs, Return(p), live' = live
    PROVE  CallsInv'
BY DEF CallsInv, Return

LEMMA ParkKeeps ==
    ASSUME CallsInv, NEW p \in live, live \subseteq Procs, NEW call, NEW o, Park(p, call, o),
           live' = live, call.id \in Ids, o.born = call.id
    PROVE  CallsInv'
<1> DEFINE c == [call |-> call, born |-> o.born]
<1>1. ParkedAt(c)
    BY DEF ParkedAt
<1>2. pc' = [pc EXCEPT ![p] = IF @ = Idle THEN c ELSE @]
    BY DEF Park
<1> HIDE DEF c
<1> QED BY <1>1, <1>2 DEF CallsInv

(* alloc_id gives out the number of objects created before. *)
LEMMA NewIdFresh ==
    ASSUME IInv, FewObjects, NewId
    PROVE  /\ alloc_id = born /\ born \in Ids /\ born' = born + 1
           /\ born' \in 0 .. MaxIds /\ next_id' = born' /\ born \in Nat
<1>1. MaxIds \in Nat
    BY SysvIpcConstants
<1>2. born \in 0 .. MaxIds /\ next_id = born /\ born < MaxIds
    BY DEF IInv, Base, NewId
<1>3. next_id # 2147483647
    BY <1>1, <1>2 DEF FewObjects
<1> QED BY <1>1, <1>2, <1>3 DEF alloc_id, Ids, NewId

LEMMA msggetKeeps ==
    ASSUME IInv, FewObjects, NEW p \in Procs, NEW key \in Keys, NEW mode \in Modes,
           msgget(p, key, mode)
    PROVE  IInv'
<1> DEFINE q == NewQueue(p, key, mode)
<1>1. /\ NewId /\ msg_queues' = With(msg_queues, alloc_id, q)
      /\ UNCHANGED <<sem_sets, pc, live, sent, outbox>>
    BY DEF msgget, history
<1>2. /\ alloc_id = born /\ born \in Ids /\ born' = born + 1
      /\ born' \in 0 .. MaxIds /\ next_id' = born' /\ born \in Nat
    BY <1>1, NewIdFresh
<1>3. sent \in Nat
    BY SysvIpcConstants DEF IInv, Base
<1>4. QueueOK(q, born, sent, {})
    BY <1>2, <1>3, QueueNew
<1> HIDE DEF q
<1>5. born \notin DOMAIN msg_queues /\ DOMAIN msg_queues \subseteq Ids
    BY <1>2 DEF IInv, QueuesInv
<1>6. /\ DOMAIN msg_queues' = DOMAIN msg_queues \cup {born} /\ msg_queues'[born] = q
      /\ \A i \in DOMAIN msg_queues : msg_queues'[i] = msg_queues[i]
    BY <1>1, <1>2, <1>5 DEF With
<1>7. outbox[born] = {}
    BY <1>2, <1>5 DEF IInv, QueuesInv
<1>8. \A i \in Ids : i \in Int
    BY DEF Ids
<1>9. QueuesInv'
    <2>1. \A i \in DOMAIN msg_queues :
             i < born /\ QueueOK(msg_queues[i], i, sent, outbox[i])
        BY DEF IInv, QueuesInv
    <2>2. ASSUME NEW i \in DOMAIN msg_queues'
          PROVE  i < born' /\ QueueOK(msg_queues'[i], i, sent', outbox'[i])
        <3>1. CASE i = born
            BY <1>1, <1>2, <1>4, <1>6, <1>7, <3>1
        <3>2. CASE i \in DOMAIN msg_queues
            <4>1. i \in Int /\ i < born /\ i < born'
                BY <1>2, <1>5, <1>8, <2>1, <3>2, Later
            <4>2. QueueOK(msg_queues[i], i, sent, outbox[i]) /\ msg_queues'[i] = msg_queues[i]
                BY <1>6, <2>1, <3>2
            <4> QED BY <1>1, <4>1, <4>2
        <3> QED BY <1>6, <3>1, <3>2
    <2> QED BY <1>1, <1>2, <1>5, <1>6, <2>2 DEF IInv, QueuesInv
<1>10. SetsInv'
    <2>1. DOMAIN sem_sets \subseteq Ids
        BY DEF IInv, SetsInv
    <2>2. \A i \in DOMAIN sem_sets : i < born /\ sem_sets[i] \in SemSets /\ sem_sets[i].born = i
        BY DEF IInv, SetsInv
    <2>3. \A i \in DOMAIN sem_sets : i < born'
        BY <1>2, <1>8, <2>1, <2>2, Later
    <2> QED BY <1>1, <2>1, <2>2, <2>3 DEF SetsInv, Ids
<1>11. CallsInv' /\ Base'
    BY <1>1, <1>2 DEF IInv, CallsInv, Base
<1> QED BY <1>9, <1>10, <1>11 DEF IInv

LEMMA semgetKeeps ==
    ASSUME IInv, FewObjects, NEW p \in Procs, NEW key \in Keys, NEW mode \in Modes,
           NEW nsems \in NSems, semget(p, key, nsems, mode)
    PROVE  IInv'
<1> DEFINE s == NewSet(p, key, mode, nsems)
<1>1. /\ NewId /\ sem_sets' = With(sem_sets, alloc_id, s)
      /\ UNCHANGED <<msg_queues, pc, live, sent, outbox>>
    BY DEF semget, history
<1>2. /\ alloc_id = born /\ born \in Ids /\ born' = born + 1
      /\ born' \in 0 .. MaxIds /\ next_id' = born' /\ born \in Nat
    BY <1>1, NewIdFresh
<1>3. s \in SemSets /\ s.born = born
    <2>1. [n \in 0 .. nsems - 1 |-> 0] \in [0 .. nsems - 1 -> U16]
        BY Wraps
    <2>2. [n \in 0 .. nsems - 1 |-> 0] \in Vals
        BY <2>1 DEF Vals
    <2>3. Uid[p] \in Nat /\ Gid[p] \in Nat
        BY SysvIpcConstants
    <2> QED BY <1>2, <2>2, <2>3 DEF NewSet, SemSets
<1> HIDE DEF s
<1>4. born \notin DOMAIN sem_sets /\ DOMAIN sem_sets \subseteq Ids
    BY <1>2 DEF IInv, SetsInv
<1>5. /\ DOMAIN sem_sets' = DOMAIN sem_sets \cup {born} /\ sem_sets'[born] = s
      /\ \A i \in DOMAIN sem_sets : sem_sets'[i] = sem_sets[i]
    BY <1>1, <1>2, <1>4 DEF With
<1>6. \A i \in Ids : i \in Int
    BY DEF Ids
<1>7. SetsInv'
    <2>1. \A i \in DOMAIN sem_sets : i < born /\ sem_sets[i] \in SemSets /\ sem_sets[i].born = i
        BY DEF IInv, SetsInv
    <2>2. ASSUME NEW i \in DOMAIN sem_sets'
          PROVE  i < born' /\ sem_sets'[i] \in SemSets /\ sem_sets'[i].born = i
        <3>1. CASE i = born
            BY <1>2, <1>3, <1>5, <3>1
        <3>2. CASE i \in DOMAIN sem_sets
            <4>1. i \in Int /\ i < born /\ i < born'
                BY <1>2, <1>4, <1>6, <2>1, <3>2, Later
            <4> QED BY <1>5, <2>1, <3>2, <4>1
        <3> QED BY <1>5, <3>1, <3>2
    <2>3. DOMAIN sem_sets' \subseteq Ids
        BY <1>2, <1>4, <1>5
    <2> QED BY <2>2, <2>3 DEF SetsInv, Ids
<1>8. QueuesInv'
    <2>1. \A i \in DOMAIN msg_queues : i < born'
        <3>1. \A i \in DOMAIN msg_queues : i \in Int /\ i < born
            BY <1>6 DEF IInv, QueuesInv
        <3> QED BY <1>2, <3>1, Later
    <2> QED BY <1>1, <2>1 DEF IInv, QueuesInv, Ids
<1>9. CallsInv' /\ Base'
    BY <1>1, <1>2 DEF IInv, CallsInv, Base
<1> QED BY <1>7, <1>8, <1>9 DEF IInv

-----------------------------------------------------------------------------
(* A semaphore set with other values of the same semaphores. *)
LEMMA ValsType ==
    /\ \A v \in Vals : v \in [DOMAIN v -> U16] /\ DOMAIN v \subseteq Sems
    /\ \A v \in Vals : \A w \in [DOMAIN v -> U16] : w \in Vals
<1>1. ASSUME NEW v \in Vals
      PROVE  /\ v \in [DOMAIN v -> U16] /\ DOMAIN v \subseteq Sems
             /\ \A w \in [DOMAIN v -> U16] : w \in Vals
    <2>1. PICK n \in NSems : v \in [0 .. n - 1 -> U16]
        BY DEF Vals
    <2>2. DOMAIN v = 0 .. n - 1 /\ v \in [DOMAIN v -> U16]
        BY <2>1
    <2>3. \A w \in [DOMAIN v -> U16] : w \in Vals
        BY <2>2 DEF Vals
    <2>4. NSems \subseteq 1 .. 32
        BY SemaphoreSizes
    <2>5. \E m \in NSems : \A k \in NSems : k <= m
        <3> DEFINE T == {32 - k : k \in NSems}
        <3>1. T \in SUBSET Nat /\ T # {}
            BY <2>4
        <3>2. PICK x \in T : \A y \in T : x <= y
            <4> HIDE DEF T
            <4> QED BY <3>1, NatHasMin
        <3>3. PICK m \in NSems : x = 32 - m
            OBVIOUS
        <3>4. \A k \in NSems : 32 - k \in T
            OBVIOUS
        <3>5. \A k \in NSems : 32 - m <= 32 - k
            <4> HIDE DEF T
            <4> QED BY <3>2, <3>3, <3>4
        <3>6. \A k \in NSems : k <= m
            BY <2>4, <3>5
        <3> QED BY <3>6
    <2> DEFINE m == CHOOSE m \in NSems : \A k \in NSems : k <= m
    <2>6. m \in NSems /\ \A k \in NSems : k <= m
        BY <2>5
    <2>7. Sems = 0 .. m - 1
        BY DEF Sems
    <2> HIDE DEF m
    <2>8. 0 .. n - 1 \subseteq 0 .. m - 1
        BY <2>4, <2>6
    <2> QED BY <2>2, <2>3, <2>7, <2>8
<1> QED BY <1>1

LEMMA NewValuesKeep ==
    ASSUME IInv, NEW id \in DOMAIN sem_sets, NEW v \in Vals,
           sem_sets' = [sem_sets EXCEPT ![id].val = v], born' = born
    PROVE  SetsInv'
<1>1. DOMAIN sem_sets \subseteq Ids /\ sem_sets[id] \in SemSets /\ sem_sets[id].born = id
    BY DEF IInv, SetsInv
<1> DEFINE s == [sem_sets[id] EXCEPT !.val = v]
<1>2. s \in SemSets /\ s.born = id
    BY <1>1 DEF SemSets
<1>3. sem_sets' = [sem_sets EXCEPT ![id] = s]
    OBVIOUS
<1> HIDE DEF s
<1>4. /\ DOMAIN sem_sets' = DOMAIN sem_sets /\ sem_sets'[id] = s
      /\ \A i \in DOMAIN sem_sets : i # id => sem_sets'[i] = sem_sets[i]
    BY <1>3
<1>5. ASSUME NEW i \in DOMAIN sem_sets'
      PROVE  i < born' /\ sem_sets'[i] \in SemSets /\ sem_sets'[i].born = i
    <2>1. i \in DOMAIN sem_sets /\ i < born /\ sem_sets[i] \in SemSets /\ sem_sets[i].born = i
        BY <1>4 DEF IInv, SetsInv
    <2> QED BY <1>2, <1>4, <2>1
<1> QED BY <1>1, <1>4, <1>5 DEF SetsInv, Ids

LEMMA semopKeeps ==
    ASSUME IInv, NEW p \in Procs, NEW id \in Ids, NEW sops \in SopArrays, semop(p, id, sops)
    PROVE  IInv'
<1> DEFINE s == sem_sets[id]
           call == [fn |-> "semop", id |-> id, sops |-> sops]
<1>1. /\ id \in DOMAIN sem_sets /\ p \in live
      /\ sem_sets' = [sem_sets EXCEPT ![id].val = Applied(s, sops)]
      /\ Return(p) \/ Park(p, call, s)
      /\ UNCHANGED <<msg_queues, next_id, live, born, sent, outbox>>
    BY DEF semop, Enters
<1>2. s \in SemSets /\ s.born = id /\ s.val \in Vals
    BY <1>1 DEF IInv, SetsInv, SemSets
<1>3. Applied(s, sops) \in Vals
    <2>1. sops \in Seq(Sops)
        BY SysvIpcArguments DEF Sops
    <2>2. s.val \in [DOMAIN s.val -> U16]
        BY <1>2, ValsType
    <2> HIDE DEF s
    <2>3. Apply(s.val, sops) \in [DOMAIN s.val -> U16]
        BY <2>1, <2>2, ApplyType
    <2>4. Apply(s.val, sops) \in Vals
        BY <1>2, <2>3, ValsType
    <2> QED BY <1>2, <2>4 DEF Applied
<1>4. SetsInv'
    BY <1>1, <1>3, NewValuesKeep
<1>5. CallsInv'
    <2>1. CallsInv /\ live \subseteq Procs /\ call.id = id
        BY DEF IInv, Base
    <2> HIDE DEF call, s
    <2> QED BY <1>1, <1>2, <2>1, ReturnKeeps, ParkKeeps
<1>6. Base' /\ QueuesInv'
    BY <1>1 DEF IInv, Base, QueuesInv, Ids
<1> QED BY <1>4, <1>5, <1>6 DEF IInv

LEMMA SetValuesKeeps ==
    ASSUME IInv, NEW p \in Procs, NEW id \in Ids, NEW vals, NEW perm,
           SetValues(p, id, vals, perm), \A n \in DOMAIN vals : vals[n] \in SetVals
    PROVE  IInv'
<1> DEFINE old == sem_sets[id].val
           v == [n \in DOMAIN old |-> IF n \in DOMAIN vals THEN vals[n] ELSE old[n]]
<1>1. /\ id \in DOMAIN sem_sets /\ sem_sets' = [sem_sets EXCEPT ![id].val = v]
      /\ UNCHANGED <<msg_queues, next_id, pc, live, born, sent, outbox>>
    BY DEF SetValues
<1>2. old \in Vals
    BY <1>1 DEF IInv, SetsInv, SemSets
<1>3. v \in Vals
    <2>1. old \in [DOMAIN old -> U16]
        BY <1>2, ValsType
    <2>2. SetVals \subseteq U16
        BY SemaphoreSizes
    <2> HIDE DEF old
    <2>3. v \in [DOMAIN old -> U16]
        BY <2>1, <2>2
    <2> HIDE DEF v
    <2> QED BY <1>2, <2>3, ValsType
<1> HIDE DEF v
<1>4. SetsInv'
    BY <1>1, <1>3, NewValuesKeep
<1>5. CallsInv' /\ Base' /\ QueuesInv'
    BY <1>1 DEF IInv, Base, QueuesInv, CallsInv, Ids
<1> QED BY <1>4, <1>5 DEF IInv

LEMMA semctl_rmidKeeps ==
    ASSUME IInv, NEW p \in Procs, NEW id \in Ids, semctl_rmid(p, id)
    PROVE  IInv'
<1>1. /\ sem_sets' = Minus(sem_sets, id)
      /\ UNCHANGED <<msg_queues, next_id, pc, live, born, sent, outbox>>
    BY DEF semctl_rmid
<1>2. /\ DOMAIN sem_sets' = DOMAIN sem_sets \ {id}
      /\ \A i \in DOMAIN sem_sets' : sem_sets'[i] = sem_sets[i]
    BY <1>1 DEF Minus
<1>3. SetsInv'
    <2>1. DOMAIN sem_sets' \subseteq Ids
        BY <1>2 DEF IInv, SetsInv
    <2>2. ASSUME NEW i \in DOMAIN sem_sets'
          PROVE  i < born' /\ sem_sets'[i] \in SemSets /\ sem_sets'[i].born = i
        <3>1. i \in DOMAIN sem_sets /\ i < born /\ sem_sets[i] \in SemSets /\ sem_sets[i].born = i
            BY <1>2 DEF IInv, SetsInv
        <3> QED BY <1>1, <1>2, <3>1
    <2> QED BY <2>1, <2>2 DEF SetsInv, Ids
<1>4. CallsInv' /\ Base' /\ QueuesInv'
    BY <1>1 DEF IInv, Base, QueuesInv, CallsInv, Ids
<1> QED BY <1>3, <1>4 DEF IInv

-----------------------------------------------------------------------------
(* One queue changes, and with it what is in flight of it. *)
LEMMA QueueChanges ==
    ASSUME IInv, NEW id \in DOMAIN msg_queues, NEW q, NEW out \in SUBSET Nat,
           msg_queues' = [msg_queues EXCEPT ![id] = q],
           outbox' = [outbox EXCEPT ![id] = out], born' = born,
           sent' = sent \/ sent' = sent + 1, QueueOK(q, id, sent', out)
    PROVE  QueuesInv'
<1>1. /\ DOMAIN msg_queues \subseteq Ids /\ outbox \in [Ids -> SUBSET Nat] /\ sent \in Nat
      /\ \A i \in DOMAIN msg_queues : i < born /\ QueueOK(msg_queues[i], i, sent, outbox[i])
    BY SysvIpcConstants DEF IInv, QueuesInv, Base
<1>2. /\ DOMAIN msg_queues' = DOMAIN msg_queues /\ msg_queues'[id] = q
      /\ \A i \in DOMAIN msg_queues : i # id => msg_queues'[i] = msg_queues[i]
    OBVIOUS
<1>3. /\ outbox' \in [Ids -> SUBSET Nat] /\ outbox'[id] = out
      /\ \A i \in Ids : i # id => outbox'[i] = outbox[i]
    BY <1>1
<1>4. ASSUME NEW i \in DOMAIN msg_queues'
      PROVE  i < born' /\ QueueOK(msg_queues'[i], i, sent', outbox'[i])
    <2>1. CASE i = id
        BY <1>1, <1>2, <1>3, <2>1
    <2>2. CASE i # id
        <3>1. i \in DOMAIN msg_queues /\ i \in Ids /\ QueueOK(msg_queues[i], i, sent, outbox[i])
            BY <1>1, <1>2
        <3>2. QueueOK(msg_queues[i], i, sent', outbox[i])
            BY <1>1, <3>1, QueueLater
        <3> QED BY <1>1, <1>2, <1>3, <2>2, <3>1, <3>2
    <2> QED BY <2>1, <2>2
<1>5. ASSUME NEW i \in Ids \ DOMAIN msg_queues' PROVE outbox'[i] = {}
    BY <1>2, <1>3 DEF IInv, QueuesInv
<1> QED BY <1>1, <1>2, <1>3, <1>4, <1>5 DEF QueuesInv, Ids

LEMMA msgsndKeeps ==
    ASSUME IInv, NEW p \in Procs, NEW id \in Ids, NEW mtype \in MTypes, NEW size \in Sizes,
           msgsnd(p, id, mtype, size)
    PROVE  IInv'
<1> DEFINE q == msg_queues[id]
           call == [fn |-> "msgsnd", id |-> id, mtype |-> mtype, size |-> size]
           m == [mtype |-> mtype, size |-> size, serial |-> sent]
           b == [q EXCEPT !.cbytes = @ + size, !.messages = Append(@, m)]
<1>1. /\ id \in DOMAIN msg_queues /\ p \in live
      /\ UNCHANGED <<sem_sets, next_id, live, born>>
    BY DEF msgsnd, Enters
<1>2. /\ QueueOK(q, id, sent, outbox[id]) /\ sent \in Nat /\ MaxSends \in Nat
      /\ live \subseteq Procs /\ CallsInv /\ outbox \in [Ids -> SUBSET Nat]
    BY <1>1, SysvIpcConstants DEF IInv, QueuesInv, Base
<1>3. SetsInv'
    BY <1>1 DEF IInv, SetsInv, Ids
<1>4. \/ /\ Fits(q, size) /\ sent < MaxSends
         /\ msg_queues' = [msg_queues EXCEPT ![id] = b]
         /\ sent' = sent + 1 /\ outbox' = [outbox EXCEPT ![id] = outbox[id] \cup {sent}]
         /\ Return(p)
      \/ Park(p, call, q) /\ UNCHANGED <<msg_queues, sent, outbox>>
    BY <1>1 DEF msgsnd
<1>5. CASE Park(p, call, q) /\ UNCHANGED <<msg_queues, sent, outbox>>
    <2>1. QueuesInv' /\ Base'
        BY <1>1, <1>5 DEF IInv, QueuesInv, Base, Ids
    <2>2. q.born = id /\ call.id = id
        BY <1>2 DEF QueueOK
    <2> HIDE DEF q, call
    <2>3. CallsInv'
        BY <1>1, <1>2, <1>5, <2>2, ParkKeeps
    <2> QED BY <1>3, <2>1, <2>3 DEF IInv
<1>6. CASE /\ Fits(q, size) /\ sent < MaxSends
           /\ msg_queues' = [msg_queues EXCEPT ![id] = b]
           /\ sent' = sent + 1 /\ outbox' = [outbox EXCEPT ![id] = outbox[id] \cup {sent}]
           /\ Return(p)
    <2>1. QueueOK(b, id, sent + 1, outbox[id] \cup {sent})
        <3> HIDE DEF q
        <3> QED BY <1>2, <1>6, QueueSend
    <2>2. outbox[id] \cup {sent} \in SUBSET Nat
        BY <1>2
    <2> HIDE DEF b
    <2>3. QueuesInv'
        BY <1>1, <1>6, <2>1, <2>2, QueueChanges
    <2>4. Base'
        BY <1>1, <1>2, <1>6 DEF IInv, Base
    <2>5. CallsInv'
        BY <1>1, <1>2, <1>6, ReturnKeeps
    <2> QED BY <1>3, <2>3, <2>4, <2>5 DEF IInv
<1> QED BY <1>4, <1>5, <1>6

(* The message that is received is the first one that matches. *)
LEMMA FirstMatchFirst ==
    ASSUME NEW q \in Queues, NEW r \in Receives, Matching(q, r) # {}
    PROVE  /\ FirstMatch(q, r) \in Matching(q, r) /\ FirstMatch(q, r) \in 1 .. Len(q.messages)
           /\ \A k \in Matching(q, r) : FirstMatch(q, r) <= k
<1>1. q.messages \in Seq(Msgs)
    BY DEF Queues
<1>2. Matching(q, r) \subseteq 1 .. Len(q.messages) /\ Len(q.messages) \in Nat
    BY <1>1 DEF Matching
<1>3. \E x \in Matching(q, r) : \A y \in Matching(q, r) : x <= y
    <2>1. Matching(q, r) \in SUBSET Nat
        BY <1>2
    <2> QED BY <2>1, NatHasMin
<1> QED BY <1>2, <1>3 DEF FirstMatch, Min

LEMMA msgrcvKeeps ==
    ASSUME IInv, NEW p \in Procs, NEW id \in Ids, NEW r \in Receives, msgrcv(p, id, r)
    PROVE  IInv'
<1> DEFINE q == msg_queues[id]
           call == [fn |-> "msgrcv", id |-> id, r |-> r]
           k == FirstMatch(q, r)
           m == q.messages[k]
           b == [q EXCEPT !.messages = RemoveAt(@, k), !.cbytes = Less(q, m, r)]
           out == outbox[id] \ {m.serial}
<1>1. /\ id \in DOMAIN msg_queues /\ p \in live
      /\ UNCHANGED <<sem_sets, next_id, live, born, sent>>
    BY DEF msgrcv, Enters
<1>2. /\ QueueOK(q, id, sent, outbox[id]) /\ sent \in Nat /\ q \in Queues /\ q.born = id
      /\ live \subseteq Procs /\ CallsInv /\ outbox \in [Ids -> SUBSET Nat]
    BY <1>1, SysvIpcConstants DEF IInv, QueuesInv, Base, QueueOK
<1>3. SetsInv' /\ Base'
    BY <1>1 DEF IInv, SetsInv, Base, Ids
<1>4. \/ /\ Matching(q, r) # {}
         /\ msg_queues' = [msg_queues EXCEPT ![id] = b]
         /\ outbox' = [outbox EXCEPT ![id] = out]
         /\ Return(p)
      \/ (Return(p) \/ Park(p, call, q)) /\ UNCHANGED <<msg_queues, outbox>>
    BY <1>1 DEF msgrcv, Removes
<1>5. CASE (Return(p) \/ Park(p, call, q)) /\ UNCHANGED <<msg_queues, outbox>>
    <2>1. QueuesInv'
        BY <1>1, <1>5 DEF IInv, QueuesInv, Ids
    <2>2. call.id = id
        OBVIOUS
    <2> HIDE DEF q, call
    <2>3. CallsInv'
        BY <1>1, <1>2, <1>5, <2>2, ParkKeeps, ReturnKeeps
    <2> QED BY <1>3, <2>1, <2>3 DEF IInv
<1>6. CASE /\ Matching(q, r) # {}
           /\ msg_queues' = [msg_queues EXCEPT ![id] = b]
           /\ outbox' = [outbox EXCEPT ![id] = out]
           /\ Return(p)
    <2>1. k \in 1 .. Len(q.messages)
        <3> HIDE DEF q
        <3> QED BY <1>2, <1>6, FirstMatchFirst
    <2>2. QueueOK(b, id, sent, out)
        <3> HIDE DEF q, k
        <3> QED BY <1>2, <2>1, QueueReceive
    <2>3. out \in SUBSET Nat
        BY <1>2
    <2> HIDE DEF b, out
    <2>4. QueuesInv'
        BY <1>1, <1>6, <2>2, <2>3, QueueChanges
    <2>5. CallsInv'
        BY <1>1, <1>2, <1>6, ReturnKeeps
    <2> QED BY <1>3, <2>4, <2>5 DEF IInv
<1> QED BY <1>4, <1>5, <1>6

LEMMA msgctl_rmidKeeps ==
    ASSUME IInv, NEW p \in Procs, NEW id \in Ids, msgctl_rmid(p, id)
    PROVE  IInv'
<1>1. /\ msg_queues' = Minus(msg_queues, id) /\ outbox' = [outbox EXCEPT ![id] = {}]
      /\ UNCHANGED <<sem_sets, next_id, pc, live, born, sent>>
    BY DEF msgctl_rmid
<1>2. /\ DOMAIN msg_queues' = DOMAIN msg_queues \ {id}
      /\ \A i \in DOMAIN msg_queues' : msg_queues'[i] = msg_queues[i]
    BY <1>1 DEF Minus
<1>3. /\ outbox \in [Ids -> SUBSET Nat] /\ outbox' \in [Ids -> SUBSET Nat] /\ outbox'[id] = {}
      /\ \A i \in Ids : i # id => outbox'[i] = outbox[i]
    BY <1>1 DEF IInv, QueuesInv
<1>4. QueuesInv'
    <2>1. DOMAIN msg_queues' \subseteq Ids
        BY <1>2 DEF IInv, QueuesInv
    <2>2. ASSUME NEW i \in DOMAIN msg_queues'
          PROVE  i < born' /\ QueueOK(msg_queues'[i], i, sent', outbox'[i])
        <3>1. /\ i \in DOMAIN msg_queues /\ i \in Ids /\ i # id
              /\ i < born /\ QueueOK(msg_queues[i], i, sent, outbox[i])
            BY <1>2 DEF IInv, QueuesInv
        <3> QED BY <1>1, <1>2, <1>3, <3>1
    <2>3. ASSUME NEW i \in Ids \ DOMAIN msg_queues' PROVE outbox'[i] = {}
        BY <1>2, <1>3 DEF IInv, QueuesInv
    <2> QED BY <1>3, <2>1, <2>2, <2>3 DEF QueuesInv, Ids
<1>5. CallsInv' /\ Base' /\ SetsInv'
    BY <1>1 DEF IInv, Base, SetsInv, CallsInv, Ids
<1> QED BY <1>4, <1>5 DEF IInv

-----------------------------------------------------------------------------
(* The end of a parked call other than by its own success. *)
LEMMA EndKeeps ==
    ASSUME IInv, NEW p \in Procs, RetryRemoved(p) \/ Interrupt(p) \/ Exit(p)
    PROVE  IInv'
<1>1. /\ Return(p) /\ (live' = live \/ live' = live \ {p})
      /\ UNCHANGED <<msg_queues, sem_sets, next_id, born, sent, outbox>>
    BY DEF RetryRemoved, Interrupt, Exit, history
<1>2. CallsInv'
    BY <1>1 DEF IInv, CallsInv, Return
<1>3. Base' /\ SetsInv' /\ QueuesInv'
    BY <1>1 DEF IInv, Base, SetsInv, QueuesInv, Ids
<1> QED BY <1>2, <1>3 DEF IInv

LEMMA NextInv ==
    ASSUME FewObjects
    PROVE  IInv /\ [Next]_vars => IInv'
<1> SUFFICES ASSUME IInv, [Next]_vars PROVE IInv'
    OBVIOUS
<1>1. ASSUME NEW p \in Procs, Create(p) PROVE IInv'
    BY <1>1, msggetKeeps, semgetKeeps DEF Create
<1>2. ASSUME NEW p \in Procs, Control(p) PROVE IInv'
    <2>1. PICK id \in Ids :
             \/ semctl_rmid(p, id) \/ msgctl_rmid(p, id)
             \/ \E v \in SetVals :
                   semctl_set_all(p, id, v) \/ \E n \in Sems : semctl_setval(p, id, n, v)
        BY <1>2 DEF Control
    <2>2. ASSUME NEW v \in SetVals, semctl_set_all(p, id, v) PROVE IInv'
        <3> DEFINE vals == [n \in DOMAIN sem_sets[id].val |-> v]
        <3>1. SetValues(p, id, vals, {"R", "W"}) /\ \A n \in DOMAIN vals : vals[n] \in SetVals
            BY <2>2 DEF semctl_set_all
        <3> HIDE DEF vals
        <3> QED BY <3>1, SetValuesKeeps
    <2>3. ASSUME NEW v \in SetVals, NEW n \in Sems, semctl_setval(p, id, n, v) PROVE IInv'
        <3> DEFINE vals == [k \in {n} |-> v]
        <3>1. SetValues(p, id, vals, {"W"}) /\ \A k \in DOMAIN vals : vals[k] \in SetVals
            BY <2>3 DEF semctl_setval
        <3> HIDE DEF vals
        <3> QED BY <3>1, SetValuesKeeps
    <2> QED BY <2>1, <2>2, <2>3, semctl_rmidKeeps, msgctl_rmidKeeps
<1>3. ASSUME NEW p \in Procs, Operate(p) PROVE IInv'
    BY <1>3, semopKeeps, msgsndKeeps, msgrcvKeeps DEF Operate
<1>4. ASSUME NEW p \in Procs, RetryRemoved(p) \/ Interrupt(p) \/ Exit(p) PROVE IInv'
    BY <1>4, EndKeeps
<1>5. CASE UNCHANGED vars
    BY <1>5 DEF vars, history, IInv, Base, QueuesInv, SetsInv, CallsInv, Ids
<1> QED BY <1>1, <1>2, <1>3, <1>4, <1>5 DEF Next

LEMMA Invariance ==
    ASSUME FewObjects
    PROVE  Spec => []IInv
BY InitInv, NextInv, PTL DEF Spec

-----------------------------------------------------------------------------
(* What the invariant says of the table. *)
LEMMA InvSame == IInv => SameObject
<1> SUFFICES ASSUME IInv, NEW p \in Procs, pc[p] # Idle
             PROVE  LET i == pc[p].call.id
                    IN  /\ i \in DOMAIN msg_queues => msg_queues[i].born = pc[p].born
                        /\ i \in DOMAIN sem_sets => sem_sets[i].born = pc[p].born
    BY DEF SameObject
<1>1. pc[p].born = pc[p].call.id
    BY DEF IInv, CallsInv, ParkedAt
<1> QED BY <1>1 DEF IInv, QueuesInv, SetsInv, QueueOK

LEMMA InvQueues == IInv => QueuesSound
<1> SUFFICES ASSUME IInv PROVE QueuesSound
    OBVIOUS
<1>1. ASSUME NEW i \in DOMAIN msg_queues
      PROVE  /\ QueueOK(msg_queues[i], i, sent, outbox[i])
             /\ msg_queues[i].messages \in Seq(Msgs)
             /\ msg_queues[i].cbytes \in 0 .. MSGMNB
             /\ {m.serial : m \in Range(msg_queues[i].messages)} = outbox[i]
             /\ Range(msg_queues[i].messages)
                  \subseteq [mtype : MTypes, size : Sizes, serial : 0 .. MaxSends - 1]
    <2> DEFINE ms == msg_queues[i].messages
    <2>1. /\ QueueOK(msg_queues[i], i, sent, outbox[i])
          /\ ms \in Seq(Msgs) /\ msg_queues[i].cbytes \in 0 .. MSGMNB
        BY DEF IInv, QueuesInv, QueueOK, Queues
    <2>2. /\ Serials(ms) = outbox[i]
          /\ \A k \in 1 .. Len(ms) : ms[k].serial < sent
        BY <2>1 DEF QueueOK
    <2>3. sent \in 0 .. MaxSends /\ MaxSends \in Nat
        BY SysvIpcConstants DEF IInv, Base
    <2> HIDE DEF ms
    <2>4. Range(ms) = {ms[k] : k \in 1 .. Len(ms)} /\ \A k \in 1 .. Len(ms) : ms[k] \in Msgs
        BY <2>1 DEF Range
    <2>5. {m.serial : m \in Range(ms)} = outbox[i]
        BY <2>2, <2>4 DEF Serials
    <2>6. ASSUME NEW m \in Range(ms)
          PROVE  m \in [mtype : MTypes, size : Sizes, serial : 0 .. MaxSends - 1]
        <3>1. m \in Msgs /\ m.serial < sent
            BY <2>2, <2>4
        <3> QED BY <2>3, <3>1 DEF Msgs
    <2> QED BY <2>1, <2>5, <2>6 DEF ms
<1>2. QueueWithinLimit
    BY <1>1 DEF QueueWithinLimit, QueueOK
<1>3. NothingLost
    BY <1>1 DEF NothingLost, QueueOK
<1>4. TypeOK
    <2>1. \A i \in DOMAIN sem_sets : \A n \in DOMAIN sem_sets[i].val :
             n \in Sems /\ sem_sets[i].val[n] \in U16
        <3> SUFFICES ASSUME NEW i \in DOMAIN sem_sets, NEW n \in DOMAIN sem_sets[i].val
                     PROVE  n \in Sems /\ sem_sets[i].val[n] \in U16
            OBVIOUS
        <3>1. sem_sets[i].val \in Vals
            BY DEF IInv, SetsInv, SemSets
        <3> QED BY <3>1, ValsType
    <2>2. outbox \in [Ids -> SUBSET (0 .. MaxSends - 1)]
        <3>1. outbox \in [Ids -> SUBSET Nat] /\ \A i \in Ids \ DOMAIN msg_queues : outbox[i] = {}
            BY DEF IInv, QueuesInv
        <3>2. ASSUME NEW i \in DOMAIN msg_queues PROVE outbox[i] \subseteq 0 .. MaxSends - 1
            <4>1. \A m \in Range(msg_queues[i].messages) : m.serial \in 0 .. MaxSends - 1
                BY <1>1
            <4> QED BY <1>1, <4>1
        <3> QED BY <3>1, <3>2
    <2>3. \A p \in Procs : pc[p] = Idle \/ (p \in live /\ pc[p].call.id \in Ids)
        BY DEF IInv, CallsInv, ParkedAt
    <2>4. DOMAIN msg_queues \subseteq Ids /\ DOMAIN sem_sets \subseteq Ids
        BY DEF IInv, QueuesInv, SetsInv
    <2>5. /\ next_id \in 0 .. MaxIds /\ born \in 0 .. MaxIds /\ live \subseteq Procs
          /\ sent \in 0 .. MaxSends
        BY DEF IInv, Base
    <2> QED BY <1>1, <2>1, <2>2, <2>3, <2>4, <2>5 DEF TypeOK
<1> QED BY <1>2, <1>3, <1>4 DEF QueuesSound

-----------------------------------------------------------------------------
(* The order of messages. *)
LEMMA SameQueues ==
    ASSUME \A i \in DOMAIN msg_queues :
              i \in DOMAIN msg_queues' => msg_queues'[i] = msg_queues[i]
    PROVE  OldestFirst
BY DEF OldestFirst

LEMMA SendInOrder ==
    ASSUME IInv, NEW p \in Procs, NEW id \in Ids, NEW mtype \in MTypes, NEW size \in Sizes,
           msgsnd(p, id, mtype, size)
    PROVE  OldestFirst
<1> DEFINE q == msg_queues[id]
           m == [mtype |-> mtype, size |-> size, serial |-> sent]
           ns == Append(q.messages, m)
           b == [q EXCEPT !.cbytes = @ + size, !.messages = ns]
<1>1. \/ msg_queues' = [msg_queues EXCEPT ![id] = b]
      \/ msg_queues' = msg_queues
    BY DEF msgsnd
<1>2. CASE msg_queues' = msg_queues
    BY <1>2, SameQueues
<1>3. CASE msg_queues' = [msg_queues EXCEPT ![id] = b]
    <2>1. id \in DOMAIN msg_queues
        BY DEF msgsnd
    <2>2. q \in Queues /\ q.messages \in Seq(Msgs)
        BY <2>1 DEF IInv, QueuesInv, QueueOK, Queues
    <2>3. \A k \in 1 .. Len(q.messages) : k \in DOMAIN ns /\ ns[k] = q.messages[k]
        BY <2>2
    <2>4. DOMAIN q.messages = 1 .. Len(q.messages)
        BY <2>2
    <2>5. Range(q.messages) \subseteq Range(ns)
        <3> HIDE DEF q, ns
        <3> QED BY <2>3, <2>4 DEF Range
    <2>6. b.messages = ns
        <3> HIDE DEF q, ns
        <3> QED BY <2>2 DEF Queues
    <2> HIDE DEF b, ns
    <2>7. /\ msg_queues'[id].messages = ns
          /\ \A i \in DOMAIN msg_queues : i # id => msg_queues'[i] = msg_queues[i]
        BY <1>3, <2>1, <2>6
    <2> QED BY <2>5, <2>7 DEF OldestFirst
<1> QED BY <1>1, <1>2, <1>3

LEMMA ReceiveInOrder ==
    ASSUME IInv, NEW p \in Procs, NEW id \in Ids, NEW r \in Receives, msgrcv(p, id, r)
    PROVE  OldestFirst
<1> DEFINE q == msg_queues[id]
           ms == q.messages
           f == FirstMatch(q, r)
           ns == RemoveAt(ms, f)
           c == Less(q, ms[f], r)
           b == [q EXCEPT !.messages = ns, !.cbytes = c]
<1>1. \/ Matching(q, r) # {} /\ msg_queues' = [msg_queues EXCEPT ![id] = b]
      \/ msg_queues' = msg_queues
    BY DEF msgrcv
<1>2. CASE msg_queues' = msg_queues
    BY <1>2, SameQueues
<1>3. CASE Matching(q, r) # {} /\ msg_queues' = [msg_queues EXCEPT ![id] = b]
    <2>1. id \in DOMAIN msg_queues
        BY DEF msgrcv
    <2>2. q \in Queues /\ ms \in Seq(Msgs) /\ InOrder(ms)
        BY <2>1 DEF IInv, QueuesInv, QueueOK, Queues
    <2>3. f \in 1 .. Len(ms) /\ f \in Matching(q, r) /\ \A k \in Matching(q, r) : f <= k
        <3> HIDE DEF q
        <3> QED BY <1>3, <2>2, FirstMatchFirst
    <2>4. /\ ns \in Seq(Msgs) /\ Len(ns) = Len(ms) - 1 /\ Len(ms) \in Nat
          /\ \A k \in 1 .. Len(ms) - 1 : ns[k] = IF k < f THEN ms[k] ELSE ms[k + 1]
        <3> HIDE DEF ms, f
        <3> QED BY <2>2, <2>3, Removed
    <2>5. b.messages = ns
        <3> HIDE DEF q, ns, c
        <3> QED BY <2>2 DEF Queues
    <2> HIDE DEF b, ns
    <2>6. /\ msg_queues'[id].messages = ns
          /\ \A i \in DOMAIN msg_queues : i # id => msg_queues'[i] = msg_queues[i]
        BY <1>3, <2>1, <2>5
    <2>7. ASSUME NEW a \in 1 .. Len(ms), a # f PROVE ms[a] \in Range(ns)
        <3>1. DOMAIN ns = 1 .. Len(ms) - 1
            BY <2>4
        <3>2. CASE a < f
            <4>1. a \in 1 .. Len(ms) - 1 /\ ns[a] = ms[a]
                BY <2>3, <2>4, <3>2
            <4> QED BY <3>1, <4>1 DEF Range
        <3>3. CASE a > f
            <4>1. a - 1 \in 1 .. Len(ms) - 1 /\ ns[a - 1] = ms[a]
                BY <2>3, <2>4, <3>3
            <4> QED BY <3>1, <4>1 DEF Range
        <3> QED BY <2>3, <2>7, <3>2, <3>3
    <2>8. ASSUME NEW m \in Range(ms), NEW k \in Range(ms),
                 m.mtype = k.mtype, k.serial < m.serial
          PROVE  m \in Range(ns)
        <3>1. PICK a \in 1 .. Len(ms) : m = ms[a]
            BY <2>2 DEF Range
        <3>2. PICK e \in 1 .. Len(ms) : k = ms[e]
            BY <2>2 DEF Range
        <3>3. ms[a] \in Msgs /\ ms[e] \in Msgs
            BY <2>2
        <3>4. ms[a].serial \in Nat /\ ms[e].serial \in Nat
            BY <3>3 DEF Msgs
        <3>5. e < a
            <4>1. a < e => ms[a].serial < ms[e].serial
                BY <2>2 DEF InOrder
            <4> QED BY <2>4, <2>8, <3>1, <3>2, <3>4, <4>1
        <3>6. a # f
            <4> SUFFICES ASSUME a = f PROVE FALSE
                OBVIOUS
            <4>1. Matches(ms[a], r.type, r.except)
                BY <2>3 DEF Matching
            <4>2. Matches(ms[e], r.type, r.except)
                BY <2>8, <3>1, <3>2, <4>1 DEF Matches
            <4>3. e \in Matching(q, r)
                BY <2>2, <4>2 DEF Matching
            <4>4. f <= e /\ e < f
                BY <2>3, <3>5, <4>3
            <4> QED BY <2>3, <2>4, <4>4
        <3> QED BY <2>7, <3>1, <3>6
    <2> QED BY <2>6, <2>8 DEF OldestFirst
<1> QED BY <1>1, <1>2, <1>3

LEMMA NextInOrder ==
    ASSUME FewObjects
    PROVE  IInv /\ [Next]_vars => [OldestFirst]_vars
<1> SUFFICES ASSUME IInv, Next PROVE OldestFirst
    OBVIOUS
<1>1. ASSUME NEW p \in Procs, Create(p) PROVE OldestFirst
    <2>1. ASSUME NEW key \in Keys, NEW mode \in Modes, msgget(p, key, mode) PROVE OldestFirst
        <3> DEFINE q == NewQueue(p, key, mode)
        <3>1. NewId /\ msg_queues' = With(msg_queues, alloc_id, q)
            BY <2>1 DEF msgget
        <3> HIDE DEF q
        <3>2. alloc_id = born
            BY <3>1, NewIdFresh
        <3>3. alloc_id \notin DOMAIN msg_queues
            BY <3>2 DEF IInv, QueuesInv, Base
        <3>4. \A i \in DOMAIN msg_queues : msg_queues'[i] = msg_queues[i]
            BY <3>1, <3>3 DEF With
        <3> QED BY <3>4, SameQueues
    <2>2. ASSUME NEW key \in Keys, NEW mode \in Modes, NEW n \in NSems, semget(p, key, n, mode)
          PROVE  OldestFirst
        BY <2>2, SameQueues DEF semget
    <2> QED BY <1>1, <2>1, <2>2 DEF Create
<1>2. ASSUME NEW p \in Procs, Control(p) PROVE OldestFirst
    <2>1. PICK id \in Ids : msg_queues' = msg_queues \/ msg_queues' = Minus(msg_queues, id)
        BY <1>2 DEF Control, semctl_rmid, msgctl_rmid, semctl_set_all, semctl_setval, SetValues
    <2>2. \A i \in DOMAIN msg_queues : i \in DOMAIN msg_queues' => msg_queues'[i] = msg_queues[i]
        BY <2>1 DEF Minus
    <2> QED BY <2>2, SameQueues
<1>3. ASSUME NEW p \in Procs, Operate(p) PROVE OldestFirst
    <2>1. ASSUME NEW id \in Ids, NEW sops \in SopArrays, semop(p, id, sops) PROVE OldestFirst
        BY <2>1, SameQueues DEF semop
    <2> QED BY <1>3, <2>1, SendInOrder, ReceiveInOrder DEF Operate
<1>4. ASSUME NEW p \in Procs, RetryRemoved(p) \/ Interrupt(p) \/ Exit(p) PROVE OldestFirst
    BY <1>4, SameQueues DEF RetryRemoved, Interrupt, Exit
<1> QED BY <1>1, <1>2, <1>3, <1>4 DEF Next

-----------------------------------------------------------------------------
(* A call that was parked by EAGAIN and is run again by the host's timer     *)
(* never acts on another object than the one it was made for: RMID followed  *)
(* by a creation does not bring an id back.                                  *)
THEOREM NeverAnotherObject ==
    ASSUME MaxIds <= 2147483647
    PROVE  Spec => []SameObject
<1>1. FewObjects
    BY DEF FewObjects
<1> QED BY <1>1, Invariance, InvSame, PTL

(* A queue holds exactly what was sent and not received, once each, and its  *)
(* count of bytes covers it: E2BIG, truncation, retries, interrupted calls   *)
(* and RMID lose nothing, and msgsnd cannot overfill it.                     *)
THEOREM QueuesHoldWhatWasSent ==
    ASSUME MaxIds <= 2147483647
    PROVE  Spec => []QueuesSound
<1>1. FewObjects
    BY DEF FewObjects
<1> QED BY <1>1, Invariance, InvQueues, PTL

(* msgrcv takes the oldest message of a type, whatever type or range of      *)
(* types it asks for and however often it was retried.                       *)
THEOREM OldestOfItsTypeFirst ==
    ASSUME MaxIds <= 2147483647
    PROVE  Spec => FirstOfItsType
<1>1. FewObjects
    BY DEF FewObjects
<1> QED BY <1>1, Invariance, NextInOrder, PTL DEF Spec, FirstOfItsType

-----------------------------------------------------------------------------
(* Arrays that name no semaphore twice: one that does is checked operation   *)
(* by operation against the value before the call, and wraps (see MCSysvIpc). *)
DistinctSems ==
    \A sops \in SopArrays : \A j, k \in DOMAIN sops : sops[j].num = sops[k].num => j = k

(* What does not change from step to step is at the end what it was. *)
LEMMA Stretch ==
    ASSUME NEW g, NEW a \in Nat, NEW b \in Nat, a <= b,
           \A j \in a + 1 .. b : g[j] = g[j - 1]
    PROVE  g[b] = g[a]
<1> DEFINE T == {j \in a .. b : g[j] # g[a]}
<1>1. T = {}
    <2> SUFFICES ASSUME T # {} PROVE FALSE
        OBVIOUS
    <2>1. PICK k \in T : \A j \in T : k <= j
        <3>1. T \subseteq Nat
            OBVIOUS
        <3> HIDE DEF T
        <3> QED BY <3>1, NatHasMin
    <2>2. k \in a .. b /\ g[k] # g[a]
        OBVIOUS
    <2>3. k # a
        BY <2>2
    <2>4. k \in a + 1 .. b /\ k - 1 \in a .. b /\ ~ (k <= k - 1)
        BY <2>2, <2>3
    <2>5. k - 1 \notin T
        <3> HIDE DEF T
        <3> QED BY <2>1, <2>4
    <2>6. g[k - 1] = g[a] /\ g[k] = g[k - 1]
        BY <2>4, <2>5
    <2> QED BY <2>2, <2>6
<1> QED BY <1>1

(* Apply changes one semaphore by the one operation that names it. *)
LEMMA ApplyOneAt ==
    ASSUME NEW D, NEW v \in [D -> U16], NEW sop \in Sops, NEW n \in D
    PROVE  ApplyOne(v, sop)[n] = IF sop.num = n THEN (v[n] + sop.op) % (U16Max + 1) ELSE v[n]
BY DEF ApplyOne

Unnamed(sops, n) == \A k \in DOMAIN sops : sops[k].num # n
NamedAt(sops, i, n) == \A k \in DOMAIN sops : sops[k].num = n <=> k = i

LEMMA ApplyAt ==
    ASSUME NEW D, NEW val \in [D -> U16], NEW sops \in Seq(Sops), NEW n \in D
    PROVE  /\ Unnamed(sops, n) => Apply(val, sops)[n] = val[n]
           /\ \A i \in DOMAIN sops :
                 NamedAt(sops, i, n) => Apply(val, sops)[n] = (val[n] + sops[i].op) % (U16Max + 1)
<1> DEFINE l == Len(sops)
           h == CHOOSE f : Steps(val, sops, f, l)
<1>1. Apply(val, sops) = h[l]
    BY DEF Apply, Steps
<1>2. l \in 0 .. l /\ l \in Nat /\ DOMAIN sops = 1 .. l
    OBVIOUS
<1>3. \E f : Steps(val, sops, f, l)
    BY <1>2, StepsExist
<1>4. Steps(val, sops, h, l)
    BY <1>3
<1> HIDE DEF h
<1>5. h \in [0 .. l -> [D -> U16]]
    BY <1>2, <1>4, StepsType
<1> DEFINE g == [k \in 0 .. l |-> h[k][n]]
<1>6. g[0] = val[n] /\ g[l] = Apply(val, sops)[n]
    BY <1>1, <1>2, <1>4 DEF Steps
<1>7. ASSUME NEW k \in 1 .. l
      PROVE  g[k] = IF sops[k].num = n THEN (g[k - 1] + sops[k].op) % (U16Max + 1) ELSE g[k - 1]
    <2>1. k \in 0 .. l /\ k - 1 \in 0 .. l /\ k # 0
        BY <1>2
    <2>2. h[k] = ApplyOne(h[k - 1], sops[k])
        BY <1>4, <2>1 DEF Steps
    <2>3. h[k - 1] \in [D -> U16] /\ sops[k] \in Sops
        BY <1>5, <2>1
    <2>4. h[k][n] = IF sops[k].num = n THEN (h[k - 1][n] + sops[k].op) % (U16Max + 1)
                    ELSE h[k - 1][n]
        BY <2>2, <2>3, ApplyOneAt
    <2> QED BY <2>1, <2>4
<1> HIDE DEF g, l
<1>8. ASSUME Unnamed(sops, n) PROVE g[l] = g[0]
    <2>1. \A j \in 0 + 1 .. l : g[j] = g[j - 1]
        BY <1>2, <1>7, <1>8 DEF Unnamed
    <2> QED BY <1>2, <2>1, Stretch
<1>9. ASSUME NEW i \in DOMAIN sops, NamedAt(sops, i, n)
      PROVE  g[l] = (g[0] + sops[i].op) % (U16Max + 1)
    <2>1. i \in 1 .. l /\ i - 1 \in Nat /\ i \in Nat /\ i <= l
        BY <1>2
    <2>2. \A j \in 0 + 1 .. i - 1 : g[j] = g[j - 1]
        <3>1. \A j \in 0 + 1 .. i - 1 : j \in 1 .. l /\ j # i
            BY <1>2, <2>1
        <3> QED BY <1>2, <1>7, <1>9, <3>1 DEF NamedAt
    <2>3. g[i - 1] = g[0]
        <3>1. 0 \in Nat /\ 0 <= i - 1
            BY <2>1
        <3> QED BY <2>1, <2>2, <3>1, Stretch
    <2>4. \A j \in i + 1 .. l : g[j] = g[j - 1]
        <3>1. \A j \in i + 1 .. l : j \in 1 .. l /\ j # i
            BY <1>2, <2>1
        <3> QED BY <1>2, <1>7, <1>9, <3>1 DEF NamedAt
    <2>5. g[l] = g[i]
        BY <1>2, <2>1, <2>4, Stretch
    <2> QED BY <1>7, <1>9, <2>1, <2>3, <2>5 DEF NamedAt
<1> QED BY <1>6, <1>8, <1>9

(* The sum that Takes makes: f counts what the first k operations take. *)
Taken(sops, n, f, m) ==
    f = [k \in 0 .. m |->
            IF k = 0 THEN 0
            ELSE IF sops[k].num = n THEN f[k - 1] - sops[k].op ELSE f[k - 1]]

LEMMA TakenExist ==
    ASSUME NEW sops, NEW n, NEW l \in Nat
    PROVE  \A m \in 0 .. l : \E f : Taken(sops, n, f, m)
<1> DEFINE T == {m \in 0 .. l : ~ \E f : Taken(sops, n, f, m)}
<1> SUFFICES ASSUME T # {} PROVE FALSE
    OBVIOUS
<1>1. PICK m \in T : \A k \in T : m <= k
    <2>1. T \subseteq Nat
        OBVIOUS
    <2> HIDE DEF T
    <2> QED BY <2>1, NatHasMin
<1>2. m \in 0 .. l
    OBVIOUS
<1>3. m # 0
    <2> SUFFICES ASSUME m = 0 PROVE FALSE
        OBVIOUS
    <2> DEFINE f == [k \in 0 .. 0 |-> 0]
    <2>1. f = [k \in 0 .. 0 |-> f[k]] /\ \A k \in 0 .. 0 : k = 0 /\ f[k] = 0
        OBVIOUS
    <2> HIDE DEF f
    <2>2. Taken(sops, n, f, 0)
        BY <2>1 DEF Taken
    <2> QED BY <2>2
<1>4. m - 1 \in 0 .. l /\ m - 1 \notin T
    <2> HIDE DEF T
    <2> QED BY <1>1, <1>2, <1>3
<1>5. PICK f : Taken(sops, n, f, m - 1)
    BY <1>4
<1> DEFINE v == IF sops[m].num = n THEN f[m - 1] - sops[m].op ELSE f[m - 1]
           g == [k \in 0 .. m |-> IF k = m THEN v ELSE f[k]]
<1>6. \A k \in 0 .. m - 1 : f[k] =
         IF k = 0 THEN 0 ELSE IF sops[k].num = n THEN f[k - 1] - sops[k].op ELSE f[k - 1]
    BY <1>5 DEF Taken
<1>7. /\ g = [k \in 0 .. m |-> g[k]] /\ g[m] = v
      /\ \A k \in 0 .. m - 1 : g[k] = f[k]
    BY <1>2
<1>8. v = IF sops[m].num = n THEN g[m - 1] - sops[m].op ELSE g[m - 1]
    <2>1. m - 1 \in 0 .. m - 1
        BY <1>2, <1>3
    <2> QED BY <1>7, <2>1
<1> HIDE DEF g, v
<1>9. ASSUME NEW k \in 0 .. m
      PROVE  g[k] = IF k = 0 THEN 0
                    ELSE IF sops[k].num = n THEN g[k - 1] - sops[k].op ELSE g[k - 1]
    <2>1. CASE k = m
        BY <1>3, <1>7, <1>8, <2>1
    <2>2. CASE k # m
        <3>1. k \in 0 .. m - 1 /\ (k # 0 => k - 1 \in 0 .. m - 1)
            BY <1>2, <2>2
        <3> QED BY <1>6, <1>7, <3>1
    <2> QED BY <2>1, <2>2
<1>10. Taken(sops, n, g, m)
    BY <1>7, <1>9 DEF Taken
<1> QED BY <1>10

LEMMA TakesAt ==
    ASSUME NEW sops \in Seq(Sops), NEW n
    PROVE  /\ Unnamed(sops, n) => Takes(sops, n) = 0
           /\ \A i \in DOMAIN sops :
                 NamedAt(sops, i, n) => Takes(sops, n) = - sops[i].op
<1> DEFINE l == Len(sops)
           g == CHOOSE f : Taken(sops, n, f, l)
<1>1. Takes(sops, n) = g[l]
    BY DEF Takes, Taken
<1>2. l \in 0 .. l /\ l \in Nat /\ DOMAIN sops = 1 .. l
    OBVIOUS
<1>3. \E f : Taken(sops, n, f, l)
    <2> HIDE DEF l
    <2> QED BY <1>2, TakenExist
<1>4. Taken(sops, n, g, l)
    BY <1>3
<1> HIDE DEF g, l
<1>6. g[0] = 0
    BY <1>2, <1>4 DEF Taken
<1>7. ASSUME NEW k \in 1 .. l
      PROVE  g[k] = IF sops[k].num = n THEN g[k - 1] - sops[k].op ELSE g[k - 1]
    <2>1. k \in 0 .. l /\ k # 0
        BY <1>2
    <2> QED BY <1>4, <2>1 DEF Taken
<1>8. ASSUME Unnamed(sops, n) PROVE g[l] = g[0]
    <2>1. \A j \in 0 + 1 .. l : g[j] = g[j - 1]
        BY <1>2, <1>7, <1>8 DEF Unnamed
    <2> QED BY <1>2, <2>1, Stretch
<1>9. ASSUME NEW i \in DOMAIN sops, NamedAt(sops, i, n)
      PROVE  g[l] = - sops[i].op
    <2>1. i \in 1 .. l /\ i - 1 \in Nat /\ i \in Nat /\ i <= l
        BY <1>2
    <2>2. \A j \in 0 + 1 .. i - 1 : g[j] = g[j - 1]
        <3>1. \A j \in 0 + 1 .. i - 1 : j \in 1 .. l /\ j # i
            BY <1>2, <2>1
        <3> QED BY <1>2, <1>7, <1>9, <3>1 DEF NamedAt
    <2>3. g[i - 1] = g[0]
        <3>1. 0 \in Nat /\ 0 <= i - 1
            BY <2>1
        <3> QED BY <2>1, <2>2, <3>1, Stretch
    <2>4. \A j \in i + 1 .. l : g[j] = g[j - 1]
        <3>1. \A j \in i + 1 .. l : j \in 1 .. l /\ j # i
            BY <1>2, <2>1
        <3> QED BY <1>2, <1>7, <1>9, <3>1 DEF NamedAt
    <2>5. g[l] = g[i]
        BY <1>2, <2>1, <2>4, Stretch
    <2>6. g[i] = 0 - sops[i].op
        BY <1>6, <1>7, <1>9, <2>1, <2>3 DEF NamedAt
    <2>7. sops[i].op \in Int
        <3>1. sops[i] \in Sops
            BY <1>9
        <3> QED BY <3>1 DEF Sops
    <2> QED BY <2>5, <2>6, <2>7
<1> QED BY <1>1, <1>6, <1>8, <1>9


-----------------------------------------------------------------------------
(* Tokens: a semaphore has what SETVAL put there and nobody holds, and no     *)
(* more than MaxSupply; an id without a set has none.                         *)
Balanced(v, h, t) == v + h = t /\ 0 <= h /\ t <= MaxSupply

TokensInv ==
    /\ held \in [Ids -> [Sems -> Int]] /\ supply \in [Ids -> [Sems -> Int]]
    /\ \A i \in DOMAIN sem_sets : \A n \in DOMAIN sem_sets[i].val :
          Balanced(sem_sets[i].val[n], held[i][n], supply[i][n])
    /\ \A i \in Ids \ DOMAIN sem_sets : \A n \in Sems : held[i][n] = 0 /\ supply[i][n] = 0

(* Every total of a semaphore fits in the u16 that counts it. *)
TokensFit == DistinctSems /\ MaxSupply <= U16Max

LEMMA InitTokens == Init => TokensInv
<1>1. DOMAIN <<>> = {}
    OBVIOUS
<1> QED BY <1>1 DEF Init, TokensInv

LEMMA SameTokens ==
    ASSUME TokensInv, UNCHANGED <<sem_sets, held, supply>>
    PROVE  TokensInv'
BY DEF TokensInv, Balanced, Ids, Sems

(* One set has new values and totals. *)
LEMMA TokensChange ==
    ASSUME TokensInv, NEW id \in Ids, NEW s, NEW h \in [Sems -> Int], NEW t \in [Sems -> Int],
           DOMAIN sem_sets' = DOMAIN sem_sets \cup {id}, sem_sets'[id] = s,
           \A i \in DOMAIN sem_sets : i # id => sem_sets'[i] = sem_sets[i],
           held' = [held EXCEPT ![id] = h], supply' = [supply EXCEPT ![id] = t],
           \A n \in DOMAIN s.val : Balanced(s.val[n], h[n], t[n])
    PROVE  TokensInv'
<1>1. /\ held' \in [Ids -> [Sems -> Int]] /\ supply' \in [Ids -> [Sems -> Int]]
      /\ held'[id] = h /\ supply'[id] = t
      /\ \A i \in Ids : i # id => held'[i] = held[i] /\ supply'[i] = supply[i]
    BY DEF TokensInv
<1>2. ASSUME NEW i \in DOMAIN sem_sets', NEW n \in DOMAIN sem_sets'[i].val
      PROVE  Balanced(sem_sets'[i].val[n], held'[i][n], supply'[i][n])
    <2>1. CASE i = id
        BY <1>1, <1>2, <2>1
    <2>2. CASE i # id
        <3>1. i \in DOMAIN sem_sets /\ sem_sets'[i] = sem_sets[i]
            BY <2>2
        <3>2. Balanced(sem_sets[i].val[n], held[i][n], supply[i][n])
            BY <1>2, <3>1 DEF TokensInv
        <3>3. i \in Ids => held'[i] = held[i] /\ supply'[i] = supply[i]
            BY <1>1, <2>2
        <3>4. held'[i] = held[i] /\ supply'[i] = supply[i]
            BY <2>2
        <3> QED BY <3>1, <3>2, <3>4
    <2> QED BY <2>1, <2>2
<1>3. ASSUME NEW i \in Ids \ DOMAIN sem_sets', NEW n \in Sems
      PROVE  held'[i][n] = 0 /\ supply'[i][n] = 0
    BY <1>1 DEF TokensInv
<1> QED BY <1>1, <1>2, <1>3 DEF TokensInv, Balanced, Ids, Sems

LEMMA semgetTokens ==
    ASSUME IInv, TokensInv, FewObjects, NEW p \in Procs, NEW key \in Keys, NEW mode \in Modes,
           NEW nsems \in NSems, semget(p, key, nsems, mode)
    PROVE  TokensInv'
<1> DEFINE s == NewSet(p, key, mode, nsems)
<1>1. /\ NewId /\ sem_sets' = With(sem_sets, alloc_id, s) /\ UNCHANGED <<held, supply>>
    BY DEF semget, history
<1>2. alloc_id = born /\ born \in Ids /\ born \in Nat
    BY <1>1, NewIdFresh
<1>3. born \notin DOMAIN sem_sets
    BY <1>2 DEF IInv, SetsInv
<1>4. \A n \in Sems : held[born][n] = 0 /\ supply[born][n] = 0
    BY <1>2, <1>3 DEF TokensInv
<1>5. s.val \in Vals /\ \A n \in DOMAIN s.val : s.val[n] = 0
    <2>1. s.val = [n \in 0 .. nsems - 1 |-> 0]
        BY DEF NewSet
    <2>2. 0 \in U16
        BY DEF U16, U16Max
    <2> QED BY <2>1, <2>2 DEF Vals
<1>6. DOMAIN s.val \subseteq Sems
    <2> HIDE DEF s
    <2> QED BY <1>5, ValsType
<1> HIDE DEF s
<1>7. \A n \in DOMAIN s.val : Balanced(s.val[n], held[born][n], supply[born][n])
    BY <1>4, <1>5, <1>6, SysvIpcConstants DEF Balanced
<1>8. /\ held[born] \in [Sems -> Int] /\ supply[born] \in [Sems -> Int]
      /\ held' = [held EXCEPT ![born] = held[born]]
      /\ supply' = [supply EXCEPT ![born] = supply[born]]
    BY <1>1, <1>2 DEF TokensInv
<1>9. /\ DOMAIN sem_sets' = DOMAIN sem_sets \cup {born} /\ sem_sets'[born] = s
      /\ \A i \in DOMAIN sem_sets : i # born => sem_sets'[i] = sem_sets[i]
    BY <1>1, <1>2 DEF With
<1> QED BY <1>2, <1>7, <1>8, <1>9, TokensChange

(* What semop, SETVAL and SETALL do to the table. *)
LEMMA NewValues ==
    ASSUME IInv, NEW id \in DOMAIN sem_sets, NEW v,
           sem_sets' = [sem_sets EXCEPT ![id].val = v]
    PROVE  /\ DOMAIN sem_sets' = DOMAIN sem_sets \cup {id} /\ sem_sets'[id].val = v
           /\ \A i \in DOMAIN sem_sets : i # id => sem_sets'[i] = sem_sets[i]
           /\ id \in Ids /\ sem_sets[id].val \in Vals
<1>1. sem_sets[id] \in SemSets /\ id \in Ids
    BY DEF IInv, SetsInv
<1>2. sem_sets[id].val \in Vals
    BY <1>1 DEF SemSets
<1> DEFINE s == [sem_sets[id] EXCEPT !.val = v]
<1>3. s.val = v
    BY <1>1 DEF SemSets
<1>4. sem_sets' = [sem_sets EXCEPT ![id] = s]
    OBVIOUS
<1> HIDE DEF s
<1> QED BY <1>1, <1>2, <1>3, <1>4

(* A number in the range of a u16 is not changed by wrapping. *)
LEMMA NoWrap == \A x \in Int : 0 <= x /\ x <= U16Max => x % (U16Max + 1) = x
BY DEF U16Max

(* An array whose every operation can proceed moves tokens between the        *)
(* semaphore and those who hold them.                                        *)
LEMMA AppliedBalances ==
    ASSUME TokensFit, NEW s, s.val \in Vals, NEW sops \in SopArrays, Stops(s, sops) = {},
           NEW n \in DOMAIN s.val, NEW h \in [Sems -> Int], NEW t \in Int,
           \A i \in DOMAIN sops : sops[i].op > 0 => h[sops[i].num] >= sops[i].op,
           Balanced(s.val[n], h[n], t)
    PROVE  Balanced(Apply(s.val, sops)[n], h[n] + Takes(sops, n), t)
<1>0. PICK val : val = s.val
    OBVIOUS
<1>1. sops \in Seq(Sops)
    BY SysvIpcArguments DEF Sops
<1>2. PICK D : n \in D /\ val \in [D -> U16] /\ D \subseteq Sems
    BY <1>0, ValsType
<1>3. val[n] \in Nat /\ h[n] \in Int /\ val[n] \in Int
    <2>1. val[n] \in U16 /\ n \in Sems
        BY <1>2
    <2>2. \A x \in U16 : x \in Nat
        BY DEF U16
    <2>3. val[n] \in Nat
        BY <2>1, <2>2
    <2>4. h[n] \in Int
        BY <2>1
    <2> QED BY <2>3, <2>4
<1>4. ASSUME Unnamed(sops, n)
      PROVE  Balanced(Apply(val, sops)[n], h[n] + Takes(sops, n), t)
    <2>1. Apply(val, sops)[n] = val[n]
        BY <1>1, <1>2, <1>4, ApplyAt
    <2>2. Takes(sops, n) = 0
        BY <1>1, <1>4, TakesAt
    <2> QED BY <1>0, <1>3, <2>1, <2>2 DEF Balanced
<1>5. ASSUME NEW i \in DOMAIN sops, sops[i].num = n
      PROVE  Balanced(Apply(val, sops)[n], h[n] + Takes(sops, n), t)
    <2>1. NamedAt(sops, i, n)
        BY <1>5 DEF TokensFit, DistinctSems, NamedAt
    <2>2. Apply(val, sops)[n] = (val[n] + sops[i].op) % (U16Max + 1)
        BY <1>1, <1>2, <1>5, <2>1, ApplyAt
    <2>3. Takes(sops, n) = - sops[i].op
        BY <1>1, <1>5, <2>1, TakesAt
    <2>4. sops[i].op \in Int
        <3>1. sops[i] \in Sops
            BY <1>1, <1>5
        <3> QED BY <3>1 DEF Sops
    <2>5. ~ Blocks(s, sops[i])
        BY <1>5 DEF Stops
    <2>6. sops[i].op < 0 => val[n] + sops[i].op >= 0
        BY <1>0, <1>3, <1>5, <2>4, <2>5 DEF Blocks
    <2>7. sops[i].op > 0 => h[n] >= sops[i].op
        BY <1>5
    <2>8. MaxSupply \in Nat /\ U16Max \in Nat /\ MaxSupply <= U16Max
        BY SysvIpcConstants DEF TokensFit, U16Max
    <2>9. val[n] + h[n] = t /\ 0 <= h[n] /\ t <= MaxSupply
        BY <1>0 DEF Balanced
    <2>10. 0 <= val[n] + sops[i].op /\ val[n] + sops[i].op <= U16Max
        BY <1>3, <2>4, <2>6, <2>7, <2>8, <2>9
    <2>11. Apply(val, sops)[n] = val[n] + sops[i].op
        BY <1>3, <2>2, <2>4, <2>10, NoWrap
    <2>12. 0 <= h[n] - sops[i].op
        BY <1>3, <2>4, <2>7, <2>9
    <2> QED BY <1>3, <2>3, <2>4, <2>9, <2>11, <2>12 DEF Balanced
<1> QED BY <1>0, <1>4, <1>5 DEF Unnamed

LEMMA TakesType ==
    ASSUME DistinctSems, NEW sops \in SopArrays, NEW n
    PROVE  Takes(sops, n) \in Int
<1>1. sops \in Seq(Sops)
    BY SysvIpcArguments DEF Sops
<1>2. CASE Unnamed(sops, n)
    BY <1>1, <1>2, TakesAt
<1>3. ASSUME NEW i \in DOMAIN sops, sops[i].num = n PROVE Takes(sops, n) \in Int
    <2>1. NamedAt(sops, i, n)
        BY <1>3 DEF DistinctSems, NamedAt
    <2>2. Takes(sops, n) = - sops[i].op
        BY <1>1, <1>3, <2>1, TakesAt
    <2>3. sops[i] \in Sops
        BY <1>1, <1>3
    <2> QED BY <2>2, <2>3 DEF Sops
<1> QED BY <1>2, <1>3 DEF Unnamed

LEMMA semopTokens ==
    ASSUME IInv, TokensInv, TokensFit, NEW p \in Procs, NEW id \in Ids, NEW sops \in SopArrays,
           semop(p, id, sops)
    PROVE  TokensInv'
<1> DEFINE s == sem_sets[id]
           h == held[id]
           t == supply[id]
<1>1. /\ id \in DOMAIN sem_sets /\ supply' = supply
      /\ sem_sets' = [sem_sets EXCEPT ![id].val = Applied(s, sops)]
      /\ \A i \in DOMAIN sops : sops[i].op > 0 => h[sops[i].num] >= sops[i].op
    BY DEF semop, Disciplined
<1>2. \/ Stops(s, sops) = {} /\ held' = [held EXCEPT ![id] = [n \in Sems |-> h[n] + Takes(sops, n)]]
      \/ Stops(s, sops) # {} /\ held' = held
    BY DEF semop, SemVerdict
<1>3. /\ DOMAIN sem_sets' = DOMAIN sem_sets \cup {id} /\ sem_sets'[id].val = Applied(s, sops)
      /\ \A i \in DOMAIN sem_sets : i # id => sem_sets'[i] = sem_sets[i]
      /\ s.val \in Vals
    BY <1>1, NewValues
<1>4. /\ h \in [Sems -> Int] /\ t \in [Sems -> Int] /\ supply' = [supply EXCEPT ![id] = t]
      /\ \A n \in DOMAIN s.val : Balanced(s.val[n], h[n], t[n])
    BY <1>1 DEF TokensInv
<1>5. s.val \in [DOMAIN s.val -> U16] /\ DOMAIN s.val \subseteq Sems /\ sops \in Seq(Sops)
    BY <1>3, ValsType, SysvIpcArguments DEF Sops
<1>6. PICK b : b = sem_sets'[id]
    OBVIOUS
<1> HIDE DEF s, h, t
<1>7. CASE Stops(s, sops) # {} /\ held' = held
    <2>1. b.val = s.val
        BY <1>3, <1>6, <1>7 DEF Applied
    <2>2. \A n \in DOMAIN b.val : Balanced(b.val[n], h[n], t[n])
        BY <1>4, <2>1
    <2>3. held' = [held EXCEPT ![id] = h]
        BY <1>7 DEF TokensInv, h
    <2> QED BY <1>3, <1>4, <1>6, <2>2, <2>3, TokensChange
<1>8. CASE Stops(s, sops) = {} /\ held' = [held EXCEPT ![id] = [n \in Sems |-> h[n] + Takes(sops, n)]]
    <2>1. b.val = Apply(s.val, sops)
        BY <1>3, <1>6, <1>8 DEF Applied
    <2>2. DOMAIN b.val = DOMAIN s.val
        BY <1>5, <2>1, ApplyType
    <2> DEFINE g == [n \in Sems |-> h[n] + Takes(sops, n)]
    <2>3. g \in [Sems -> Int]
        <3>1. \A n : Takes(sops, n) \in Int
            BY TakesType DEF TokensFit
        <3> QED BY <1>4, <3>1
    <2>4. ASSUME NEW n \in DOMAIN b.val PROVE Balanced(b.val[n], g[n], t[n])
        <3>1. n \in DOMAIN s.val /\ n \in Sems /\ t[n] \in Int /\ Balanced(s.val[n], h[n], t[n])
            BY <1>4, <1>5, <2>2, <2>4
        <3>2. Balanced(Apply(s.val, sops)[n], h[n] + Takes(sops, n), t[n])
            BY <1>1, <1>3, <1>4, <1>8, <3>1, AppliedBalances DEF h
        <3> QED BY <2>1, <3>1, <3>2
    <2>5. held' = [held EXCEPT ![id] = g]
        BY <1>8
    <2> HIDE DEF g
    <2> QED BY <1>3, <1>4, <1>6, <2>3, <2>4, <2>5, TokensChange
<1> QED BY <1>2, <1>7, <1>8

LEMMA SetValuesTokens ==
    ASSUME IInv, TokensInv, NEW p \in Procs, NEW id \in Ids, NEW vals, NEW perm,
           SetValues(p, id, vals, perm), \A n \in DOMAIN vals : vals[n] \in SetVals
    PROVE  TokensInv'
<1> DEFINE old == sem_sets[id].val
           v == [n \in DOMAIN old |-> IF n \in DOMAIN vals THEN vals[n] ELSE old[n]]
           h == held[id]
           t == [n \in Sems |-> IF n \in DOMAIN vals THEN vals[n] + h[n] ELSE supply[id][n]]
<1>1. /\ id \in DOMAIN sem_sets /\ sem_sets' = [sem_sets EXCEPT ![id].val = v]
      /\ held' = held /\ supply' = [supply EXCEPT ![id] = t]
      /\ \A n \in DOMAIN vals : vals[n] + h[n] <= MaxSupply
      /\ DOMAIN vals \subseteq DOMAIN old
    BY DEF SetValues
<1>2. /\ DOMAIN sem_sets' = DOMAIN sem_sets \cup {id} /\ sem_sets'[id].val = v
      /\ \A i \in DOMAIN sem_sets : i # id => sem_sets'[i] = sem_sets[i]
      /\ old \in Vals
    <2> HIDE DEF v
    <2> QED BY <1>1, NewValues
<1>3. /\ h \in [Sems -> Int] /\ supply[id] \in [Sems -> Int]
      /\ \A n \in DOMAIN old : Balanced(old[n], h[n], supply[id][n])
    BY <1>1 DEF TokensInv
<1>4. held' = [held EXCEPT ![id] = h]
    BY <1>1 DEF TokensInv
<1>5. DOMAIN old \subseteq Sems
    BY <1>2, ValsType
<1>6. \A n \in DOMAIN vals : vals[n] \in Int
    BY SemaphoreSizes, Wraps
<1> HIDE DEF h, old
<1>7. t \in [Sems -> Int]
    BY <1>3, <1>6
<1>8. ASSUME NEW n \in DOMAIN v PROVE Balanced(v[n], h[n], t[n])
    <2>1. n \in DOMAIN old /\ n \in Sems /\ h[n] \in Int /\ Balanced(old[n], h[n], supply[id][n])
        BY <1>3, <1>5, <1>8
    <2>2. CASE n \in DOMAIN vals
        <3>1. v[n] = vals[n] /\ t[n] = vals[n] + h[n] /\ vals[n] + h[n] <= MaxSupply /\ 0 <= h[n]
            BY <1>1, <2>1, <2>2 DEF Balanced
        <3> QED BY <3>1 DEF Balanced
    <2>3. CASE n \notin DOMAIN vals
        BY <2>1, <2>3
    <2> QED BY <2>2, <2>3
<1> HIDE DEF v, t
<1>9. PICK b : b = sem_sets'[id]
    OBVIOUS
<1>10. \A n \in DOMAIN b.val : Balanced(b.val[n], h[n], t[n])
    BY <1>2, <1>8, <1>9
<1> QED BY <1>1, <1>2, <1>3, <1>4, <1>7, <1>9, <1>10, TokensChange

LEMMA semctl_rmidTokens ==
    ASSUME IInv, TokensInv, NEW p \in Procs, NEW id \in Ids, semctl_rmid(p, id)
    PROVE  TokensInv'
<1> DEFINE z == [n \in Sems |-> 0]
<1>1. /\ id \in DOMAIN sem_sets /\ sem_sets' = Minus(sem_sets, id)
      /\ held' = [held EXCEPT ![id] = z] /\ supply' = [supply EXCEPT ![id] = z]
    BY DEF semctl_rmid
<1>2. z \in [Sems -> Int] /\ \A n \in Sems : z[n] = 0
    OBVIOUS
<1> HIDE DEF z
<1>3. /\ DOMAIN sem_sets' = DOMAIN sem_sets \ {id}
      /\ \A i \in DOMAIN sem_sets' : sem_sets'[i] = sem_sets[i]
    BY <1>1 DEF Minus
<1>4. /\ held' \in [Ids -> [Sems -> Int]] /\ supply' \in [Ids -> [Sems -> Int]]
      /\ held'[id] = z /\ supply'[id] = z
      /\ \A i : i # id => held'[i] = held[i] /\ supply'[i] = supply[i]
    BY <1>1, <1>2 DEF TokensInv
<1>5. ASSUME NEW i \in DOMAIN sem_sets', NEW n \in DOMAIN sem_sets'[i].val
      PROVE  Balanced(sem_sets'[i].val[n], held'[i][n], supply'[i][n])
    <2>1. i \in DOMAIN sem_sets /\ i # id /\ sem_sets'[i] = sem_sets[i]
        BY <1>3
    <2>2. Balanced(sem_sets[i].val[n], held[i][n], supply[i][n])
        BY <1>5, <2>1 DEF TokensInv
    <2> QED BY <1>4, <2>1, <2>2
<1>6. ASSUME NEW i \in Ids \ DOMAIN sem_sets', NEW n \in Sems
      PROVE  held'[i][n] = 0 /\ supply'[i][n] = 0
    BY <1>2, <1>3, <1>4 DEF TokensInv
<1> QED BY <1>4, <1>5, <1>6 DEF TokensInv, Balanced, Ids, Sems

LEMMA NextTokens ==
    ASSUME FewObjects, TokensFit
    PROVE  IInv /\ TokensInv /\ [Next]_vars => TokensInv'
<1> SUFFICES ASSUME IInv, TokensInv, [Next]_vars PROVE TokensInv'
    OBVIOUS
<1>1. CASE UNCHANGED vars
    BY <1>1, SameTokens DEF vars, history
<1>2. ASSUME NEW p \in Procs, Create(p) PROVE TokensInv'
    <2>1. ASSUME NEW key \in Keys, NEW mode \in Modes, msgget(p, key, mode) PROVE TokensInv'
        BY <2>1, SameTokens DEF msgget, history
    <2> QED BY <1>2, <2>1, semgetTokens DEF Create
<1>3. ASSUME NEW p \in Procs, NEW id \in Ids, NEW v \in SetVals, semctl_set_all(p, id, v)
      PROVE  TokensInv'
    <2> DEFINE vals == [n \in DOMAIN sem_sets[id].val |-> v]
    <2>1. SetValues(p, id, vals, {"R", "W"}) /\ \A n \in DOMAIN vals : vals[n] \in SetVals
        BY <1>3 DEF semctl_set_all
    <2> HIDE DEF vals
    <2> QED BY <2>1, SetValuesTokens
<1>4. ASSUME NEW p \in Procs, NEW id \in Ids, NEW v \in SetVals, NEW n \in Sems,
             semctl_setval(p, id, n, v)
      PROVE  TokensInv'
    <2> DEFINE vals == [m \in {n} |-> v]
    <2>1. SetValues(p, id, vals, {"W"}) /\ \A m \in DOMAIN vals : vals[m] \in SetVals
        BY <1>4 DEF semctl_setval
    <2> HIDE DEF vals
    <2> QED BY <2>1, SetValuesTokens
<1>5. ASSUME NEW p \in Procs, Control(p) PROVE TokensInv'
    <2>1. ASSUME NEW id \in Ids, msgctl_rmid(p, id) PROVE TokensInv'
        BY <2>1, SameTokens DEF msgctl_rmid
    <2> QED BY <1>3, <1>4, <1>5, <2>1, semctl_rmidTokens DEF Control
<1>6. ASSUME NEW p \in Procs, Operate(p) PROVE TokensInv'
    <2>1. ASSUME NEW id \in Ids, NEW mtype \in MTypes, NEW size \in Sizes,
                 msgsnd(p, id, mtype, size)
          PROVE  TokensInv'
        BY <2>1, SameTokens DEF msgsnd
    <2>2. ASSUME NEW id \in Ids, NEW r \in Receives, msgrcv(p, id, r) PROVE TokensInv'
        BY <2>2, SameTokens DEF msgrcv
    <2> QED BY <1>6, <2>1, <2>2, semopTokens DEF Operate
<1>7. ASSUME NEW p \in Procs, RetryRemoved(p) \/ Interrupt(p) \/ Exit(p) PROVE TokensInv'
    BY <1>7, SameTokens DEF RetryRemoved, Interrupt, Exit, history
<1> QED BY <1>1, <1>2, <1>5, <1>6, <1>7 DEF Next

(* Tokens are never lost and never made: whatever is parked, retried,        *)
(* interrupted or left behind by a process that exits, a semaphore and those *)
(* who hold its tokens add up to what SETVAL put there.  Arrays name a       *)
(* semaphore once, and no semaphore is given more tokens than a u16 counts.  *)
THEOREM TokensAreConserved ==
    ASSUME MaxIds <= 2147483647, MaxSupply <= U16Max,
           \A sops \in SopArrays : \A j, k \in DOMAIN sops : sops[j].num = sops[k].num => j = k
    PROVE  Spec => []TokensConserved
<1>1. FewObjects /\ TokensFit
    BY DEF FewObjects, TokensFit, DistinctSems
<1>2. TokensInv => TokensConserved
    BY DEF TokensInv, Balanced, TokensConserved
<1> QED BY <1>1, <1>2, Invariance, InitTokens, NextTokens, PTL DEF Spec

=============================================================================
