----------------------------- MODULE PipesProofs -----------------------------
(***************************************************************************)
(* Theorems about Pipes, for any threads, pipes, capacity, batch size and   *)
(* lengths.                                                                 *)
(***************************************************************************)
EXTENDS Pipes, TLAPS, FiniteSetTheorems, WellFoundedInduction

Event == [p : Pipes, w : {"readable", "writable"}]

Frames ==
    [k : {"run", "publish", "cancel"}, t : Threads]
        \cup [k : {"drain"}, events : Seq(Event)] \cup [k : {"process"}, e : Event]
        \cup [k : {"schedule", "readers", "writers"}]

Serves(f) == f.k \in {"run", "publish"}

(* The threads whose calls are being run or answered *)
Busy(td) == {t \in Threads : Run(t) \in Range(td) \/ Publish(t) \in Range(td)}

(* Those of them that are to be run *)
Ran(td) == {t \in Threads : Run(t) \in Range(td)}

(* No call is twice on the stack. *)
Once(td) ==
    \A i, j \in DOMAIN td : Serves(td[i]) /\ Serves(td[j]) /\ td[i].t = td[j].t => i = j

-----------------------------------------------------------------------------
(* Sequences as lists without repetition *)
LEMMA NatHasMin ==
    ASSUME NEW T, T \subseteq Nat, T # {}
    PROVE  \E x \in T : \A y \in T : x <= y
<1> DEFINE R == {ss \in Nat \X Nat : ss[1] < ss[2]}
<1>1. IsWellFoundedOn(R, Nat)
    BY NatLessThanWellFounded, Zenon DEF OpToRel
<1>2. \A x, y \in Nat : ~ (<<y, x>> \in R) => x <= y
    OBVIOUS
<1> HIDE DEF R
<1>3. \E x \in T : \A y \in T : ~ (<<y, x>> \in R)
    BY <1>1, WFMin
<1> QED BY <1>2, <1>3

LEMMA RangeIs ==
    ASSUME NEW S, NEW s \in Seq(S)
    PROVE  /\ Range(s) \subseteq S
           /\ \A i \in 1 .. Len(s) : s[i] \in Range(s)
           /\ \A x \in Range(s) : \E i \in 1 .. Len(s) : s[i] = x
           /\ s # <<>> => Range(s) # {}
           /\ s = <<>> => Range(s) = {}
<1>1. DOMAIN s = 1 .. Len(s) /\ \A i \in 1 .. Len(s) : s[i] \in S
    OBVIOUS
<1>2. s # <<>> => 1 \in 1 .. Len(s)
    OBVIOUS
<1>3. s = <<>> => DOMAIN s = {}
    OBVIOUS
<1> QED BY <1>1, <1>2, <1>3 DEF Range

LEMMA ConcatIs ==
    ASSUME NEW S, NEW s \in Seq(S), NEW r \in Seq(S)
    PROVE  s \o r \in Seq(S) /\ Range(s \o r) = Range(s) \cup Range(r)
<1> DEFINE z == s \o r
           n == Len(s)
           m == Len(r)
<1>1. /\ z \in Seq(S) /\ Len(z) = n + m /\ n \in Nat /\ m \in Nat
      /\ \A i \in 1 .. n : z[i] = s[i]
      /\ \A i \in 1 .. m : z[n + i] = r[i]
      /\ DOMAIN z = 1 .. n + m /\ DOMAIN s = 1 .. n /\ DOMAIN r = 1 .. m
    OBVIOUS
<1> HIDE DEF z, n, m
<1>2. ASSUME NEW i \in 1 .. n + m
      PROVE  z[i] \in Range(s) \cup Range(r)
  <2>1. i \in 1 .. n \/ (i - n \in 1 .. m /\ i = n + (i - n))
    BY <1>1
  <2>2. i \in 1 .. n => z[i] \in Range(s)
    BY <1>1 DEF Range
  <2>3. ASSUME NEW j \in 1 .. m, i = n + j PROVE z[i] \in Range(r)
    BY <1>1, <2>3 DEF Range
  <2> QED BY <2>1, <2>2, <2>3
<1>3. \A i \in 1 .. n : s[i] \in Range(z)
  <2> SUFFICES ASSUME NEW i \in 1 .. n PROVE s[i] \in Range(z)
    OBVIOUS
  <2>1. i \in 1 .. n + m /\ z[i] = s[i]
    BY <1>1
  <2> QED BY <2>1, <1>1 DEF Range
<1>4. \A i \in 1 .. m : r[i] \in Range(z)
  <2> SUFFICES ASSUME NEW i \in 1 .. m PROVE r[i] \in Range(z)
    OBVIOUS
  <2>1. n + i \in 1 .. n + m /\ z[n + i] = r[i]
    BY <1>1
  <2> QED BY <2>1, <1>1 DEF Range
<1>5. Range(z) \subseteq Range(s) \cup Range(r)
  <2>1. \A x \in Range(z) : \E i \in 1 .. n + m : z[i] = x
    BY <1>1 DEF Range
  <2> QED BY <1>2, <2>1
<1>6. Range(s) \subseteq Range(z)
  <2>1. \A x \in Range(s) : \E i \in 1 .. n : s[i] = x
    BY <1>1 DEF Range
  <2> QED BY <1>3, <2>1
<1>7. Range(r) \subseteq Range(z)
  <2>1. \A x \in Range(r) : \E i \in 1 .. m : r[i] = x
    BY <1>1 DEF Range
  <2> QED BY <1>4, <2>1
<1>8. Range(z) = Range(s) \cup Range(r)
    BY <1>5, <1>6, <1>7
<1> QED BY <1>1, <1>8 DEF z

LEMMA ConcatOnce ==
    ASSUME NEW s \in Seq(Frames), NEW r \in Seq(Frames), Once(s), Once(r),
           \A f \in Range(s), g \in Range(r) : Serves(f) /\ Serves(g) => f.t # g.t
    PROVE  Once(s \o r)
<1> DEFINE z == s \o r
           n == Len(s)
           m == Len(r)
<1>1. /\ n \in Nat /\ m \in Nat
      /\ \A i \in 1 .. n : z[i] = s[i]
      /\ \A i \in 1 .. m : z[n + i] = r[i]
      /\ DOMAIN z = 1 .. n + m /\ DOMAIN s = 1 .. n /\ DOMAIN r = 1 .. m
    OBVIOUS
<1> SUFFICES ASSUME NEW i \in DOMAIN z, NEW j \in DOMAIN z,
                    Serves(z[i]), Serves(z[j]), z[i].t = z[j].t
             PROVE  i = j
    BY DEF Once
<1> HIDE DEF z, n, m
<1>2. \A x \in DOMAIN z :
        \/ x \in 1 .. n /\ z[x] = s[x]
        \/ x - n \in 1 .. m /\ z[x] = r[x - n]
  <2> SUFFICES ASSUME NEW x \in 1 .. n + m, x \notin 1 .. n
               PROVE  x - n \in 1 .. m /\ z[x] = r[x - n]
    BY <1>1
  <2>1. x - n \in 1 .. m /\ n + (x - n) = x
    BY <1>1
  <2> QED BY <2>1, <1>1
<1>3. CASE i \in 1 .. n /\ z[i] = s[i] /\ j \in 1 .. n /\ z[j] = s[j]
    BY <1>1, <1>3 DEF Once
<1>4. CASE i \in 1 .. n /\ z[i] = s[i] /\ j - n \in 1 .. m /\ z[j] = r[j - n]
    BY <1>1, <1>4 DEF Range
<1>5. CASE i - n \in 1 .. m /\ z[i] = r[i - n] /\ j \in 1 .. n /\ z[j] = s[j]
    BY <1>1, <1>5 DEF Range
<1>6. CASE i - n \in 1 .. m /\ z[i] = r[i - n] /\ j - n \in 1 .. m /\ z[j] = r[j - n]
  <2>1. i - n = j - n
    BY <1>1, <1>6 DEF Once
  <2> QED BY <2>1, <1>1
<1> QED BY <1>2, <1>3, <1>4, <1>5, <1>6

LEMMA TailIs ==
    ASSUME NEW S, NEW s \in Seq(S), s # <<>>
    PROVE  /\ Head(s) \in S /\ Tail(s) \in Seq(S)
           /\ Range(s) = {Head(s)} \cup Range(Tail(s))
<1> DEFINE r == Tail(s)
<1>1. /\ r \in Seq(S) /\ Len(s) \in Nat /\ Len(r) \in Nat /\ Len(s) = Len(r) + 1
      /\ Head(s) = s[1] /\ Head(s) \in S
      /\ \A i \in 1 .. Len(r) : r[i] = s[i + 1]
      /\ DOMAIN s = 1 .. Len(s) /\ DOMAIN r = 1 .. Len(r)
    OBVIOUS
<1> HIDE DEF r
<1>2. \A i \in 1 .. Len(s) : i = 1 \/ (i - 1 \in 1 .. Len(r) /\ s[i] = r[i - 1])
  <2> SUFFICES ASSUME NEW i \in 1 .. Len(s), i # 1
               PROVE  i - 1 \in 1 .. Len(r) /\ s[i] = r[i - 1]
    OBVIOUS
  <2>1. i - 1 \in 1 .. Len(r) /\ (i - 1) + 1 = i
    BY <1>1
  <2> QED BY <2>1, <1>1
<1>3. \A i \in 1 .. Len(r) : i + 1 \in 1 .. Len(s) /\ r[i] = s[i + 1]
    BY <1>1
<1>4. 1 \in 1 .. Len(s)
    BY <1>1
<1>5. Range(s) \subseteq {Head(s)} \cup Range(r)
    BY <1>1, <1>2 DEF Range
<1>6. {Head(s)} \cup Range(r) \subseteq Range(s)
    BY <1>1, <1>3, <1>4 DEF Range
<1> QED BY <1>1, <1>5, <1>6 DEF r

LEMMA TailOnce ==
    ASSUME NEW s \in Seq(Frames), s # <<>>, Once(s)
    PROVE  /\ Once(Tail(s))
           /\ Serves(Head(s)) => \A g \in Range(Tail(s)) : Serves(g) => g.t # Head(s).t
<1> DEFINE r == Tail(s)
<1>1. /\ Len(s) \in Nat /\ Len(r) \in Nat /\ Len(s) = Len(r) + 1 /\ Head(s) = s[1]
      /\ \A i \in 1 .. Len(r) : r[i] = s[i + 1]
      /\ DOMAIN s = 1 .. Len(s) /\ DOMAIN r = 1 .. Len(r)
    OBVIOUS
<1> HIDE DEF r
<1>2. \A i \in 1 .. Len(r) : i + 1 \in 1 .. Len(s) /\ r[i] = s[i + 1] /\ i + 1 # 1
    BY <1>1
<1>3. 1 \in 1 .. Len(s)
    BY <1>1
<1>4. \A i, j \in 1 .. Len(r) : i + 1 = j + 1 => i = j
    BY <1>1
<1>5. Once(r)
    BY <1>1, <1>2, <1>4 DEF Once
<1>6. Serves(Head(s)) => \A g \in Range(r) : Serves(g) => g.t # Head(s).t
    BY <1>1, <1>2, <1>3 DEF Once, Range
<1> QED BY <1>5, <1>6 DEF r

LEMMA ConcatDistinct ==
    ASSUME NEW S, NEW s \in Seq(S), NEW r \in Seq(S), IsInjective(s), IsInjective(r),
           Range(s) \cap Range(r) = {}
    PROVE  IsInjective(s \o r)
<1> DEFINE z == s \o r
           n == Len(s)
           m == Len(r)
<1>1. /\ n \in Nat /\ m \in Nat
      /\ \A i \in 1 .. n : z[i] = s[i]
      /\ \A i \in 1 .. m : z[n + i] = r[i]
      /\ DOMAIN z = 1 .. n + m /\ DOMAIN s = 1 .. n /\ DOMAIN r = 1 .. m
    OBVIOUS
<1> SUFFICES ASSUME NEW i \in DOMAIN z, NEW j \in DOMAIN z, z[i] = z[j]
             PROVE  i = j
    BY DEF IsInjective
<1> HIDE DEF z, n, m
<1>2. \A x \in DOMAIN z :
        \/ x \in 1 .. n /\ z[x] = s[x]
        \/ x - n \in 1 .. m /\ z[x] = r[x - n]
  <2> SUFFICES ASSUME NEW x \in 1 .. n + m, x \notin 1 .. n
               PROVE  x - n \in 1 .. m /\ z[x] = r[x - n]
    BY <1>1
  <2>1. x - n \in 1 .. m /\ n + (x - n) = x
    BY <1>1
  <2> QED BY <2>1, <1>1
<1>3. CASE i \in 1 .. n /\ z[i] = s[i] /\ j \in 1 .. n /\ z[j] = s[j]
    BY <1>1, <1>3 DEF IsInjective
<1>4. CASE i \in 1 .. n /\ z[i] = s[i] /\ j - n \in 1 .. m /\ z[j] = r[j - n]
    BY <1>1, <1>4 DEF Range
<1>5. CASE i - n \in 1 .. m /\ z[i] = r[i - n] /\ j \in 1 .. n /\ z[j] = s[j]
    BY <1>1, <1>5 DEF Range
<1>6. CASE i - n \in 1 .. m /\ z[i] = r[i - n] /\ j - n \in 1 .. m /\ z[j] = r[j - n]
  <2>1. i - n = j - n
    BY <1>1, <1>6 DEF IsInjective
  <2> QED BY <2>1, <1>1
<1> QED BY <1>2, <1>3, <1>4, <1>5, <1>6

(* A list of threads, each once, that are exactly T *)
ListOf(s, T) == s \in Seq(Threads) /\ IsInjective(s) /\ Range(s) = T

LEMMA Singleton ==
    ASSUME NEW S, NEW x \in S
    PROVE  <<x>> \in Seq(S) /\ IsInjective(<<x>>) /\ Range(<<x>>) = {x}
<1>1. <<x>> \in Seq(S) /\ DOMAIN <<x>> = {1} /\ <<x>>[1] = x
    OBVIOUS
<1> DEFINE z == <<x>>
<1> HIDE DEF z
<1>2. z \in Seq(S) /\ DOMAIN z = {1} /\ z[1] = x
    BY <1>1 DEF z
<1>3. z \in Seq(S) /\ IsInjective(z) /\ Range(z) = {x}
    BY <1>2 DEF Range, IsInjective
<1> QED BY <1>3 DEF z

LEMMA EmptyList == ListOf(<<>>, {})
<1>1. <<>> \in Seq(Threads) /\ DOMAIN <<>> = {}
    OBVIOUS
<1> QED BY <1>1 DEF ListOf, IsInjective, Range

LEMMA AppendIs ==
    ASSUME NEW S, NEW s \in Seq(S), NEW x \in S
    PROVE  /\ Append(s, x) \in Seq(S) /\ Range(Append(s, x)) = Range(s) \cup {x}
           /\ IsInjective(s) /\ x \notin Range(s) => IsInjective(Append(s, x))
<1>1. Append(s, x) = s \o <<x>>
    OBVIOUS
<1>2. <<x>> \in Seq(S) /\ IsInjective(<<x>>) /\ Range(<<x>>) = {x}
    BY Singleton
<1> DEFINE r == <<x>>
<1> HIDE DEF r
<1>3. r \in Seq(S) /\ IsInjective(r) /\ Range(r) = {x} /\ Append(s, x) = s \o r
    BY <1>1, <1>2 DEF r
<1> HIDE <1>1, <1>2
<1>4. s \o r \in Seq(S) /\ Range(s \o r) = Range(s) \cup Range(r)
    BY <1>3, ConcatIs
<1>5. IsInjective(s) /\ x \notin Range(s) => IsInjective(s \o r)
    BY <1>3, ConcatDistinct
<1> QED BY <1>3, <1>4, <1>5

LEMMA AddIs ==
    ASSUME NEW s, NEW T, ListOf(s, T), NEW t \in Threads
    PROVE  ListOf(Add(s, t), T \cup {t})
<1>1. s \in Seq(Threads) /\ IsInjective(s) /\ Range(s) = T
    BY DEF ListOf
<1>2. CASE t \in T
  <2>1. Add(s, t) = s /\ T \cup {t} = T
    BY <1>1, <1>2 DEF Add
  <2> QED BY <2>1
<1>3. CASE t \notin T
  <2>1. Add(s, t) = Append(s, t)
    BY <1>1, <1>3 DEF Add
  <2> QED BY <1>1, <1>3, <2>1, AppendIs DEF ListOf
<1> QED BY <1>2, <1>3

-----------------------------------------------------------------------------
(* filter, entry by entry *)
Keeps(s, t, f, k) ==
    f = [n \in 0 .. k |-> IF n = 0 THEN <<>> ELSE KeepOne(f[n - 1], s[n], t)]

LEMMA KeepsExist ==
    ASSUME NEW s \in Seq(Threads), NEW t
    PROVE  \A k \in 0 .. Len(s) : \E f : Keeps(s, t, f, k)
<1> DEFINE T == {k \in 0 .. Len(s) : ~ \E f : Keeps(s, t, f, k)}
<1> SUFFICES ASSUME T # {} PROVE FALSE
    OBVIOUS
<1>1. PICK k \in T : \A j \in T : k <= j
  <2>1. T \subseteq Nat
    OBVIOUS
  <2> HIDE DEF T
  <2> QED BY <2>1, NatHasMin
<1>2. k \in 0 .. Len(s)
    OBVIOUS
<1>3. k # 0
  <2> SUFFICES ASSUME k = 0 PROVE FALSE
    OBVIOUS
  <2> DEFINE f == [n \in 0 .. 0 |-> <<>>]
  <2>1. f = [n \in 0 .. 0 |-> f[n]] /\ \A n \in 0 .. 0 : n = 0 /\ f[n] = <<>>
    OBVIOUS
  <2> HIDE DEF f
  <2>2. Keeps(s, t, f, 0)
    BY <2>1 DEF Keeps
  <2> QED BY <2>2
<1>4. k - 1 \in 0 .. Len(s) /\ k - 1 \notin T
  <2> HIDE DEF T
  <2> QED BY <1>1, <1>2, <1>3
<1>5. PICK f : Keeps(s, t, f, k - 1)
    BY <1>4
<1> DEFINE v == KeepOne(f[k - 1], s[k], t)
           g == [n \in 0 .. k |-> IF n = k THEN v ELSE f[n]]
<1>6. \A n \in 0 .. k - 1 : f[n] = IF n = 0 THEN <<>> ELSE KeepOne(f[n - 1], s[n], t)
    BY <1>5 DEF Keeps
<1>7. /\ g = [n \in 0 .. k |-> g[n]] /\ g[k] = v
      /\ \A n \in 0 .. k - 1 : g[n] = f[n]
    BY <1>2
<1>8. v = KeepOne(g[k - 1], s[k], t)
  <2>1. k - 1 \in 0 .. k - 1
    BY <1>2, <1>3
  <2> QED BY <1>7, <2>1
<1> HIDE DEF g, v
<1>9. ASSUME NEW n \in 0 .. k
      PROVE  g[n] = IF n = 0 THEN <<>> ELSE KeepOne(g[n - 1], s[n], t)
  <2>1. CASE n = k
    BY <1>3, <1>7, <1>8, <2>1
  <2>2. CASE n # k
    <3>1. n \in 0 .. k - 1 /\ (n # 0 => n - 1 \in 0 .. k - 1)
        BY <1>2, <2>2
    <3> QED BY <1>6, <1>7, <3>1
  <2> QED BY <2>1, <2>2
<1>10. Keeps(s, t, g, k)
    BY <1>7, <1>9 DEF Keeps
<1> QED BY <1>10

LEMMA DropIs ==
    ASSUME NEW s, NEW T, ListOf(s, T), NEW t
    PROVE  ListOf(Drop(s, t), T \ {t})
<1> DEFINE n == Len(s)
           h == CHOOSE f : Keeps(s, t, f, n)
           U(k) == {s[i] : i \in 1 .. k} \ {t}
<1>0. /\ s \in Seq(Threads) /\ IsInjective(s) /\ Range(s) = T /\ DOMAIN s = 1 .. n
      /\ n \in Nat /\ n \in 0 .. n
    BY DEF ListOf
<1>1. Drop(s, t) = h[n]
    BY DEF Drop, Keeps
<1>3. \E f : Keeps(s, t, f, n)
    BY <1>0, KeepsExist
<1>4. Keeps(s, t, h, n)
    BY <1>3
<1> HIDE DEF h
<1>5. \A k \in 0 .. n : h[k] = IF k = 0 THEN <<>> ELSE KeepOne(h[k - 1], s[k], t)
    BY <1>4 DEF Keeps
<1> HIDE DEF n, U
<1> DEFINE B == {k \in 0 .. n : ~ ListOf(h[k], U(k))}
<1>6. B = {}
  <2> SUFFICES ASSUME B # {} PROVE FALSE
    OBVIOUS
  <2>1. PICK k \in B : \A j \in B : k <= j
    <3>1. B \subseteq Nat
        OBVIOUS
    <3> HIDE DEF B
    <3> QED BY <3>1, NatHasMin
  <2>2. k \in 0 .. n /\ ~ ListOf(h[k], U(k))
    OBVIOUS
  <2>3. k # 0
    <3>1. h[0] = <<>> /\ U(0) = {}
        BY <1>0, <1>5 DEF U
    <3> QED BY <3>1, EmptyList, <2>2
  <2>4. k - 1 \in 0 .. n /\ k - 1 \notin B /\ k \in 1 .. n
    <3> HIDE DEF B
    <3> QED BY <2>1, <2>2, <2>3, <1>0
  <2>5. ListOf(h[k - 1], U(k - 1))
    BY <2>4
  <2>6. h[k] = KeepOne(h[k - 1], s[k], t)
    BY <2>2, <2>3, <1>5
  <2> HIDE DEF B
  <2>7. s[k] \in Threads /\ s[k] \notin U(k - 1)
    <3>1. \A i \in 1 .. k - 1 : i \in DOMAIN s /\ k \in DOMAIN s /\ i # k
        BY <2>4, <1>0
    <3>2. \A i \in 1 .. k - 1 : s[i] # s[k]
        BY <3>1, <1>0 DEF IsInjective
    <3> QED BY <3>2, <2>4, <1>0 DEF U
  <2>8. U(k) = (U(k - 1) \cup {s[k]}) \ {t}
    <3>1. \A i \in 1 .. k : i = k \/ i \in 1 .. k - 1
        BY <2>4
    <3>2. k \in 1 .. k /\ \A i \in 1 .. k - 1 : i \in 1 .. k
        BY <2>4
    <3> QED BY <3>1, <3>2 DEF U
  <2>9. t \notin U(k - 1)
    BY DEF U
  <2>10. CASE s[k] = t
    <3>1. h[k] = h[k - 1] /\ U(k) = U(k - 1)
        BY <2>6, <2>8, <2>9, <2>10 DEF KeepOne
    <3> QED BY <3>1, <2>5, <2>2
  <2>11. CASE s[k] # t
    <3>1. h[k] = Append(h[k - 1], s[k]) /\ U(k) = U(k - 1) \cup {s[k]}
        BY <2>6, <2>8, <2>9, <2>11 DEF KeepOne
    <3>2. ListOf(Append(h[k - 1], s[k]), U(k - 1) \cup {s[k]})
        BY <2>5, <2>7, AppendIs DEF ListOf
    <3> QED BY <3>1, <3>2, <2>2
  <2> QED BY <2>10, <2>11
<1>7. ListOf(h[n], U(n))
    BY <1>0, <1>6
<1>8. U(n) = T \ {t}
    BY <1>0 DEF U, Range
<1> QED BY <1>1, <1>7, <1>8

-----------------------------------------------------------------------------
(* Sequences one after the other *)
Joins(q, f, k) == f = [i \in 1 .. k |-> IF i = 1 THEN q[i] ELSE f[i - 1] \o q[i]]

LEMMA JoinsExist ==
    ASSUME NEW m \in Nat, NEW q
    PROVE  \A k \in 1 .. m : \E f : Joins(q, f, k)
<1> DEFINE T == {k \in 1 .. m : ~ \E f : Joins(q, f, k)}
<1> SUFFICES ASSUME T # {} PROVE FALSE
    OBVIOUS
<1>1. PICK k \in T : \A j \in T : k <= j
  <2>1. T \subseteq Nat
    OBVIOUS
  <2> HIDE DEF T
  <2> QED BY <2>1, NatHasMin
<1>2. k \in 1 .. m
    OBVIOUS
<1>3. k # 1
  <2> SUFFICES ASSUME k = 1 PROVE FALSE
    OBVIOUS
  <2> DEFINE f == [n \in 1 .. 1 |-> q[1]]
  <2>1. f = [n \in 1 .. 1 |-> f[n]] /\ \A n \in 1 .. 1 : n = 1 /\ f[n] = q[1]
    OBVIOUS
  <2> HIDE DEF f
  <2>2. Joins(q, f, 1)
    BY <2>1 DEF Joins
  <2> QED BY <2>2
<1>4. k - 1 \in 1 .. m /\ k - 1 \notin T
  <2> HIDE DEF T
  <2> QED BY <1>1, <1>2, <1>3
<1>5. PICK f : Joins(q, f, k - 1)
    BY <1>4
<1> DEFINE v == f[k - 1] \o q[k]
           g == [n \in 1 .. k |-> IF n = k THEN v ELSE f[n]]
<1>6. \A n \in 1 .. k - 1 : f[n] = IF n = 1 THEN q[n] ELSE f[n - 1] \o q[n]
    BY <1>5 DEF Joins
<1>7. /\ g = [n \in 1 .. k |-> g[n]] /\ g[k] = v
      /\ \A n \in 1 .. k - 1 : g[n] = f[n]
  <2> HIDE DEF v
  <2> QED BY <1>2
<1>8. v = g[k - 1] \o q[k]
  <2>1. k - 1 \in 1 .. k - 1
    BY <1>2, <1>3
  <2> QED BY <1>7, <2>1
<1> HIDE DEF g, v
<1>9. ASSUME NEW n \in 1 .. k
      PROVE  g[n] = IF n = 1 THEN q[n] ELSE g[n - 1] \o q[n]
  <2>1. CASE n = k
    BY <1>3, <1>7, <1>8, <2>1
  <2>2. CASE n # k
    <3>1. n \in 1 .. k - 1 /\ (n # 1 => n - 1 \in 1 .. k - 1)
        BY <1>2, <2>2
    <3> QED BY <1>6, <1>7, <3>1
  <2> QED BY <2>1, <2>2
<1>10. Joins(q, g, k)
    BY <1>7, <1>9 DEF Joins
<1> QED BY <1>10

(* Of the first k sequences: what they hold, once if nothing is held twice *)
HeldBy(q, k) == UNION {Range(q[i]) : i \in 1 .. k}
Apart2(q, k) ==
    \A i, j \in 1 .. k : IsInjective(q[i]) /\ (i # j => Range(q[i]) \cap Range(q[j]) = {})
Joined(S, q, k, s) ==
    s \in Seq(S) /\ Range(s) = HeldBy(q, k) /\ (Apart2(q, k) => IsInjective(s))

LEMMA JoinOne ==
    ASSUME NEW S, NEW m \in Nat, NEW q \in [1 .. m -> Seq(S)], NEW k \in 1 .. m, k # 1,
           NEW s, Joined(S, q, k - 1, s)
    PROVE  Joined(S, q, k, s \o q[k])
<1>1. s \in Seq(S) /\ q[k] \in Seq(S) /\ Range(s) = HeldBy(q, k - 1)
    BY DEF Joined
<1>2. s \o q[k] \in Seq(S) /\ Range(s \o q[k]) = Range(s) \cup Range(q[k])
    BY <1>1, ConcatIs
<1>3. /\ \A i \in 1 .. k : i = k \/ i \in 1 .. k - 1
      /\ k \in 1 .. k /\ \A i \in 1 .. k - 1 : i \in 1 .. k /\ i # k
    OBVIOUS
<1>4. HeldBy(q, k) = HeldBy(q, k - 1) \cup Range(q[k])
    BY <1>3 DEF HeldBy
<1>5. ASSUME Apart2(q, k) PROVE IsInjective(s \o q[k])
  <2>1. Apart2(q, k - 1) /\ IsInjective(q[k])
    BY <1>3, <1>5 DEF Apart2
  <2>2. \A i \in 1 .. k - 1 : Range(q[i]) \cap Range(q[k]) = {}
    BY <1>3, <1>5 DEF Apart2
  <2>3. Range(s) \cap Range(q[k]) = {}
    BY <1>1, <2>2 DEF HeldBy
  <2>4. IsInjective(s)
    BY <2>1 DEF Joined
  <2> QED BY <1>1, <2>1, <2>3, <2>4, ConcatDistinct
<1> QED BY <1>1, <1>2, <1>4, <1>5 DEF Joined

LEMMA FlattenIs ==
    ASSUME NEW S, NEW m \in Nat, NEW q \in [1 .. m -> Seq(S)]
    PROVE  Joined(S, q, m, FlattenSeq(q))
<1>1. q \in Seq(Seq(S)) /\ Len(q) = m
    OBVIOUS
<1>2. CASE m = 0
  <2>1. FlattenSeq(q) = q /\ q = <<>>
    BY <1>1, <1>2 DEF FlattenSeq
  <2>2. <<>> \in Seq(S) /\ DOMAIN <<>> = {} /\ 1 .. 0 = {}
    OBVIOUS
  <2>3. Range(<<>>) = {} /\ IsInjective(<<>>)
    BY <2>2 DEF Range, IsInjective
  <2>4. HeldBy(q, 0) = {}
    BY <2>2 DEF HeldBy
  <2> QED BY <1>2, <2>1, <2>2, <2>3, <2>4 DEF Joined
<1>3. CASE m # 0
  <2> DEFINE h == CHOOSE f : Joins(q, f, m)
  <2>1. FlattenSeq(q) = h[m]
    BY <1>1, <1>3 DEF FlattenSeq, Joins
  <2>2. m \in 1 .. m
    BY <1>3
  <2>3. \E f : Joins(q, f, m)
    BY <2>2, JoinsExist
  <2>4. Joins(q, h, m)
    BY <2>3
  <2> HIDE DEF h
  <2>5. \A k \in 1 .. m : h[k] = IF k = 1 THEN q[k] ELSE h[k - 1] \o q[k]
    BY <2>4 DEF Joins
  <2> DEFINE B == {k \in 1 .. m : ~ Joined(S, q, k, h[k])}
  <2>6. B = {}
    <3> SUFFICES ASSUME B # {} PROVE FALSE
        OBVIOUS
    <3>1. PICK k \in B : \A j \in B : k <= j
      <4>1. B \subseteq Nat
        OBVIOUS
      <4> HIDE DEF B
      <4> QED BY <4>1, NatHasMin
    <3>2. k \in 1 .. m /\ ~ Joined(S, q, k, h[k])
        OBVIOUS
    <3>3. k # 1
      <4> SUFFICES ASSUME k = 1 PROVE FALSE
        OBVIOUS
      <4>1. h[1] = q[1] /\ q[1] \in Seq(S) /\ 1 .. 1 = {1} /\ 1 \in 1 .. m
        BY <3>2, <2>5
      <4>2. HeldBy(q, 1) = Range(q[1]) /\ (Apart2(q, 1) => IsInjective(q[1]))
        BY <4>1 DEF HeldBy, Apart2
      <4> QED BY <4>1, <4>2, <3>2 DEF Joined
    <3>4. k - 1 \in 1 .. m /\ k - 1 \notin B
      <4> HIDE DEF B
      <4> QED BY <3>1, <3>2, <3>3
    <3>5. Joined(S, q, k - 1, h[k - 1])
        BY <3>4
    <3>6. h[k] = h[k - 1] \o q[k]
        BY <3>2, <3>3, <2>5
    <3> HIDE DEF B
    <3> QED BY <3>2, <3>3, <3>5, <3>6, JoinOne
  <2> QED BY <2>1, <2>2, <2>6
<1> QED BY <1>2, <1>3

(* The pipes in some order, each once *)
LEMMA PipesInOrder ==
    /\ Cardinality(Pipes) \in Nat
    /\ SetToSeq(Pipes) \in [1 .. Cardinality(Pipes) -> Pipes]
    /\ IsInjective(SetToSeq(Pipes))
    /\ \A p \in Pipes : \E i \in 1 .. Cardinality(Pipes) : SetToSeq(Pipes)[i] = p
<1> DEFINE n == Cardinality(Pipes)
           e == SetToSeq(Pipes)
<1>1. IsFiniteSet(Pipes)
    BY PipesConstants
<1>2. n \in Nat /\ ExistsBijection(1 .. n, Pipes)
    BY <1>1, FS_CardinalityType
<1>3. \E f \in [1 .. n -> Pipes] : IsInjective(f)
    BY <1>2 DEF ExistsBijection, Bijection, Injection
<1>4. e \in [1 .. n -> Pipes] /\ IsInjective(e)
    BY <1>3 DEF SetToSeq
<1> HIDE DEF e
<1>5. e \in Injection(1 .. n, Pipes)
    BY <1>4 DEF Injection
<1>6. IsFiniteSet(1 .. n) /\ Cardinality(1 .. n) = n
    BY <1>2, FS_Interval
<1>7. e \in Surjection(1 .. n, Pipes)
    BY <1>1, <1>5, <1>6, FS_Injection
<1> QED BY <1>2, <1>4, <1>7 DEF Surjection, e

LEMMA InOrderIs ==
    ASSUME NEW lists, NEW L,
           \A p \in Pipes : ListOf(lists[p], L[p]),
           \A p, q \in Pipes : p # q => L[p] \cap L[q] = {}
    PROVE  ListOf(InOrder(lists), UNION {L[p] : p \in Pipes})
<1> DEFINE n == Cardinality(Pipes)
           e == SetToSeq(Pipes)
           q == [i \in 1 .. n |-> lists[e[i]]]
<1>1. /\ n \in Nat /\ e \in [1 .. n -> Pipes] /\ IsInjective(e)
      /\ \A p \in Pipes : \E i \in 1 .. n : e[i] = p
    BY PipesInOrder
<1>2. InOrder(lists) = FlattenSeq(q)
    BY DEF InOrder
<1> HIDE DEF n, e
<1>3. /\ q \in [1 .. n -> Seq(Threads)]
      /\ \A i \in 1 .. n : q[i] = lists[e[i]] /\ e[i] \in Pipes
    BY <1>1 DEF ListOf
<1>4. \A i, j \in 1 .. n : i # j => e[i] # e[j]
    BY <1>1 DEF IsInjective
<1> HIDE DEF q
<1>5. Joined(Threads, q, n, FlattenSeq(q))
    BY <1>1, <1>3, FlattenIs
<1>6. \A i \in 1 .. n : Range(q[i]) = L[e[i]] /\ IsInjective(q[i])
    BY <1>3 DEF ListOf
<1>7. Apart2(q, n)
    BY <1>3, <1>4, <1>6 DEF Apart2
<1>8. HeldBy(q, n) = UNION {L[p] : p \in Pipes}
  <2>1. HeldBy(q, n) = UNION {L[e[i]] : i \in 1 .. n}
    BY <1>6 DEF HeldBy
  <2> QED BY <2>1, <1>1, <1>3
<1> QED BY <1>2, <1>5, <1>7, <1>8 DEF Joined, ListOf

LEMMA WakeType ==
    ASSUME NEW p \in Pipes, NEW w \in {"readable", "writable"}
    PROVE  Wake(p, w) \in Event /\ Wake(p, w).p = p /\ Wake(p, w).w = w
BY DEF Wake, Event

(* What the ends of q announce *)
Announced(P, q) ==
    {Wake(p, "writable") : p \in {x \in Pipes : q \in P[x].rd}}
        \cup {Wake(p, "readable") : p \in {x \in Pipes : q \in P[x].wr}}

LEMMA EventsOfIs ==
    ASSUME NEW q
    PROVE  EventsOf(q) \in Seq(Event) /\ Range(EventsOf(q)) = Announced(pipe, q)
<1> DEFINE n == Cardinality(Pipes)
           e == SetToSeq(Pipes)
           one(p) == (IF q \in pipe[p].rd THEN <<Wake(p, "writable")>> ELSE <<>>)
                         \o (IF q \in pipe[p].wr THEN <<Wake(p, "readable")>> ELSE <<>>)
           s == [i \in 1 .. n |-> one(e[i])]
<1>1. /\ n \in Nat /\ e \in [1 .. n -> Pipes]
      /\ \A p \in Pipes : \E i \in 1 .. n : e[i] = p
    BY PipesInOrder
<1>2. EventsOf(q) = FlattenSeq(s)
    BY DEF EventsOf
<1> HIDE DEF n, e
<1>3. ASSUME NEW p \in Pipes
      PROVE  /\ one(p) \in Seq(Event)
             /\ Range(one(p)) = {x \in {Wake(p, "writable")} : q \in pipe[p].rd}
                                    \cup {x \in {Wake(p, "readable")} : q \in pipe[p].wr}
  <2> DEFINE a == IF q \in pipe[p].rd THEN <<Wake(p, "writable")>> ELSE <<>>
             b == IF q \in pipe[p].wr THEN <<Wake(p, "readable")>> ELSE <<>>
  <2>1. Wake(p, "writable") \in Event /\ Wake(p, "readable") \in Event
    BY WakeType
  <2>2. <<>> \in Seq(Event) /\ Range(<<>>) = {}
    <3>1. <<>> \in Seq(Event) /\ DOMAIN <<>> = {}
        OBVIOUS
    <3> QED BY <3>1 DEF Range
  <2>3. a \in Seq(Event) /\ Range(a) = {x \in {Wake(p, "writable")} : q \in pipe[p].rd}
    <3>1. CASE q \in pipe[p].rd
      <4>1. a = <<Wake(p, "writable")>>
        BY <3>1
      <4> HIDE DEF a
      <4> QED BY <4>1, <3>1, <2>1, Singleton
    <3>2. CASE q \notin pipe[p].rd
      <4>1. a = <<>>
        BY <3>2
      <4> HIDE DEF a
      <4> QED BY <4>1, <3>2, <2>2
    <3> QED BY <3>1, <3>2
  <2>4. b \in Seq(Event) /\ Range(b) = {x \in {Wake(p, "readable")} : q \in pipe[p].wr}
    <3>1. CASE q \in pipe[p].wr
      <4>1. b = <<Wake(p, "readable")>>
        BY <3>1
      <4> HIDE DEF b
      <4> QED BY <4>1, <3>1, <2>1, Singleton
    <3>2. CASE q \notin pipe[p].wr
      <4>1. b = <<>>
        BY <3>2
      <4> HIDE DEF b
      <4> QED BY <4>1, <3>2, <2>2
    <3> QED BY <3>1, <3>2
  <2>5. one(p) = a \o b
    OBVIOUS
  <2> HIDE DEF a, b, one
  <2>6. a \o b \in Seq(Event) /\ Range(a \o b) = Range(a) \cup Range(b)
    BY <2>3, <2>4, ConcatIs
  <2> QED BY <2>3, <2>4, <2>5, <2>6
<1> HIDE DEF one
<1>4. s \in [1 .. n -> Seq(Event)] /\ \A i \in 1 .. n : s[i] = one(e[i]) /\ e[i] \in Pipes
    BY <1>1, <1>3
<1> HIDE DEF s
<1>5. Joined(Event, s, n, FlattenSeq(s))
    BY <1>1, <1>4, FlattenIs
<1>6. HeldBy(s, n) = Announced(pipe, q)
  <2>1. HeldBy(s, n) = UNION {Range(one(p)) : p \in Pipes}
    BY <1>1, <1>4 DEF HeldBy
  <2>2. UNION {Range(one(p)) : p \in Pipes} = Announced(pipe, q)
    BY <1>3 DEF Announced
  <2> QED BY <2>1, <2>2
<1> QED BY <1>2, <1>5, <1>6 DEF Joined

-----------------------------------------------------------------------------
(* Frames *)
LEMMA FrameTypes ==
    /\ \A t \in Threads : /\ Run(t) \in Frames /\ Publish(t) \in Frames /\ Cancel(t) \in Frames
                          /\ Serves(Run(t)) /\ Serves(Publish(t)) /\ ~ Serves(Cancel(t))
                          /\ Run(t).t = t /\ Publish(t).t = t /\ Cancel(t).t = t
                          /\ Run(t).k = "run" /\ Publish(t).k = "publish"
                          /\ Cancel(t).k = "cancel"
    /\ \A s \in Seq(Event) : Drain(s) \in Frames /\ Drain(s).k = "drain" /\ Drain(s).events = s
    /\ \A e \in Event : Process(e) \in Frames /\ Process(e).k = "process" /\ Process(e).e = e
    /\ \A k \in {"schedule", "readers", "writers"} : Frame(k) \in Frames /\ Frame(k).k = k
BY DEF Run, Publish, Cancel, Drain, Process, Frame, Frames, Serves

LEMMA FrameCases ==
    ASSUME NEW f \in Frames
    PROVE  /\ f.k \in {"run", "publish", "cancel"} => f.t \in Threads
           /\ f.k = "run" => f = Run(f.t)
           /\ f.k = "publish" => f = Publish(f.t)
           /\ f.k = "drain" => f.events \in Seq(Event)
           /\ f.k = "process" => f.e \in Event
           /\ f.k \in {"run", "publish", "cancel", "drain", "process", "schedule",
                       "readers", "writers"}
<1>1. CASE f \in [k : {"run", "publish", "cancel"}, t : Threads]
    BY <1>1 DEF Run, Publish
<1>2. CASE f \in [k : {"drain"}, events : Seq(Event)]
    BY <1>2
<1>3. CASE f \in [k : {"process"}, e : Event]
    BY <1>3
<1>4. CASE f \in [k : {"schedule", "readers", "writers"}]
    BY <1>4
<1> QED BY <1>1, <1>2, <1>3, <1>4 DEF Frames

LEMMA BusyIs ==
    ASSUME NEW td \in Seq(Frames)
    PROVE  \A t : t \in Busy(td) <=> \E f \in Range(td) : Serves(f) /\ f.t = t
<1>1. Range(td) \subseteq Frames
    BY RangeIs
<1>2. \A f \in Range(td) : Serves(f) => f.t \in Threads /\ (f = Run(f.t) \/ f = Publish(f.t))
    BY <1>1, FrameCases DEF Serves
<1> QED BY <1>2, FrameTypes DEF Busy

LEMMA RunsIs ==
    ASSUME NEW s, NEW T, ListOf(s, T)
    PROVE  /\ Runs(s) \in Seq(Frames) /\ Once(Runs(s))
           /\ Range(Runs(s)) = {Run(t) : t \in T} /\ T \subseteq Threads
<1> DEFINE r == Runs(s)
<1>1. /\ s \in Seq(Threads) /\ DOMAIN s = 1 .. Len(s) /\ Len(s) \in Nat
      /\ IsInjective(s) /\ Range(s) = T
    BY DEF ListOf
<1>2. DOMAIN r = 1 .. Len(s) /\ \A i \in 1 .. Len(s) : r[i] = Run(s[i]) /\ s[i] \in Threads
    BY <1>1 DEF Runs
<1>3. r \in Seq(Frames)
  <2>1. \A i \in 1 .. Len(s) : r[i] \in Frames
    BY <1>2, FrameTypes
  <2>2. r = [i \in 1 .. Len(s) |-> r[i]]
    BY <1>1 DEF Runs
  <2> HIDE DEF r
  <2> QED BY <1>1, <2>1, <2>2
<1> HIDE DEF r
<1>4. Range(r) = {Run(t) : t \in T}
    BY <1>1, <1>2 DEF Range
<1>5. Once(r)
    BY <1>1, <1>2, FrameTypes DEF Once, IsInjective
<1>6. T \subseteq Threads
    BY <1>1 DEF Range
<1> QED BY <1>3, <1>4, <1>5, <1>6 DEF r

-----------------------------------------------------------------------------
(* The inductive invariant.  The host's side: what is on the stack or in a   *)
(* list belongs to a channel the host has, in one place only, and a list     *)
(* holds calls of its own kind.                                              *)
States == {"none", "guest", "submitted", "host", "forking", "launching"}
Line(s) == s \in Seq(Threads) /\ IsInjective(s)

ChansOK(ch) ==
    /\ ch \in [Threads -> [st : States, call : CallSet \cup {NoCall}]]
    /\ \A t \in Threads : ch[t].st = "submitted" => ch[t].call \in CallSet

LinesOK(rs, ws, ps) ==
    /\ rs \in [Pipes -> Seq(Threads)] /\ ws \in [Pipes -> Seq(Threads)]
    /\ \A p \in Pipes : Line(rs[p]) /\ Line(ws[p])
    /\ Line(ps)

Sets(lists) == [p \in Pipes |-> Range(lists[p])]

Awaits(t, B, ch) ==
    t \in Threads /\ ch[t].st = "host" /\ ch[t].call \in CallSet /\ t \notin B

(* A thread is busy or in one list; a timer runs for a read that is parked   *)
(* or about to be run again.                                                *)
PlacesOK(Rs, Ws, Ps, B, R, tm, ch) ==
    /\ R \subseteq B
    /\ \A t \in B : t \in Threads /\ ch[t].st = "host"
    /\ \A t \in R : ch[t].call \in CallSet
    /\ \A p \in Pipes :
        /\ \A t \in Rs[p] : Awaits(t, B, ch) /\ ch[t].call.op = "read" /\ ch[t].call.p = p
        /\ \A t \in Ws[p] : Awaits(t, B, ch) /\ ch[t].call.op = "write" /\ ch[t].call.p = p
    /\ \A t \in Ps : Awaits(t, B, ch) /\ ch[t].call.op = "poll"
    /\ tm \subseteq Threads
    /\ \A t \in tm : /\ ch[t].call.op = "read"
                     /\ t \in R \/ \E p \in Pipes : t \in Rs[p]

Places ==
    PlacesOK(Sets(readers), Sets(writers), Range(polls), Busy(todo), Ran(todo), timers, chan)

HostInv ==
    /\ ChansOK(chan) /\ todo \in Seq(Frames) /\ Once(todo)
    /\ LinesOK(readers, writers, polls) /\ Places
    /\ wakes \in Seq(Event) /\ wakeScheduled \in BOOLEAN

(* The kernel's side: the ring.  The tail is where the bytes end. *)
Ends == 0 .. Capacity - 1
Buffer ==
    [kind : {"free"} \cup Kinds, buf : [Ends -> Numbers \cup {Junk}],
     head : Ends, tail : Ends, len : Numbers, rd : SUBSET Procs, wr : SUBSET Procs]

RingOK(b, s, g) ==
    /\ b \in Buffer /\ s \in Numbers /\ g \in Numbers
    /\ b.rd = {} => b.len = 0
    /\ b.tail = (b.head + b.len) % Capacity
    /\ s = Next1(g, b.len)
    /\ \A k \in Numbers : k < b.len => b.buf[(b.head + k) % Capacity] = Next1(g, k)

RingInv ==
    /\ pipe \in [Pipes -> Buffer] /\ sent \in [Pipes -> Numbers] /\ got \in [Pipes -> Numbers]
    /\ \A p \in Pipes : RingOK(pipe[p], sent[p], got[p])

(* Wake-ups.  An event for the parked calls of a pipe is on its way: on the  *)
(* stack, or in the kernel's buffer with a drain to come.                    *)
Coming(td, wk, p, w) ==
    \E f \in Range(td) :
        \/ f.k = "process" /\ f.e = Wake(p, w)
        \/ f.k = "drain" /\ Wake(p, w) \in Range(f.events) \cup Range(wk)

(* Why a parked read or write must be run again.  An end that nobody holds   *)
(* counts for a closed descriptor too: the index may be given out again.     *)
ReadDue(b, t) == b.wr = {} \/ (b.len > 0 /\ ProcOf[t] \in b.rd)
WriteDue(b, t, n) == b.rd = {} \/ (WriteLen(b, n) > 0 /\ ProcOf[t] \in b.wr)

ComingOK(P, ch, Rs, Ws, td, wk) ==
    \A p \in Pipes :
        /\ \A t \in Rs[p] : ReadDue(P[p], t) => Coming(td, wk, p, "readable")
        /\ \A t \in Ws[p] : WriteDue(P[p], t, ch[t].call.n) => Coming(td, wk, p, "writable")

ComingInv == ComingOK(pipe, chan, Sets(readers), Sets(writers), todo, wakes)

(* A broad wake is scheduled, or will be by what is on the stack. *)
Broad(td, wk, sch) ==
    \/ sch
    \/ \E f \in Range(td) :
        f.k = "schedule" \/ (f.k = "drain" /\ (f.events # <<>> \/ wk # <<>>))

Has(td, k) == \E f \in Range(td) : f.k = k

(* Blocks, for process q and the pipe b of its call *)
Stuck(b, q, c) ==
    \/ c.op = "read" /\ q \in b.rd /\ ~ Readable(b)
    \/ c.op = "write" /\ q \in b.wr /\ b.rd # {} /\ WriteLen(b, c.n) = 0
    \/ c.op = "poll" /\ c.side = "in" /\ q \in b.rd /\ ~ Readable(b)
    \/ c.op = "poll" /\ c.side = "out" /\ q \in b.wr /\ ~ Writable(b)

StuckIn(P, ch, t) == Stuck(P[ch[t].call.p], ProcOf[t], ch[t].call)

BroadOK(P, ch, Rs, Ws, Ps, td, wk, sch) ==
    /\ \A t \in Ps : ~ StuckIn(P, ch, t) => Broad(td, wk, sch)
    /\ \A p \in Pipes :
        /\ \A t \in Rs[p] : ~ StuckIn(P, ch, t) => Broad(td, wk, sch) \/ Has(td, "readers")
        /\ \A t \in Ws[p] : ~ StuckIn(P, ch, t) => Broad(td, wk, sch) \/ Has(td, "writers")

BroadInv ==
    BroadOK(pipe, chan, Sets(readers), Sets(writers), Range(polls), todo, wakes, wakeScheduled)

WakeInv == ComingInv /\ BroadInv

IInv == HostInv /\ RingInv /\ WakeInv

-----------------------------------------------------------------------------
(* The stack, as the sets of threads it serves *)
StackIs(td, B, R) == td \in Seq(Frames) /\ Once(td) /\ Busy(td) = B /\ Ran(td) = R

LEMMA RanIs ==
    ASSUME NEW td
    PROVE  \A t : t \in Ran(td) <=> t \in Threads /\ Run(t) \in Range(td)
BY DEF Ran

LEMMA JoinStacks ==
    ASSUME NEW s, NEW r, NEW B1, NEW B2, NEW R1, NEW R2,
           StackIs(s, B1, R1), StackIs(r, B2, R2), B1 \cap B2 = {}
    PROVE  StackIs(s \o r, B1 \cup B2, R1 \cup R2) /\ Range(s \o r) = Range(s) \cup Range(r)
<1>1. s \in Seq(Frames) /\ r \in Seq(Frames) /\ Once(s) /\ Once(r) /\ Busy(s) = B1 /\ Busy(r) = B2
    BY DEF StackIs
<1>2. s \o r \in Seq(Frames) /\ Range(s \o r) = Range(s) \cup Range(r)
    BY <1>1, ConcatIs
<1>3. \A f \in Range(s), g \in Range(r) : Serves(f) /\ Serves(g) => f.t # g.t
    BY <1>1, BusyIs
<1>4. Once(s \o r)
    BY <1>1, <1>3, ConcatOnce
<1>5. Busy(s \o r) = B1 \cup B2 /\ Ran(s \o r) = R1 \cup R2
    BY <1>2 DEF StackIs, Busy, Ran
<1> QED BY <1>2, <1>4, <1>5 DEF StackIs

(* What the frame on top serves *)
Served(f) == IF Serves(f) THEN {f.t} ELSE {}

LEMMA PopIs ==
    ASSUME NEW td, NEW B, NEW R, StackIs(td, B, R), td # <<>>
    PROVE  /\ StackIs(Tail(td), B \ Served(Head(td)), R \ Served(Head(td)))
           /\ Range(td) = {Head(td)} \cup Range(Tail(td)) /\ Head(td) \in Frames
           /\ Served(Head(td)) \subseteq B
<1> DEFINE f == Head(td)
           r == Tail(td)
<1>1. td \in Seq(Frames) /\ Once(td) /\ Busy(td) = B /\ Ran(td) = R
    BY DEF StackIs
<1>2. f \in Frames /\ r \in Seq(Frames) /\ Range(td) = {f} \cup Range(r)
    BY <1>1, TailIs
<1>3. Once(r) /\ (Serves(f) => \A g \in Range(r) : Serves(g) => g.t # f.t)
    BY <1>1, TailOnce
<1> HIDE DEF f, r
<1>4. \A t : t \in Busy(r) <=> \E g \in Range(r) : Serves(g) /\ g.t = t
    BY <1>2, BusyIs
<1>5. \A t : t \in B <=> \E g \in Range(td) : Serves(g) /\ g.t = t
    BY <1>1, BusyIs
<1>6. Busy(r) = B \ Served(f) /\ Served(f) \subseteq B
    BY <1>2, <1>3, <1>4, <1>5 DEF Served
<1>7. Ran(r) = R \ Served(f)
  <2>1. \A t \in Threads : Run(t) \in Range(r) => Serves(Run(t)) /\ Run(t).t = t
    BY FrameTypes
  <2>2. Ran(r) \subseteq R \ Served(f)
    BY <1>1, <1>2, <1>3, <2>1 DEF Ran, Served
  <2>3. \A t \in Threads : Run(t) = f => Serves(f) /\ f.t = t
    BY FrameTypes
  <2>4. R \ Served(f) \subseteq Ran(r)
    BY <1>1, <1>2, <2>3 DEF Ran, Served
  <2> QED BY <2>2, <2>4
<1> QED BY <1>2, <1>3, <1>6, <1>7 DEF StackIs, f, r

LEMMA QuietStack ==
    ASSUME NEW s \in Seq(Frames), \A f \in Range(s) : ~ Serves(f)
    PROVE  StackIs(s, {}, {})
<1>1. Busy(s) = {}
    BY BusyIs
<1>2. Ran(s) = {}
    BY FrameTypes DEF Ran
<1>3. Once(s)
  <2>1. DOMAIN s = 1 .. Len(s) /\ \A i \in 1 .. Len(s) : s[i] \in Range(s)
    BY RangeIs
  <2> QED BY <2>1 DEF Once
<1> QED BY <1>1, <1>2, <1>3 DEF StackIs

LEMMA OneFrame ==
    ASSUME NEW f \in Frames
    PROVE  StackIs(<<f>>, Served(f), IF f.k = "run" THEN {f.t} ELSE {}) /\ Range(<<f>>) = {f}
<1> DEFINE s == <<f>>
<1>1. s \in Seq(Frames) /\ Range(s) = {f} /\ IsInjective(s)
    BY Singleton
<1> HIDE DEF s
<1>2. Once(s)
  <2>1. \A i \in DOMAIN s : s[i] = f
    BY <1>1 DEF Range
  <2> QED BY <1>1, <2>1 DEF Once, IsInjective
<1>3. Busy(s) = Served(f)
  <2>1. \A t : t \in Busy(s) <=> \E g \in Range(s) : Serves(g) /\ g.t = t
    BY <1>1, BusyIs
  <2> QED BY <1>1, <2>1 DEF Served
<1>4. Ran(s) = IF f.k = "run" THEN {f.t} ELSE {}
    BY <1>1, FrameTypes, FrameCases DEF Ran
<1> QED BY <1>1, <1>2, <1>3, <1>4 DEF StackIs, s

LEMMA CompletionIs ==
    ASSUME NEW t \in Threads
    PROVE  /\ StackIs(Completion(t), {t}, {}) /\ Range(Completion(t)) = {Drain(<<>>), Publish(t)}
           /\ Drain(<<>>) \in Frames /\ Drain(<<>>).k = "drain" /\ Drain(<<>>).events = <<>>
<1>1. <<>> \in Seq(Event)
    OBVIOUS
<1> DEFINE f == Drain(<<>>)
           g == Publish(t)
<1>2. /\ f \in Frames /\ f.k = "drain" /\ g \in Frames /\ g.k = "publish" /\ g.t = t
      /\ f.events = <<>>
    BY <1>1, FrameTypes
<1>3. Completion(t) = <<f, g>>
    BY DEF Completion
<1> HIDE DEF f, g
<1>4. <<f, g>> = <<f>> \o <<g>>
  <2>1. <<f, g>> = Append(<<f>>, g)
    OBVIOUS
  <2>2. Append(<<f>>, g) = <<f>> \o <<g>>
    BY <1>2
  <2> QED BY <2>1, <2>2
<1>5. StackIs(<<f>>, {}, {}) /\ Range(<<f>>) = {f}
    BY <1>2, OneFrame DEF Served, Serves
<1>6. StackIs(<<g>>, {t}, {}) /\ Range(<<g>>) = {g}
    BY <1>2, OneFrame DEF Served, Serves
<1> DEFINE a == <<f>>
           b == <<g>>
<1> HIDE DEF a, b
<1>7. /\ StackIs(a, {}, {}) /\ Range(a) = {f} /\ StackIs(b, {t}, {}) /\ Range(b) = {g}
      /\ Completion(t) = a \o b
    BY <1>3, <1>4, <1>5, <1>6 DEF a, b
<1>8. StackIs(a \o b, {} \cup {t}, {} \cup {}) /\ Range(a \o b) = Range(a) \cup Range(b)
    BY <1>7, JoinStacks
<1>9. {} \cup {t} = {t} /\ {} \cup {} = {}
    OBVIOUS
<1>10. StackIs(Completion(t), {t}, {}) /\ Range(Completion(t)) = {f, g}
    BY <1>7, <1>8, <1>9
<1> QED BY <1>10, <1>2 DEF f, g

LEMMA TwoFrames ==
    ASSUME NEW f \in Frames, NEW g \in Frames
    PROVE  <<f, g>> \in Seq(Frames) /\ Range(<<f, g>>) = {f, g}
<1>1. <<f>> \in Seq(Frames) /\ Range(<<f>>) = {f}
    BY Singleton
<1> DEFINE a == <<f>>
<1>2. <<f, g>> = Append(a, g)
    OBVIOUS
<1> HIDE DEF a
<1>3. a \in Seq(Frames) /\ Range(a) = {f}
    BY <1>1 DEF a
<1>4. Append(a, g) \in Seq(Frames) /\ Range(Append(a, g)) = Range(a) \cup {g}
    BY <1>3, AppendIs
<1> QED BY <1>2, <1>3, <1>4

LEMMA PublishedNotRun ==
    ASSUME NEW td, NEW B, NEW R, StackIs(td, B, R), td # <<>>, Head(td).k = "publish"
    PROVE  Head(td).t \notin R
<1> DEFINE f == Head(td)
<1>1. td \in Seq(Frames) /\ Once(td) /\ R = Ran(td)
    BY DEF StackIs
<1>2. f \in Frames /\ Range(td) = {f} \cup Range(Tail(td))
    BY <1>1, TailIs
<1>3. Serves(f) => \A g \in Range(Tail(td)) : Serves(g) => g.t # f.t
    BY <1>1, TailOnce
<1> HIDE DEF f
<1>4. f.k = "publish"
    BY DEF f
<1>5. Serves(f) /\ f.t \in Threads
    BY <1>2, <1>4, FrameCases DEF Serves
<1>6. Run(f.t).k = "run" /\ Serves(Run(f.t)) /\ Run(f.t).t = f.t
    BY <1>5, FrameTypes
<1>7. Run(f.t) \notin Range(td)
    BY <1>2, <1>3, <1>4, <1>5, <1>6
<1> QED BY <1>1, <1>7 DEF Ran, f

-----------------------------------------------------------------------------
(* How threads change places *)
PlaceSets == [Pipes -> SUBSET Threads]

LEMMA FewerTimers ==
    ASSUME NEW Rs, NEW Ws, NEW Ps, NEW B, NEW R, NEW tm, NEW ch,
           PlacesOK(Rs, Ws, Ps, B, R, tm, ch), NEW tm2 \in SUBSET tm
    PROVE  PlacesOK(Rs, Ws, Ps, B, R, tm2, ch)
BY DEF PlacesOK

LEMMA ParkReader ==
    ASSUME NEW Rs \in PlaceSets, NEW Ws, NEW Ps, NEW B, NEW R, NEW tm, NEW ch,
           PlacesOK(Rs, Ws, Ps, B, R, tm, ch), NEW t \in R, NEW p \in Pipes,
           ch[t].call.op = "read", ch[t].call.p = p,
           NEW Rs2,
           \A q \in Pipes : Rs2[q] = IF q = p THEN Rs[q] \cup {t} ELSE Rs[q]
    PROVE  PlacesOK(Rs2, Ws, Ps, B \ {t}, R \ {t}, tm \cup {t}, ch)
<1>1. /\ t \in Threads /\ ch[t].st = "host" /\ ch[t].call \in CallSet
      /\ R \subseteq B /\ R \ {t} \subseteq B \ {t}
    BY DEF PlacesOK
<1>2. \A v : Awaits(v, B, ch) => Awaits(v, B \ {t}, ch)
    BY DEF Awaits
<1>3. Awaits(t, B \ {t}, ch)
    BY <1>1 DEF Awaits
<1>4. \A q \in Pipes : \A v \in Rs2[q] : (v = t /\ q = p) \/ v \in Rs[q]
    OBVIOUS
<1>5. \A q \in Pipes : \A v \in Rs2[q] :
          Awaits(v, B \ {t}, ch) /\ ch[v].call.op = "read" /\ ch[v].call.p = q
  <2> SUFFICES ASSUME NEW q \in Pipes, NEW v \in Rs2[q]
               PROVE  Awaits(v, B \ {t}, ch) /\ ch[v].call.op = "read" /\ ch[v].call.p = q
    OBVIOUS
  <2>1. CASE v \in Rs[q]
    <3>1. Awaits(v, B, ch) /\ ch[v].call.op = "read" /\ ch[v].call.p = q
        BY <2>1 DEF PlacesOK
    <3> QED BY <3>1, <1>2
  <2> QED BY <1>3, <1>4, <2>1
<1>6. /\ tm \cup {t} \subseteq Threads
      /\ \A v \in tm \cup {t} : /\ ch[v].call.op = "read"
                                /\ v \in R \ {t} \/ \E q \in Pipes : v \in Rs2[q]
  <2>1. t \in Rs2[p] /\ \A q \in Pipes : Rs[q] \subseteq Rs2[q]
    OBVIOUS
  <2> QED BY <1>1, <2>1 DEF PlacesOK
<1> QED BY <1>1, <1>5, <1>6 DEF PlacesOK, Awaits

LEMMA ParkWriter ==
    ASSUME NEW Ws \in PlaceSets, NEW Rs, NEW Ps, NEW B, NEW R, NEW tm, NEW ch,
           PlacesOK(Rs, Ws, Ps, B, R, tm, ch), NEW t \in R, NEW p \in Pipes,
           ch[t].call.op = "write", ch[t].call.p = p, NEW Ws2,
           \A q \in Pipes : Ws2[q] = IF q = p THEN Ws[q] \cup {t} ELSE Ws[q]
    PROVE  PlacesOK(Rs, Ws2, Ps, B \ {t}, R \ {t}, tm, ch)
<1>1. /\ t \in Threads /\ ch[t].st = "host" /\ ch[t].call \in CallSet /\ t \notin tm
      /\ R \subseteq B /\ R \ {t} \subseteq B \ {t}
    BY DEF PlacesOK
<1>2. \A v : Awaits(v, B, ch) => Awaits(v, B \ {t}, ch)
    BY DEF Awaits
<1>3. Awaits(t, B \ {t}, ch)
    BY <1>1 DEF Awaits
<1>4. \A q \in Pipes : \A v \in Ws2[q] : (v = t /\ q = p) \/ v \in Ws[q]
    OBVIOUS
<1>5. \A q \in Pipes : \A v \in Ws2[q] :
          Awaits(v, B \ {t}, ch) /\ ch[v].call.op = "write" /\ ch[v].call.p = q
  <2> SUFFICES ASSUME NEW q \in Pipes, NEW v \in Ws2[q]
               PROVE  Awaits(v, B \ {t}, ch) /\ ch[v].call.op = "write" /\ ch[v].call.p = q
    OBVIOUS
  <2>1. CASE v \in Ws[q]
    <3>1. Awaits(v, B, ch) /\ ch[v].call.op = "write" /\ ch[v].call.p = q
        BY <2>1 DEF PlacesOK
    <3> QED BY <3>1, <1>2
  <2> QED BY <1>3, <1>4, <2>1
<1> QED BY <1>1, <1>5 DEF PlacesOK, Awaits

LEMMA ParkPoll ==
    ASSUME NEW Rs, NEW Ws, NEW Ps, NEW B, NEW R, NEW tm, NEW ch,
           PlacesOK(Rs, Ws, Ps, B, R, tm, ch), NEW t \in R, ch[t].call.op = "poll"
    PROVE  PlacesOK(Rs, Ws, Ps \cup {t}, B \ {t}, R \ {t}, tm, ch)
<1>1. t \notin tm
    BY DEF PlacesOK
<1> QED BY <1>1 DEF PlacesOK, Awaits

LEMMA Completes ==
    ASSUME NEW Rs, NEW Ws, NEW Ps, NEW B, NEW R, NEW tm, NEW ch,
           PlacesOK(Rs, Ws, Ps, B, R, tm, ch), NEW t \in R
    PROVE  PlacesOK(Rs, Ws, Ps \ {t}, B, R \ {t}, tm \ {t}, ch)
BY DEF PlacesOK, Awaits

LEMMA Published ==
    ASSUME NEW Rs, NEW Ws, NEW Ps, NEW B, NEW R, NEW tm, NEW ch, NEW ch2,
           PlacesOK(Rs, Ws, Ps, B, R, tm, ch), NEW t \in B, t \notin R,
           \A v \in Threads : v # t => ch2[v] = ch[v]
    PROVE  PlacesOK(Rs, Ws, Ps, B \ {t}, R, tm, ch2)
<1>1. t \notin tm
    BY DEF PlacesOK, Awaits
<1> QED BY <1>1 DEF PlacesOK, Awaits

(* The lists that are taken up: all of some of the pipes, or all polls *)
LEMMA TakesReaders ==
    ASSUME NEW Rs \in PlaceSets, NEW Ws, NEW Ps, NEW B, NEW R, NEW tm, NEW ch,
           PlacesOK(Rs, Ws, Ps, B, R, tm, ch), NEW Q \in SUBSET Pipes, NEW Rs2 \in PlaceSets,
           \A p \in Pipes : Rs2[p] = IF p \in Q THEN {} ELSE Rs[p]
    PROVE  LET N == UNION {Rs[p] : p \in Q}
           IN  N \cap B = {} /\ PlacesOK(Rs2, Ws, Ps, B \cup N, R \cup N, tm, ch)
<1> DEFINE N == UNION {Rs[p] : p \in Q}
<1>1. \A t \in N : Awaits(t, B, ch) /\ ch[t].call.op = "read" /\ ch[t].call.p \in Q
    BY DEF PlacesOK
<1>2. \A p \in Q : Rs[p] \subseteq N
    OBVIOUS
<1> HIDE DEF N
<1>3. N \cap B = {}
    BY <1>1 DEF Awaits
<1>4. PlacesOK(Rs2, Ws, Ps, B \cup N, R \cup N, tm, ch)
    BY <1>1, <1>2 DEF PlacesOK, Awaits
<1> QED BY <1>3, <1>4 DEF N

LEMMA TakesWriters ==
    ASSUME NEW Ws \in PlaceSets, NEW Rs, NEW Ps, NEW B, NEW R, NEW tm, NEW ch,
           PlacesOK(Rs, Ws, Ps, B, R, tm, ch), NEW Q \in SUBSET Pipes, NEW Ws2 \in PlaceSets,
           \A p \in Pipes : Ws2[p] = IF p \in Q THEN {} ELSE Ws[p]
    PROVE  LET N == UNION {Ws[p] : p \in Q}
           IN  N \cap B = {} /\ PlacesOK(Rs, Ws2, Ps, B \cup N, R \cup N, tm, ch)
<1> DEFINE N == UNION {Ws[p] : p \in Q}
<1>1. \A t \in N : Awaits(t, B, ch) /\ ch[t].call.op = "write" /\ ch[t].call.p \in Q
    BY DEF PlacesOK
<1>2. \A p \in Q : Ws[p] \subseteq N
    OBVIOUS
<1> HIDE DEF N
<1>3. N \cap B = {}
    BY <1>1 DEF Awaits
<1>4. PlacesOK(Rs, Ws2, Ps, B \cup N, R \cup N, tm, ch)
    BY <1>1, <1>2 DEF PlacesOK, Awaits
<1> QED BY <1>3, <1>4 DEF N

LEMMA TakesPolls ==
    ASSUME NEW Rs, NEW Ws, NEW Ps, NEW B, NEW R, NEW tm, NEW ch,
           PlacesOK(Rs, Ws, Ps, B, R, tm, ch), NEW N \in SUBSET Ps,
           NEW M \in {N, {}}
    PROVE  N \cap B = {} /\ PlacesOK(Rs, Ws, Ps \ N, B \cup N, R \cup M, tm, ch)
BY DEF PlacesOK, Awaits

(* A call is taken out of all lists and answered. *)
Without(new, old, t) == \A p \in Pipes : new[p] = old[p] \ {t}
IsParked(t, Rs, Ws, Ps) == t \in Ps \/ \E p \in Pipes : t \in Rs[p] \cup Ws[p]

LEMMA Withdrawn ==
    ASSUME NEW Rs, NEW Ws, NEW Ps, NEW B, NEW R, NEW tm, NEW ch, NEW t, NEW Rs2, NEW Ws2,
           PlacesOK(Rs, Ws, Ps, B, R, tm, ch), IsParked(t, Rs, Ws, Ps),
           Without(Rs2, Rs, t), Without(Ws2, Ws, t)
    PROVE  t \in Threads /\ t \notin B /\ PlacesOK(Rs2, Ws2, Ps \ {t}, B \cup {t}, R, tm \ {t}, ch)
<1>1. t \in Threads /\ t \notin B /\ t \notin R /\ ch[t].st = "host"
    BY DEF PlacesOK, Awaits, IsParked
<1>2. PlacesOK(Rs2, Ws2, Ps \ {t}, B \cup {t}, R, tm \ {t}, ch)
    BY <1>1 DEF PlacesOK, Awaits, Without
<1> QED BY <1>1, <1>2

(* Channels that the host does not have change hands. *)
(* The threads of N come to the host, those of M to be run. *)
Handing(ch, ch2, N, M) ==
    /\ \A v \in Threads : ch[v].st = "host" => ch2[v] = ch[v]
    /\ \A v \in N : v \in Threads /\ ch[v].st # "host" /\ ch2[v].st = "host"
    /\ M \subseteq N /\ \A v \in M : ch2[v].call \in CallSet

LEMMA Handed ==
    ASSUME NEW Rs, NEW Ws, NEW Ps, NEW B, NEW R, NEW tm, NEW ch, NEW ch2, NEW N, NEW M,
           PlacesOK(Rs, Ws, Ps, B, R, tm, ch), Handing(ch, ch2, N, M)
    PROVE  N \cap B = {} /\ PlacesOK(Rs, Ws, Ps, B \cup N, R \cup M, tm, ch2)
<1>0. /\ \A v \in Threads : ch[v].st = "host" => ch2[v] = ch[v]
      /\ N \subseteq Threads /\ \A v \in N : ch[v].st # "host" /\ ch2[v].st = "host"
      /\ M \subseteq N /\ \A v \in M : ch2[v].call \in CallSet
    BY DEF Handing
<1>1. \A t \in B : t \in Threads /\ t \notin N /\ ch2[t] = ch[t]
    BY <1>0 DEF PlacesOK
<1>2. \A t : Awaits(t, B, ch) => Awaits(t, B \cup N, ch2) /\ ch2[t] = ch[t]
    BY <1>0 DEF Awaits
<1>3. \A t \in tm : ch2[t] = ch[t]
    BY <1>1, <1>2 DEF PlacesOK
<1>4. R \cup M \subseteq B \cup N
    BY <1>0 DEF PlacesOK
<1>5. \A t \in B \cup N : t \in Threads /\ ch2[t].st = "host"
    BY <1>0, <1>1 DEF PlacesOK
<1>6. \A t \in R \cup M : ch2[t].call \in CallSet
    BY <1>0, <1>1 DEF PlacesOK
<1>7. \A p \in Pipes :
        /\ \A t \in Rs[p] : /\ Awaits(t, B \cup N, ch2)
                            /\ ch2[t].call.op = "read" /\ ch2[t].call.p = p
        /\ \A t \in Ws[p] : /\ Awaits(t, B \cup N, ch2)
                            /\ ch2[t].call.op = "write" /\ ch2[t].call.p = p
  <2>1. ASSUME NEW p \in Pipes, NEW t \in Rs[p]
        PROVE  Awaits(t, B \cup N, ch2) /\ ch2[t].call.op = "read" /\ ch2[t].call.p = p
    <3>1. Awaits(t, B, ch) /\ ch[t].call.op = "read" /\ ch[t].call.p = p
        BY DEF PlacesOK
    <3> QED BY <1>2, <3>1
  <2>2. ASSUME NEW p \in Pipes, NEW t \in Ws[p]
        PROVE  Awaits(t, B \cup N, ch2) /\ ch2[t].call.op = "write" /\ ch2[t].call.p = p
    <3>1. Awaits(t, B, ch) /\ ch[t].call.op = "write" /\ ch[t].call.p = p
        BY DEF PlacesOK
    <3> QED BY <1>2, <3>1
  <2> QED BY <2>1, <2>2
<1>8. \A t \in Ps : Awaits(t, B \cup N, ch2) /\ ch2[t].call.op = "poll"
  <2>1. ASSUME NEW t \in Ps PROVE Awaits(t, B, ch) /\ ch[t].call.op = "poll"
    BY <2>1 DEF PlacesOK
  <2> QED BY <1>2, <2>1
<1>9. tm \subseteq Threads /\ \A t \in tm : /\ ch2[t].call.op = "read"
                                            /\ t \in R \cup M \/ \E p \in Pipes : t \in Rs[p]
    BY <1>3 DEF PlacesOK
<1> QED BY <1>1, <1>4, <1>5, <1>6, <1>7, <1>8, <1>9 DEF PlacesOK

-----------------------------------------------------------------------------
(* The host's invariant, action by action.  A stream socket's time-out for   *)
(* writing is excluded: its entry stays among the writers (send_timeout).    *)
UntimedWrites == "write" \notin Timed

LEMMA CallTypes ==
    ASSUME NEW c \in CallSet
    PROVE  /\ c.op \in {"read", "write", "poll"} /\ c.p \in Pipes
           /\ c.op = "read" => c.n \in ReadSizes
           /\ c.op = "write" => c.n \in WriteSizes
           /\ c.op = "poll" => c.side \in {"in", "out"}
BY DEF CallSet

LEMMA LineList ==
    ASSUME NEW s
    PROVE  /\ Line(s) <=> ListOf(s, Range(s))
           /\ \A T : ListOf(s, T) => Line(s) /\ Range(s) = T
BY DEF Line, ListOf

LEMMA HostFacts ==
    ASSUME HostInv
    PROVE  /\ StackIs(todo, Busy(todo), Ran(todo))
           /\ Sets(readers) \in PlaceSets /\ Sets(writers) \in PlaceSets
           /\ \A p \in Pipes : /\ Sets(readers)[p] = Range(readers[p])
                               /\ Sets(writers)[p] = Range(writers[p])
                               /\ ListOf(readers[p], Range(readers[p]))
                               /\ ListOf(writers[p], Range(writers[p]))
           /\ ListOf(polls, Range(polls)) /\ Range(polls) \subseteq Threads
           /\ Places /\ LinesOK(readers, writers, polls) /\ ChansOK(chan)
           /\ wakes \in Seq(Event) /\ wakeScheduled \in BOOLEAN
<1>1. LinesOK(readers, writers, polls) /\ Places /\ ChansOK(chan)
    BY DEF HostInv
<1>2. \A p \in Pipes : Line(readers[p]) /\ Line(writers[p])
    BY <1>1 DEF LinesOK
<1>3. Line(polls)
    BY <1>1 DEF LinesOK
<1>4. ASSUME NEW s, Line(s) PROVE Range(s) \subseteq Threads /\ ListOf(s, Range(s))
    BY <1>4, RangeIs, LineList DEF Line
<1>5. Sets(readers) \in PlaceSets /\ Sets(writers) \in PlaceSets
    BY <1>2, <1>4 DEF Sets, PlaceSets
<1>6. StackIs(todo, Busy(todo), Ran(todo))
    BY DEF HostInv, StackIs
<1> QED BY <1>1, <1>2, <1>3, <1>4, <1>5, <1>6 DEF Sets, HostInv

LEMMA HostMade ==
    ASSUME NEW B, NEW R, ChansOK(chan'), StackIs(todo', B, R),
           LinesOK(readers', writers', polls'),
           PlacesOK(Sets(readers'), Sets(writers'), Range(polls'), B, R, timers', chan'),
           wakes' \in Seq(Event), wakeScheduled' \in BOOLEAN
    PROVE  HostInv'
BY DEF HostInv, Places, StackIs

LEMMA EventsGrow ==
    ASSUME HostInv, NEW t, NEW c, c \in CallSet, KernelCall(t, c)
    PROVE  wakes' \in Seq(Event) /\ Range(wakes) \subseteq Range(wakes')
<1>1. wakes \in Seq(Event) /\ c.p \in Pipes
    BY CallTypes DEF HostInv
<1>2. Wake(c.p, "readable") \in Event /\ Wake(c.p, "writable") \in Event
    BY <1>1, WakeType
<1>3. \/ wakes' = wakes
      \/ wakes' = Append(wakes, Wake(c.p, "writable"))
      \/ wakes' = Append(wakes, Wake(c.p, "readable"))
    BY DEF KernelCall, kernel
<1>4. ASSUME NEW e \in Event, wakes' = Append(wakes, e)
      PROVE  wakes' \in Seq(Event) /\ Range(wakes) \subseteq Range(wakes')
    BY <1>1, <1>4, AppendIs
<1> QED BY <1>1, <1>2, <1>3, <1>4

LEMMA RunBlockedHost ==
    ASSUME UntimedWrites, HostInv, todo # <<>>, NEW t, Head(todo) = Run(t), t \in Threads,
           Park(t, chan[t].call), todo' = Tail(todo),
           UNCHANGED <<kernel, chan, wakeScheduled>>
    PROVE  HostInv'
<1> DEFINE c == chan[t].call
           B == Busy(todo)
           R == Ran(todo)
<1>1. /\ StackIs(todo, B, R) /\ Sets(readers) \in PlaceSets /\ Sets(writers) \in PlaceSets
      /\ Places /\ LinesOK(readers, writers, polls) /\ ChansOK(chan)
      /\ wakes \in Seq(Event) /\ wakeScheduled \in BOOLEAN
      /\ \A p \in Pipes : /\ Sets(readers)[p] = Range(readers[p])
                          /\ Sets(writers)[p] = Range(writers[p])
                          /\ ListOf(readers[p], Range(readers[p]))
                          /\ ListOf(writers[p], Range(writers[p]))
      /\ ListOf(polls, Range(polls))
    BY HostFacts
<1>2. Head(todo).k = "run" /\ Served(Head(todo)) = {t}
    BY FrameTypes DEF Served
<1>3. StackIs(Tail(todo), B \ {t}, R \ {t}) /\ Run(t) \in Range(todo)
    BY <1>1, <1>2, PopIs
<1>4. t \in R /\ c \in CallSet
    BY <1>1, <1>3 DEF Ran, Places, PlacesOK
<1>5. c.p \in Pipes /\ c.op \in {"read", "write", "poll"}
    BY <1>4, CallTypes
<1>6. wakes' = wakes /\ chan' = chan /\ wakeScheduled' = wakeScheduled
    BY DEF kernel
<1>7. timers' \in {timers, timers \cup {t}} /\ (c.op # "read" => timers' = timers)
  <2>1. c.op \in Timed => c.op = "read"
    BY <1>5, PipesConstants DEF UntimedWrites
  <2> QED BY <2>1 DEF Park
<1>8. PlacesOK(Sets(readers), Sets(writers), Range(polls), B, R, timers, chan)
    BY <1>1 DEF Places
<1> HIDE DEF c, B, R
<1>9. CASE c.op = "read"
  <2>1. readers' = [readers EXCEPT ![c.p] = Add(readers[c.p], t)] /\ writers' = writers /\ polls' = polls
    BY <1>5, <1>9 DEF Park, c
  <2>2. ListOf(Add(readers[c.p], t), Range(readers[c.p]) \cup {t})
    BY <1>1, <1>5, AddIs
  <2>3. /\ readers' \in [Pipes -> Seq(Threads)] /\ \A q \in Pipes : Line(readers'[q])
        /\ \A q \in Pipes : Sets(readers')[q] =
              IF q = c.p THEN Range(readers[c.p]) \cup {t} ELSE Sets(readers)[q]
    <3>1. readers \in [Pipes -> Seq(Threads)] /\ \A q \in Pipes : Line(readers[q])
        BY <1>1 DEF LinesOK
    <3>2. LET s == Add(readers[c.p], t) IN
          s \in Seq(Threads) /\ Line(s) /\ Range(s) = Range(readers[c.p]) \cup {t}
        BY <2>2, LineList DEF ListOf
    <3>3. /\ readers'[c.p] = Add(readers[c.p], t) /\ readers' \in [Pipes -> Seq(Threads)]
          /\ \A q \in Pipes : q # c.p => readers'[q] = readers[q]
        BY <1>5, <2>1, <3>1, <3>2
    <3>4. \A q \in Pipes : Line(readers'[q])
        BY <3>1, <3>2, <3>3
    <3> QED BY <3>2, <3>3, <3>4 DEF Sets
  <2>4. \A q \in Pipes : Sets(readers')[q] =
              IF q = c.p THEN Sets(readers)[q] \cup {t} ELSE Sets(readers)[q]
    BY <1>1, <1>5, <2>3
  <2>5. PlacesOK(Sets(readers'), Sets(writers), Range(polls), B \ {t}, R \ {t}, timers', chan)
    <3>1. chan[t].call.op = "read" /\ chan[t].call.p = c.p
        BY <1>9 DEF c
    <3>2. Sets(readers) \in PlaceSets /\ (timers' = timers \/ timers' = timers \cup {t})
        BY <1>1, <1>7
    <3>3. PlacesOK(Sets(readers'), Sets(writers), Range(polls), B \ {t}, R \ {t},
                   timers \cup {t}, chan)
      <4> DEFINE Rs == Sets(readers)
                 Rs2 == Sets(readers')
                 p == c.p
      <4>1. /\ PlacesOK(Rs, Sets(writers), Range(polls), B, R, timers, chan) /\ t \in R
            /\ p \in Pipes /\ chan[t].call.op = "read" /\ chan[t].call.p = p /\ Rs \in PlaceSets
            /\ \A q \in Pipes : Rs2[q] = IF q = p THEN Rs[q] \cup {t} ELSE Rs[q]
        BY <1>4, <1>5, <1>8, <2>4, <3>1, <3>2
      <4> HIDE DEF Rs, Rs2, p
      <4>2. PlacesOK(Rs2, Sets(writers), Range(polls), B \ {t}, R \ {t}, timers \cup {t}, chan)
        BY <4>1, ParkReader, ZenonT(30)
      <4> QED BY <4>2 DEF Rs2
    <3>4. timers' \in SUBSET (timers \cup {t})
        BY <3>2
    <3> QED BY <3>3, <3>4, FewerTimers
  <2>6. LinesOK(readers', writers', polls')
    BY <1>1, <2>1, <2>3 DEF LinesOK
  <2> QED BY <1>1, <1>3, <1>6, <2>1, <2>5, <2>6, HostMade
<1>10. CASE c.op = "write"
  <2>1. writers' = [writers EXCEPT ![c.p] = Add(writers[c.p], t)] /\ readers' = readers /\ polls' = polls
    BY <1>5, <1>10 DEF Park, c
  <2>2. ListOf(Add(writers[c.p], t), Range(writers[c.p]) \cup {t})
    BY <1>1, <1>5, AddIs
  <2>3. /\ writers' \in [Pipes -> Seq(Threads)] /\ \A q \in Pipes : Line(writers'[q])
        /\ \A q \in Pipes : Sets(writers')[q] =
              IF q = c.p THEN Range(writers[c.p]) \cup {t} ELSE Sets(writers)[q]
    <3>1. writers \in [Pipes -> Seq(Threads)] /\ \A q \in Pipes : Line(writers[q])
        BY <1>1 DEF LinesOK
    <3>2. LET s == Add(writers[c.p], t) IN
          s \in Seq(Threads) /\ Line(s) /\ Range(s) = Range(writers[c.p]) \cup {t}
        BY <2>2, LineList DEF ListOf
    <3>3. /\ writers'[c.p] = Add(writers[c.p], t) /\ writers' \in [Pipes -> Seq(Threads)]
          /\ \A q \in Pipes : q # c.p => writers'[q] = writers[q]
        BY <1>5, <2>1, <3>1, <3>2
    <3>4. \A q \in Pipes : Line(writers'[q])
        BY <3>1, <3>2, <3>3
    <3> QED BY <3>2, <3>3, <3>4 DEF Sets
  <2>4. \A q \in Pipes : Sets(writers')[q] =
              IF q = c.p THEN Sets(writers)[q] \cup {t} ELSE Sets(writers)[q]
    BY <1>1, <1>5, <2>3
  <2>5. PlacesOK(Sets(readers), Sets(writers'), Range(polls), B \ {t}, R \ {t}, timers, chan)
    BY <1>1, <1>4, <1>5, <1>8, <1>10, <2>4, ParkWriter DEF c
  <2>6. LinesOK(readers', writers', polls') /\ timers' = timers
    BY <1>1, <1>7, <1>10, <2>1, <2>3 DEF LinesOK
  <2> QED BY <1>1, <1>3, <1>6, <2>1, <2>5, <2>6, HostMade
<1>11. CASE c.op = "poll"
  <2>1. polls' = Add(polls, t) /\ readers' = readers /\ writers' = writers /\ timers' = timers
    BY <1>5, <1>7, <1>11 DEF Park, c
  <2>2. ListOf(Add(polls, t), Range(polls) \cup {t})
    BY <1>1, AddIs
  <2>3. Line(polls') /\ Range(polls') = Range(polls) \cup {t}
    BY <2>1, <2>2, LineList
  <2>4. LinesOK(readers', writers', polls')
    BY <1>1, <2>1, <2>3 DEF LinesOK
  <2>5. PlacesOK(Sets(readers), Sets(writers), Range(polls) \cup {t}, B \ {t}, R \ {t}, timers, chan)
    BY <1>4, <1>8, <1>11, ParkPoll DEF c
  <2> QED BY <1>1, <1>3, <1>6, <2>1, <2>3, <2>4, <2>5, HostMade
<1> QED BY <1>5, <1>9, <1>10, <1>11

LEMMA RunDoneHost ==
    ASSUME HostInv, todo # <<>>, NEW t, Head(todo) = Run(t), t \in Threads,
           wakes' \in Seq(Event),
           timers' = timers \ {t}, polls' = Drop(polls, t),
           todo' = Completion(t) \o Tail(todo),
           UNCHANGED <<chan, readers, writers, wakeScheduled>>
    PROVE  HostInv'
<1> DEFINE B == Busy(todo)
           R == Ran(todo)
<1>1. /\ StackIs(todo, B, R) /\ Places /\ LinesOK(readers, writers, polls) /\ ChansOK(chan)
      /\ wakeScheduled \in BOOLEAN /\ ListOf(polls, Range(polls))
    BY HostFacts
<1>2. Served(Head(todo)) = {t}
    BY FrameTypes DEF Served
<1>3. StackIs(Tail(todo), B \ {t}, R \ {t}) /\ Run(t) \in Range(todo) /\ {t} \subseteq B
    BY <1>1, <1>2, PopIs
<1>4. t \in R
    BY <1>3 DEF Ran
<1>5. PlacesOK(Sets(readers), Sets(writers), Range(polls), B, R, timers, chan)
    BY <1>1 DEF Places
<1> HIDE DEF B, R
<1>6. StackIs(todo', {t} \cup (B \ {t}), {} \cup (R \ {t}))
  <2>1. StackIs(Completion(t), {t}, {}) /\ {t} \cap (B \ {t}) = {}
    BY CompletionIs
  <2> QED BY <1>3, <2>1, JoinStacks
<1>7. {t} \cup (B \ {t}) = B /\ {} \cup (R \ {t}) = R \ {t}
    BY <1>3
<1>8. ListOf(polls', Range(polls) \ {t})
    BY <1>1, DropIs
<1>9. Line(polls') /\ Range(polls') = Range(polls) \ {t}
    BY <1>8, LineList
<1>10. LinesOK(readers', writers', polls')
    BY <1>1, <1>9 DEF LinesOK
<1>11. PlacesOK(Sets(readers), Sets(writers), Range(polls) \ {t}, B, R \ {t}, timers \ {t}, chan)
    BY <1>4, <1>5, Completes
<1> QED BY <1>1, <1>6, <1>7, <1>9, <1>10, <1>11, HostMade

LEMMA SplitIs ==
    ASSUME NEW S, NEW s \in Seq(S), NEW m \in 0 .. Len(s)
    PROVE  /\ SubSeq(s, 1, m) \in Seq(S) /\ Len(SubSeq(s, 1, m)) = m
           /\ SubSeq(s, m + 1, Len(s)) \in Seq(S) /\ Len(SubSeq(s, m + 1, Len(s))) = Len(s) - m
           /\ Range(s) = Range(SubSeq(s, 1, m)) \cup Range(SubSeq(s, m + 1, Len(s)))
<1> DEFINE a == SubSeq(s, 1, m)
           b == SubSeq(s, m + 1, Len(s))
           n == Len(s)
<1>1. /\ n \in Nat /\ m \in Nat /\ m <= n /\ \A i \in 1 .. n : s[i] \in S
      /\ DOMAIN s = 1 .. n
    OBVIOUS
<1>2. a \in Seq(S) /\ Len(a) = m /\ DOMAIN a = 1 .. m /\ \A i \in 1 .. m : a[i] = s[i]
    BY <1>1
<1>3. /\ b \in Seq(S) /\ Len(b) = n - m /\ DOMAIN b = 1 .. n - m
      /\ \A i \in 1 .. n - m : b[i] = s[m + i]
  <2> DEFINE x == m + 1
  <2>1. x \in 1 .. n + 1 /\ x \in Nat /\ (n + 1) - x = n - m
    BY <1>1
  <2> HIDE DEF x
  <2>2. /\ SubSeq(s, x, n) \in Seq(S) /\ Len(SubSeq(s, x, n)) = (n + 1) - x
        /\ \A i \in 1 .. (n + 1) - x : SubSeq(s, x, n)[i] = s[(x + i) - 1]
    BY <1>1, <2>1
  <2>3. b = SubSeq(s, x, n)
    BY DEF x
  <2> HIDE DEF b
  <2>4. b \in Seq(S) /\ Len(b) = n - m /\ \A i \in 1 .. n - m : b[i] = s[(x + i) - 1]
    BY <2>1, <2>2, <2>3
  <2>5. \A i \in 1 .. n - m : (x + i) - 1 = m + i
    BY <1>1 DEF x
  <2> QED BY <2>4, <2>5
<1> HIDE DEF a, b, n
<1>4. \A i \in 1 .. n : i \in 1 .. m \/ (i - m \in 1 .. n - m /\ s[i] = b[i - m])
  <2> SUFFICES ASSUME NEW i \in 1 .. n, i \notin 1 .. m
               PROVE  i - m \in 1 .. n - m /\ s[i] = b[i - m]
    OBVIOUS
  <2>1. i - m \in 1 .. n - m /\ m + (i - m) = i
    BY <1>1
  <2> QED BY <2>1, <1>3
<1>5. Range(s) \subseteq Range(a) \cup Range(b)
  <2>1. \A x \in Range(s) : \E i \in 1 .. n : s[i] = x
    BY <1>1 DEF Range
  <2>2. \A i \in 1 .. m : s[i] \in Range(a)
    BY <1>2 DEF Range
  <2>3. \A j \in 1 .. n - m : b[j] \in Range(b)
    BY <1>3 DEF Range
  <2>4. \A i \in 1 .. n : s[i] \in Range(a) \cup Range(b)
    BY <1>4, <2>2, <2>3
  <2> QED BY <2>1, <2>4
<1>6. \A i \in 1 .. m : i \in 1 .. n
    BY <1>1
<1>7. \A i \in 1 .. n - m : m + i \in 1 .. n
    BY <1>1
<1>8. Range(a) \cup Range(b) \subseteq Range(s)
  <2>1. \A i \in 1 .. m : a[i] \in Range(s)
    BY <1>1, <1>2, <1>6 DEF Range
  <2>2. \A i \in 1 .. n - m : b[i] \in Range(s)
    BY <1>1, <1>3, <1>7 DEF Range
  <2> QED BY <1>2, <1>3, <2>1, <2>2 DEF Range
<1> QED BY <1>2, <1>3, <1>5, <1>8 DEF a, b, n

LEMMA ProcessesIs ==
    ASSUME NEW s \in Seq(Event)
    PROVE  LET z == [i \in DOMAIN s |-> Process(s[i])] \o <<Frame("schedule")>>
           IN  /\ z \in Seq(Frames)
               /\ Range(z) = {Process(e) : e \in Range(s)} \cup {Frame("schedule")}
<1> DEFINE r == [i \in DOMAIN s |-> Process(s[i])]
           q == <<Frame("schedule")>>
<1>1. DOMAIN s = 1 .. Len(s) /\ Len(s) \in Nat /\ \A i \in 1 .. Len(s) : s[i] \in Event
    OBVIOUS
<1>2. \A i \in 1 .. Len(s) : r[i] = Process(s[i]) /\ r[i] \in Frames
    BY <1>1, FrameTypes
<1>3. r \in Seq(Frames) /\ DOMAIN r = 1 .. Len(s)
  <2>1. r = [i \in 1 .. Len(s) |-> r[i]]
    BY <1>1
  <2> HIDE DEF r
  <2> QED BY <1>1, <1>2, <2>1
<1> HIDE DEF r
<1>4. Range(r) = {Process(e) : e \in Range(s)}
    BY <1>1, <1>2, <1>3 DEF Range
<1>5. q \in Seq(Frames) /\ Range(q) = {Frame("schedule")}
    BY Singleton, FrameTypes
<1> HIDE DEF q
<1>6. r \o q \in Seq(Frames) /\ Range(r \o q) = Range(r) \cup Range(q)
    BY <1>3, <1>5, ConcatIs
<1> QED BY <1>4, <1>5, <1>6 DEF r, q

(* The outcomes of one round of draining: more to take, nothing to do, or    *)
(* the events one by one and then the broad wake.                            *)
Drained(new, events, wk) ==
    /\ new \in Seq(Frames) /\ events \in Seq(Event)
    /\ \/ Range(new) = {Drain(events)} /\ events # <<>>
       \/ Range(new) = {} /\ events = <<>> /\ wk = <<>>
       \/ /\ Range(new) = {Process(e) : e \in Range(events)} \cup {Frame("schedule")}
          /\ wk = <<>>

LEMMA TakeBatchIs ==
    ASSUME HostInv, todo # <<>>, Head(todo).k = "drain", TakeBatch(Tail(todo))
    PROVE  /\ wakes' \in Seq(Event)
           /\ \E new, events :
                /\ Drained(new, events, wakes') /\ todo' = new \o Tail(todo)
                /\ Range(events) \cup Range(wakes') = Range(Head(todo).events) \cup Range(wakes)
           /\ UNCHANGED <<pipe, sent, got, chan, host>>
<1> DEFINE n == Len(wakes)
           m == IF n < MAX_EVENTS THEN n ELSE MAX_EVENTS
           taken == SubSeq(wakes, 1, m)
           old == Head(todo).events
           events == old \o taken
           rest == Tail(todo)
<1>1. wakes \in Seq(Event) /\ n \in Nat /\ MAX_EVENTS \in Nat /\ MAX_EVENTS # 0
    BY PipesConstants DEF HostInv
<1>2. old \in Seq(Event)
  <2>1. Head(todo) \in Frames
    BY TailIs DEF HostInv
  <2> QED BY <2>1, FrameCases
<1>3. m \in 0 .. n
    BY <1>1
<1>4. rest \in Seq(Frames)
    BY TailIs DEF HostInv
<1>5. /\ wakes' = SubSeq(wakes, Len(taken) + 1, n)
      /\ todo' = IF Len(taken) = MAX_EVENTS THEN <<Drain(events)>> \o rest
                 ELSE IF events = <<>> THEN rest
                 ELSE ([i \in DOMAIN events |-> Process(events[i])]
                          \o <<Frame("schedule")>>) \o rest
      /\ UNCHANGED <<pipe, sent, got, chan, host>>
    BY DEF TakeBatch
<1> HIDE DEF n, m, old, rest
<1>6. /\ taken \in Seq(Event) /\ Len(taken) = m
      /\ SubSeq(wakes, m + 1, n) \in Seq(Event) /\ Len(SubSeq(wakes, m + 1, n)) = n - m
      /\ Range(wakes) = Range(taken) \cup Range(SubSeq(wakes, m + 1, n))
    BY <1>1, <1>3, SplitIs DEF n
<1>7. /\ wakes' \in Seq(Event) /\ Len(wakes') = n - m
      /\ Range(wakes) = Range(taken) \cup Range(wakes')
    BY <1>5, <1>6
<1> HIDE DEF taken
<1>8. /\ events \in Seq(Event) /\ Range(events) = Range(old) \cup Range(taken)
    BY <1>2, <1>6, ConcatIs
<1>9. Range(events) \cup Range(wakes') = Range(old) \cup Range(wakes)
    BY <1>7, <1>8
<1>10. Len(events) = Len(old) + m /\ Len(old) \in Nat /\ (events = <<>> <=> Len(events) = 0)
    BY <1>2, <1>6, <1>8
<1> HIDE DEF events
<1>11. CASE m = MAX_EVENTS
  <2>1. todo' = <<Drain(events)>> \o rest
    BY <1>5, <1>6, <1>11
  <2>2. <<Drain(events)>> \in Seq(Frames) /\ Range(<<Drain(events)>>) = {Drain(events)}
    BY <1>8, FrameTypes, Singleton
  <2>3. events # <<>>
    BY <1>1, <1>10, <1>11
  <2>4. Drained(<<Drain(events)>>, events, wakes')
    BY <1>8, <2>2, <2>3 DEF Drained
  <2> QED BY <1>5, <1>7, <1>9, <2>1, <2>4 DEF old, rest
<1>12. CASE m # MAX_EVENTS
  <2>1. wakes' = <<>>
    <3>1. m = n
        BY <1>1, <1>12 DEF m
    <3> QED BY <3>1, <1>1, <1>7
  <2>2. CASE events = <<>>
    <3>1. todo' = rest
        BY <1>5, <1>6, <1>12, <2>2
    <3>2. todo' = <<>> \o rest
        BY <1>4, <3>1
    <3>3. <<>> \in Seq(Frames) /\ Range(<<>>) = {}
      <4>1. <<>> \in Seq(Frames)
        OBVIOUS
      <4> QED BY <4>1, RangeIs
    <3>4. Drained(<<>>, events, wakes')
        BY <1>8, <2>1, <2>2, <3>3 DEF Drained
    <3> QED BY <1>5, <1>7, <1>9, <3>2, <3>4 DEF old, rest
  <2>3. CASE events # <<>>
    <3> DEFINE z == [i \in DOMAIN events |-> Process(events[i])] \o <<Frame("schedule")>>
    <3>1. todo' = z \o rest
        BY <1>5, <1>6, <1>12, <2>3
    <3>2. z \in Seq(Frames) /\ Range(z) = {Process(e) : e \in Range(events)} \cup {Frame("schedule")}
        BY <1>8, ProcessesIs
    <3> HIDE DEF z
    <3>3. Drained(z, events, wakes')
        BY <1>8, <2>1, <3>2 DEF Drained
    <3> QED BY <1>5, <1>7, <1>9, <3>1, <3>3 DEF old, rest
  <2> QED BY <2>2, <2>3
<1> QED BY <1>11, <1>12

LEMMA PopQuiet ==
    ASSUME NEW td, NEW B, NEW R, StackIs(td, B, R), td # <<>>, ~ Serves(Head(td))
    PROVE  StackIs(Tail(td), B, R)
<1>1. StackIs(Tail(td), B \ Served(Head(td)), R \ Served(Head(td)))
    BY PopIs
<1>2. B \ Served(Head(td)) = B /\ R \ Served(Head(td)) = R
    BY DEF Served
<1> QED BY <1>1, <1>2

LEMMA RunsStack ==
    ASSUME NEW s, NEW N, ListOf(s, N)
    PROVE  StackIs(Runs(s), N, N)
<1> DEFINE r == Runs(s)
<1>1. /\ r \in Seq(Frames) /\ Once(r)
      /\ Range(r) = {Run(t) : t \in N} /\ N \subseteq Threads
    BY RunsIs
<1> HIDE DEF r
<1>2. \A t \in Threads : Serves(Run(t)) /\ Run(t).t = t
    BY FrameTypes
<1>3. \A t : t \in Busy(r) <=> \E f \in Range(r) : Serves(f) /\ f.t = t
    BY <1>1, BusyIs
<1>4. \A f \in Range(r) : f.t \in N
    BY <1>1, <1>2
<1>5. \A t \in N : Run(t) \in Range(r)
    BY <1>1
<1>6. Busy(r) = N
    BY <1>1, <1>2, <1>3, <1>4, <1>5
<1>7. Ran(r) = N
    BY <1>1, <1>2, <1>4, <1>5 DEF Ran
<1> QED BY <1>1, <1>6, <1>7 DEF StackIs, r

LEMMA QuietHost ==
    ASSUME HostInv, todo # <<>>, ~ Serves(Head(todo)), NEW new \in Seq(Frames),
           \A f \in Range(new) : ~ Serves(f), todo' = new \o Tail(todo),
           wakes' \in Seq(Event), wakeScheduled' \in BOOLEAN,
           UNCHANGED <<chan, readers, writers, polls, timers>>
    PROVE  HostInv'
<1> DEFINE B == Busy(todo)
           R == Ran(todo)
<1>1. StackIs(todo, B, R) /\ Places /\ LinesOK(readers, writers, polls) /\ ChansOK(chan)
    BY HostFacts
<1>2. StackIs(new, {}, {})
    BY QuietStack
<1>5. StackIs(Tail(todo), B, R)
    BY <1>1, PopQuiet
<1> HIDE DEF B, R
<1>6. StackIs(todo', {} \cup B, {} \cup R)
    BY <1>2, <1>5, JoinStacks
<1>7. {} \cup B = B /\ {} \cup R = R
    OBVIOUS
<1>8. PlacesOK(Sets(readers), Sets(writers), Range(polls), B, R, timers, chan)
    BY <1>1 DEF Places, B, R
<1> QED BY <1>1, <1>6, <1>7, <1>8, HostMade

LEMMA DrainHost ==
    ASSUME HostInv, todo # <<>>, Head(todo).k = "drain", TakeBatch(Tail(todo))
    PROVE  HostInv'
<1>1. PICK new, events : Drained(new, events, wakes') /\ todo' = new \o Tail(todo)
    BY TakeBatchIs
<1>2. wakes' \in Seq(Event) /\ UNCHANGED <<pipe, sent, got, chan, host>>
    BY TakeBatchIs
<1>3. new \in Seq(Frames) /\ events \in Seq(Event)
    BY <1>1 DEF Drained
<1>4. Range(events) \subseteq Event
    BY <1>3, RangeIs
<1>5. \A f \in Range(new) : ~ Serves(f)
  <2>1. Drain(events).k = "drain" /\ Frame("schedule").k = "schedule"
    BY <1>3, FrameTypes
  <2>2. \A e \in Range(events) : Process(e).k = "process"
    BY <1>4, FrameTypes
  <2>3. \A f \in Range(new) : f.k \in {"drain", "schedule", "process"}
    BY <1>1, <2>1, <2>2 DEF Drained
  <2> QED BY <2>3 DEF Serves
<1>6. ~ Serves(Head(todo)) /\ wakeScheduled' \in BOOLEAN
    BY <1>2 DEF Serves, HostInv, host
<1> QED BY <1>1, <1>2, <1>3, <1>5, <1>6, QuietHost DEF host

LEMMA ScheduleHost ==
    ASSUME HostInv, todo # <<>>, Head(todo).k = "schedule", ScheduleBroad(Tail(todo))
    PROVE  HostInv'
<1>1. <<>> \in Seq(Frames)
    OBVIOUS
<1>2. Range(<<>>) = {}
    BY <1>1, RangeIs
<1>3. Tail(todo) \in Seq(Frames)
    BY TailIs DEF HostInv
<1>4. todo' = <<>> \o Tail(todo)
    BY <1>3 DEF ScheduleBroad
<1>5. ~ Serves(Head(todo)) /\ wakeScheduled' \in BOOLEAN /\ wakes' \in Seq(Event)
    BY DEF Serves, ScheduleBroad, HostInv, kernel
<1>6. UNCHANGED <<chan, readers, writers, polls, timers>>
    BY DEF ScheduleBroad
<1> QED BY <1>1, <1>2, <1>4, <1>5, <1>6, QuietHost

(* The parked calls in Q's lists go onto the stack. *)
LEMMA ReadersTaken ==
    ASSUME HostInv, todo # <<>>, ~ Serves(Head(todo)), NEW Q \in SUBSET Pipes, NEW s,
           ListOf(s, UNION {Range(readers[p]) : p \in Q}), todo' = Runs(s) \o Tail(todo),
           readers' \in [Pipes -> Seq(Threads)],
           \A p \in Pipes : readers'[p] = IF p \in Q THEN <<>> ELSE readers[p],
           UNCHANGED <<kernel, chan, writers, polls, timers, wakeScheduled>>
    PROVE  HostInv'
<1> DEFINE B == Busy(todo)
           R == Ran(todo)
           Rs == Sets(readers)
           N == UNION {Rs[p] : p \in Q}
<1>1. /\ StackIs(todo, B, R) /\ Places /\ LinesOK(readers, writers, polls) /\ ChansOK(chan)
      /\ Rs \in PlaceSets /\ \A p \in Pipes : Rs[p] = Range(readers[p])
      /\ wakes \in Seq(Event) /\ wakeScheduled \in BOOLEAN
    BY HostFacts
<1>2. N = UNION {Range(readers[p]) : p \in Q}
    BY <1>1
<1>4. StackIs(Tail(todo), B, R)
    BY <1>1, PopQuiet
<1>5. Line(<<>>) /\ Range(<<>>) = {}
    BY EmptyList, LineList
<1>6. LinesOK(readers', writers', polls')
    BY <1>1, <1>5 DEF LinesOK
<1>7. Sets(readers') \in PlaceSets /\ \A p \in Pipes : Sets(readers')[p] = IF p \in Q THEN {} ELSE Rs[p]
    BY <1>1, <1>5 DEF Sets, PlaceSets
<1>8. PlacesOK(Rs, Sets(writers), Range(polls), B, R, timers, chan)
    BY <1>1 DEF Places
<1> HIDE DEF B, R, Rs, N
<1>9. N \cap B = {} /\ PlacesOK(Sets(readers'), Sets(writers), Range(polls), B \cup N, R \cup N, timers, chan)
    BY <1>1, <1>7, <1>8, TakesReaders DEF N
<1>10. StackIs(Runs(s), N, N)
    BY <1>2, RunsStack
<1>11. StackIs(todo', N \cup B, N \cup R)
    BY <1>4, <1>9, <1>10, JoinStacks
<1>12. N \cup B = B \cup N /\ N \cup R = R \cup N
    OBVIOUS
<1>13. wakes' = wakes
    BY DEF kernel
<1> QED BY <1>1, <1>6, <1>9, <1>11, <1>12, <1>13, HostMade

LEMMA WritersTaken ==
    ASSUME HostInv, todo # <<>>, ~ Serves(Head(todo)), NEW Q \in SUBSET Pipes, NEW s,
           ListOf(s, UNION {Range(writers[p]) : p \in Q}), todo' = Runs(s) \o Tail(todo),
           writers' \in [Pipes -> Seq(Threads)],
           \A p \in Pipes : writers'[p] = IF p \in Q THEN <<>> ELSE writers[p],
           UNCHANGED <<kernel, chan, readers, polls, timers, wakeScheduled>>
    PROVE  HostInv'
<1> DEFINE B == Busy(todo)
           R == Ran(todo)
           Ws == Sets(writers)
           N == UNION {Ws[p] : p \in Q}
<1>1. /\ StackIs(todo, B, R) /\ Places /\ LinesOK(readers, writers, polls) /\ ChansOK(chan)
      /\ Ws \in PlaceSets /\ \A p \in Pipes : Ws[p] = Range(writers[p])
      /\ wakes \in Seq(Event) /\ wakeScheduled \in BOOLEAN
    BY HostFacts
<1>2. N = UNION {Range(writers[p]) : p \in Q}
    BY <1>1
<1>4. StackIs(Tail(todo), B, R)
    BY <1>1, PopQuiet
<1>5. Line(<<>>) /\ Range(<<>>) = {}
    BY EmptyList, LineList
<1>6. LinesOK(readers', writers', polls')
    BY <1>1, <1>5 DEF LinesOK
<1>7. Sets(writers') \in PlaceSets /\ \A p \in Pipes : Sets(writers')[p] = IF p \in Q THEN {} ELSE Ws[p]
    BY <1>1, <1>5 DEF Sets, PlaceSets
<1>8. PlacesOK(Sets(readers), Ws, Range(polls), B, R, timers, chan)
    BY <1>1 DEF Places
<1> HIDE DEF B, R, Ws, N
<1>9. N \cap B = {} /\ PlacesOK(Sets(readers), Sets(writers'), Range(polls), B \cup N, R \cup N, timers, chan)
    BY <1>1, <1>7, <1>8, TakesWriters DEF N
<1>10. StackIs(Runs(s), N, N)
    BY <1>2, RunsStack
<1>11. StackIs(todo', N \cup B, N \cup R)
    BY <1>4, <1>9, <1>10, JoinStacks
<1>12. N \cup B = B \cup N /\ N \cup R = R \cup N
    OBVIOUS
<1>13. wakes' = wakes
    BY DEF kernel
<1> QED BY <1>1, <1>6, <1>9, <1>11, <1>12, <1>13, HostMade

LEMMA ProcessHost ==
    ASSUME HostInv, todo # <<>>, Head(todo).k = "process", ProcessEvent(Head(todo).e, Tail(todo))
    PROVE  HostInv'
<1> DEFINE e == Head(todo).e
<1>1. e \in Event /\ ~ Serves(Head(todo))
    BY TailIs, FrameCases DEF HostInv, Serves
<1>2. e.p \in Pipes /\ e.w \in {"readable", "writable"}
    BY <1>1 DEF Event
<1> DEFINE Q == {e.p}
<1>3. Q \in SUBSET Pipes
    BY <1>2
<1>4. /\ ListOf(readers[e.p], Range(readers[e.p])) /\ ListOf(writers[e.p], Range(writers[e.p]))
      /\ LinesOK(readers, writers, polls)
    BY <1>2, HostFacts
<1>5. /\ UNION {Range(readers[p]) : p \in Q} = Range(readers[e.p])
      /\ UNION {Range(writers[p]) : p \in Q} = Range(writers[e.p])
    OBVIOUS
<1>6. readers \in [Pipes -> Seq(Threads)] /\ writers \in [Pipes -> Seq(Threads)] /\ <<>> \in Seq(Threads)
    BY <1>4 DEF LinesOK
<1>7. UNCHANGED <<kernel, chan, polls, timers, wakeScheduled>>
    BY DEF ProcessEvent
<1>8. CASE e.w = "readable"
  <2>1. /\ todo' = Runs(readers[e.p]) \o Tail(todo)
        /\ readers' = [readers EXCEPT ![e.p] = <<>>] /\ writers' = writers
    BY <1>8 DEF ProcessEvent
  <2>2. /\ readers' \in [Pipes -> Seq(Threads)]
        /\ \A p \in Pipes : readers'[p] = IF p \in Q THEN <<>> ELSE readers[p]
    BY <1>2, <1>6, <2>1
  <2>3. ListOf(readers[e.p], UNION {Range(readers[p]) : p \in Q})
    BY <1>4, <1>5
  <2> HIDE DEF Q, e
  <2> QED BY <1>1, <1>3, <1>7, <2>1, <2>2, <2>3, ReadersTaken
<1>9. CASE e.w # "readable"
  <2>1. /\ todo' = Runs(writers[e.p]) \o Tail(todo)
        /\ writers' = [writers EXCEPT ![e.p] = <<>>] /\ readers' = readers
    BY <1>9 DEF ProcessEvent
  <2>2. /\ writers' \in [Pipes -> Seq(Threads)]
        /\ \A p \in Pipes : writers'[p] = IF p \in Q THEN <<>> ELSE writers[p]
    BY <1>2, <1>6, <2>1
  <2>3. ListOf(writers[e.p], UNION {Range(writers[p]) : p \in Q})
    BY <1>4, <1>5
  <2> HIDE DEF Q, e
  <2> QED BY <1>1, <1>3, <1>7, <2>1, <2>2, <2>3, WritersTaken
<1> QED BY <1>8, <1>9

LEMMA ListsApart ==
    ASSUME HostInv
    PROVE  /\ \A p, q \in Pipes : p # q => Range(readers[p]) \cap Range(readers[q]) = {}
           /\ \A p, q \in Pipes : p # q => Range(writers[p]) \cap Range(writers[q]) = {}
           /\ \A p \in Pipes : /\ Range(readers[p]) \cap Range(polls) = {}
                               /\ Range(writers[p]) \cap Range(polls) = {}
           /\ \A p, q \in Pipes : Range(readers[p]) \cap Range(writers[q]) = {}
<1>1. Places /\ \A p \in Pipes : /\ Sets(readers)[p] = Range(readers[p])
                                 /\ Sets(writers)[p] = Range(writers[p])
    BY HostFacts
<1>2. \A p \in Pipes :
        /\ \A t \in Range(readers[p]) : chan[t].call.op = "read" /\ chan[t].call.p = p
        /\ \A t \in Range(writers[p]) : chan[t].call.op = "write" /\ chan[t].call.p = p
    BY <1>1 DEF Places, PlacesOK
<1>3. \A t \in Range(polls) : chan[t].call.op = "poll"
    BY <1>1 DEF Places, PlacesOK
<1> QED BY <1>2, <1>3

LEMMA WakeAllHost ==
    ASSUME HostInv, todo # <<>>, Head(todo).k \in {"readers", "writers"},
           WakeAll(Head(todo).k, Tail(todo))
    PROVE  HostInv'
<1>1. ~ Serves(Head(todo))
    BY DEF Serves
<1>2. UNCHANGED <<kernel, chan, polls, timers, wakeScheduled>>
    BY DEF WakeAll
<1>3. <<>> \in Seq(Threads) /\ Pipes \in SUBSET Pipes
    OBVIOUS
<1>4. \A p \in Pipes : ListOf(readers[p], Range(readers[p])) /\ ListOf(writers[p], Range(writers[p]))
    BY HostFacts
<1>5. CASE Head(todo).k = "readers"
  <2> DEFINE L == [p \in Pipes |-> Range(readers[p])]
  <2>1. /\ todo' = Runs(InOrder(readers)) \o Tail(todo)
        /\ readers' = [p \in Pipes |-> <<>>] /\ writers' = writers
    BY <1>5 DEF WakeAll
  <2>2. \A p \in Pipes : ListOf(readers[p], L[p]) /\ L[p] = Range(readers[p])
    BY <1>4
  <2>3. \A p, q \in Pipes : p # q => L[p] \cap L[q] = {}
    BY <2>2, ListsApart
  <2>4. UNION {L[p] : p \in Pipes} = UNION {Range(readers[p]) : p \in Pipes}
    BY <2>2
  <2> HIDE DEF L
  <2>5. ListOf(InOrder(readers), UNION {Range(readers[p]) : p \in Pipes})
    BY <2>2, <2>3, <2>4, InOrderIs
  <2>6. /\ readers' \in [Pipes -> Seq(Threads)]
        /\ \A p \in Pipes : readers'[p] = IF p \in Pipes THEN <<>> ELSE readers[p]
    BY <1>3, <2>1
  <2> QED BY <1>1, <1>2, <1>3, <2>1, <2>5, <2>6, ReadersTaken
<1>6. CASE Head(todo).k # "readers"
  <2> DEFINE L == [p \in Pipes |-> Range(writers[p])]
  <2>1. /\ todo' = Runs(InOrder(writers)) \o Tail(todo)
        /\ writers' = [p \in Pipes |-> <<>>] /\ readers' = readers
    BY <1>6 DEF WakeAll
  <2>2. \A p \in Pipes : ListOf(writers[p], L[p]) /\ L[p] = Range(writers[p])
    BY <1>4
  <2>3. \A p, q \in Pipes : p # q => L[p] \cap L[q] = {}
    BY <2>2, ListsApart
  <2>4. UNION {L[p] : p \in Pipes} = UNION {Range(writers[p]) : p \in Pipes}
    BY <2>2
  <2> HIDE DEF L
  <2>5. ListOf(InOrder(writers), UNION {Range(writers[p]) : p \in Pipes})
    BY <2>2, <2>3, <2>4, InOrderIs
  <2>6. /\ writers' \in [Pipes -> Seq(Threads)]
        /\ \A p \in Pipes : writers'[p] = IF p \in Pipes THEN <<>> ELSE writers[p]
    BY <1>3, <2>1
  <2> QED BY <1>1, <1>2, <1>3, <2>1, <2>5, <2>6, WritersTaken
<1> QED BY <1>5, <1>6

LEMMA PublishHost ==
    ASSUME HostInv, todo # <<>>, Head(todo).k = "publish", PublishAnswer(Head(todo).t, Tail(todo))
    PROVE  HostInv'
<1> DEFINE B == Busy(todo)
           R == Ran(todo)
           t == Head(todo).t
<1>1. /\ StackIs(todo, B, R) /\ Places /\ LinesOK(readers, writers, polls) /\ ChansOK(chan)
      /\ wakes \in Seq(Event) /\ wakeScheduled \in BOOLEAN
    BY HostFacts
<1>2. t \in Threads /\ Served(Head(todo)) = {t}
    BY TailIs, FrameCases DEF HostInv, Served, Serves
<1>3. StackIs(Tail(todo), B \ {t}, R \ {t}) /\ {t} \subseteq B
    BY <1>1, <1>2, PopIs
<1>4. t \notin R
    BY <1>1, PublishedNotRun
<1>5. /\ chan' = [chan EXCEPT ![t] = [st |-> "guest", call |-> NoCall]] /\ todo' = Tail(todo)
      /\ UNCHANGED <<kernel, host>>
    BY DEF PublishAnswer
<1>6. PlacesOK(Sets(readers), Sets(writers), Range(polls), B, R, timers, chan)
    BY <1>1 DEF Places
<1> HIDE DEF B, R, t
<1>7. \A v \in Threads : v # t => chan'[v] = chan[v]
    BY <1>1, <1>5 DEF ChansOK
<1>8. R \ {t} = R
    BY <1>4
<1>9. PlacesOK(Sets(readers), Sets(writers), Range(polls), B \ {t}, R, timers, chan')
    BY <1>3, <1>4, <1>6, <1>7, Published
<1>10. ChansOK(chan')
    BY <1>1, <1>2, <1>5 DEF ChansOK, States
<1>11. UNCHANGED <<wakes, readers, writers, polls, timers, wakeScheduled>>
    BY <1>5 DEF kernel, host
<1> QED BY <1>1, <1>3, <1>5, <1>8, <1>9, <1>10, <1>11, HostMade

LEMMA DropAllIs ==
    ASSUME NEW ls \in [Pipes -> Seq(Threads)], \A p \in Pipes : Line(ls[p]), NEW u
    PROVE  /\ DropAll(ls, u) \in [Pipes -> Seq(Threads)]
           /\ \A p \in Pipes : Line(DropAll(ls, u)[p])
           /\ Sets(DropAll(ls, u)) \in PlaceSets
           /\ \A p \in Pipes : Sets(DropAll(ls, u))[p] = Range(ls[p]) \ {u}
<1> DEFINE d == DropAll(ls, u)
<1>1. d = [p \in Pipes |-> Drop(ls[p], u)]
    BY DEF DropAll
<1>2. ASSUME NEW p \in Pipes PROVE ListOf(Drop(ls[p], u), Range(ls[p]) \ {u})
  <2>1. ListOf(ls[p], Range(ls[p]))
    BY LineList
  <2> QED BY <2>1, DropIs
<1>3. \A p \in Pipes : /\ d[p] \in Seq(Threads) /\ Line(d[p]) /\ Range(d[p]) = Range(ls[p]) \ {u}
                       /\ Range(d[p]) \subseteq Threads
  <2> SUFFICES ASSUME NEW p \in Pipes
               PROVE  /\ d[p] \in Seq(Threads) /\ Line(d[p]) /\ Range(d[p]) = Range(ls[p]) \ {u}
                      /\ Range(d[p]) \subseteq Threads
    OBVIOUS
  <2>1. ListOf(d[p], Range(ls[p]) \ {u})
    BY <1>1, <1>2
  <2>2. d[p] \in Seq(Threads)
    BY <2>1 DEF ListOf
  <2> QED BY <2>1, <2>2, LineList, RangeIs
<1>4. d \in [Pipes -> Seq(Threads)]
    BY <1>1, <1>3
<1> HIDE DEF d
<1> QED BY <1>3, <1>4 DEF Sets, PlaceSets, d

LEMMA CancelHost ==
    ASSUME HostInv, todo # <<>>, Head(todo).k = "cancel", CancelParked(Head(todo).t, Tail(todo))
    PROVE  HostInv'
<1> DEFINE B == Busy(todo)
           R == Ran(todo)
           u == Head(todo).t
           found == \/ u \in Range(polls)
                    \/ \E p \in Pipes : u \in Range(readers[p]) \cup Range(writers[p])
<1>1. /\ StackIs(todo, B, R) /\ Places /\ LinesOK(readers, writers, polls) /\ ChansOK(chan)
      /\ Sets(readers) \in PlaceSets /\ Sets(writers) \in PlaceSets
      /\ \A p \in Pipes : /\ Sets(readers)[p] = Range(readers[p])
                          /\ Sets(writers)[p] = Range(writers[p])
      /\ ListOf(polls, Range(polls))
      /\ wakes \in Seq(Event) /\ wakeScheduled \in BOOLEAN
    BY HostFacts
<1>2. u \in Threads /\ ~ Serves(Head(todo))
    BY TailIs, FrameCases DEF HostInv, Serves
<1>3. StackIs(Tail(todo), B, R)
    BY <1>1, <1>2, PopQuiet
<1>4. /\ polls' = Drop(polls, u) /\ readers' = DropAll(readers, u) /\ writers' = DropAll(writers, u)
      /\ timers' = IF found THEN timers \ {u} ELSE timers
      /\ todo' = IF found THEN Completion(u) \o Tail(todo) ELSE Tail(todo)
      /\ UNCHANGED <<kernel, chan, wakeScheduled>>
    BY DEF CancelParked
<1>5. wakes' = wakes /\ chan' = chan /\ wakeScheduled' = wakeScheduled
    BY <1>4 DEF kernel
<1>6. PlacesOK(Sets(readers), Sets(writers), Range(polls), B, R, timers, chan)
    BY <1>1 DEF Places
<1> HIDE DEF B, R, u
<1>7. /\ readers \in [Pipes -> Seq(Threads)] /\ \A p \in Pipes : Line(readers[p])
      /\ writers \in [Pipes -> Seq(Threads)] /\ \A p \in Pipes : Line(writers[p])
    BY <1>1 DEF LinesOK
<1>8. /\ readers' \in [Pipes -> Seq(Threads)] /\ \A p \in Pipes : Line(readers'[p])
      /\ Sets(readers') \in PlaceSets
      /\ \A p \in Pipes : Sets(readers')[p] = Sets(readers)[p] \ {u}
  <2>1. readers \in [Pipes -> Seq(Threads)] /\ \A p \in Pipes : Line(readers[p])
    BY <1>7
  <2>2. /\ DropAll(readers, u) \in [Pipes -> Seq(Threads)]
        /\ \A p \in Pipes : Line(DropAll(readers, u)[p])
        /\ Sets(DropAll(readers, u)) \in PlaceSets
        /\ \A p \in Pipes : Sets(DropAll(readers, u))[p] = Range(readers[p]) \ {u}
    BY <2>1, DropAllIs
  <2>3. readers' = DropAll(readers, u)
    BY <1>4
  <2>4. \A p \in Pipes : Sets(readers)[p] = Range(readers[p])
    BY <1>1
  <2> QED BY <2>2, <2>3, <2>4
<1>9. /\ writers' \in [Pipes -> Seq(Threads)] /\ \A p \in Pipes : Line(writers'[p])
      /\ Sets(writers') \in PlaceSets
      /\ \A p \in Pipes : Sets(writers')[p] = Sets(writers)[p] \ {u}
  <2>1. writers \in [Pipes -> Seq(Threads)] /\ \A p \in Pipes : Line(writers[p])
    BY <1>7
  <2>2. /\ DropAll(writers, u) \in [Pipes -> Seq(Threads)]
        /\ \A p \in Pipes : Line(DropAll(writers, u)[p])
        /\ Sets(DropAll(writers, u)) \in PlaceSets
        /\ \A p \in Pipes : Sets(DropAll(writers, u))[p] = Range(writers[p]) \ {u}
    BY <2>1, DropAllIs
  <2>3. writers' = DropAll(writers, u)
    BY <1>4
  <2>4. \A p \in Pipes : Sets(writers)[p] = Range(writers[p])
    BY <1>1
  <2> QED BY <2>2, <2>3, <2>4
<1>10. Line(polls') /\ Range(polls') = Range(polls) \ {u}
  <2>1. ListOf(polls', Range(polls) \ {u})
    BY <1>1, <1>4, DropIs
  <2> QED BY <2>1, LineList
<1>11. LinesOK(readers', writers', polls')
    BY <1>8, <1>9, <1>10 DEF LinesOK
<1>12. CASE found
  <2>1. u \in Range(polls) \/ \E p \in Pipes : u \in Sets(readers)[p] \cup Sets(writers)[p]
    BY <1>1, <1>12
  <2>2. /\ u \notin B
        /\ PlacesOK(Sets(readers'), Sets(writers'), Range(polls) \ {u}, B \cup {u}, R, timers \ {u}, chan)
    <3>1. IsParked(u, Sets(readers), Sets(writers), Range(polls))
        BY <2>1 DEF IsParked
    <3>2. Without(Sets(readers'), Sets(readers), u)
        BY <1>8 DEF Without
    <3>3. Without(Sets(writers'), Sets(writers), u)
        BY <1>9 DEF Without
    <3> QED BY <1>6, <3>1, <3>2, <3>3, Withdrawn
  <2>3. StackIs(Completion(u), {u}, {}) /\ {u} \cap B = {}
    BY <1>2, <2>2, CompletionIs
  <2>4. todo' = Completion(u) \o Tail(todo) /\ timers' = timers \ {u}
    BY <1>4, <1>12
  <2>5. StackIs(todo', {u} \cup B, {} \cup R)
    BY <1>3, <2>3, <2>4, JoinStacks
  <2>6. {u} \cup B = B \cup {u} /\ {} \cup R = R
    OBVIOUS
  <2> QED BY <1>1, <1>5, <1>10, <1>11, <2>2, <2>4, <2>5, <2>6, HostMade
<1>13. CASE ~ found
  <2>1. todo' = Tail(todo) /\ timers' = timers
    BY <1>4, <1>13
  <2>2. \A p \in Pipes : u \notin Sets(readers)[p] /\ u \notin Sets(writers)[p]
    BY <1>1, <1>13
  <2>3. Sets(readers') = Sets(readers) /\ Sets(writers') = Sets(writers)
    <3>1. \A p \in Pipes : Sets(readers')[p] = Sets(readers)[p]
      <4>1. \A p \in Pipes : Sets(readers')[p] = Sets(readers)[p] \ {u}
        BY <1>8
      <4> QED BY <2>2, <4>1
    <3>2. \A p \in Pipes : Sets(writers')[p] = Sets(writers)[p]
      <4>1. \A p \in Pipes : Sets(writers')[p] = Sets(writers)[p] \ {u}
        BY <1>9
      <4> QED BY <2>2, <4>1
    <3> QED BY <1>1, <1>8, <1>9, <3>1, <3>2 DEF PlaceSets
  <2>4. Range(polls') = Range(polls)
    BY <1>10, <1>13
  <2> QED BY <1>1, <1>3, <1>5, <1>6, <1>11, <2>1, <2>3, <2>4, HostMade
<1> QED BY <1>12, <1>13

-----------------------------------------------------------------------------
(* Steps that begin with an empty stack *)
LEMMA EmptyStack ==
    ASSUME HostInv, todo = <<>>
    PROVE  Busy(todo) = {} /\ Ran(todo) = {} /\ Range(todo) = {}
<1>1. todo \in Seq(Frames)
    BY DEF HostInv
<1>2. Range(todo) = {}
    BY <1>1, RangeIs
<1> QED BY <1>2 DEF Busy, Ran

(* Polls are taken out of their list, to be run (M) or answered. *)
LEMMA PollsTaken ==
    ASSUME HostInv, todo = <<>>, NEW N \in SUBSET Range(polls), NEW M \in {N, {}},
           StackIs(todo', N, M), ListOf(polls', Range(polls) \ N), wakeScheduled' \in BOOLEAN,
           UNCHANGED <<kernel, chan, readers, writers, timers>>
    PROVE  HostInv'
<1>1. /\ Places /\ LinesOK(readers, writers, polls) /\ ChansOK(chan) /\ wakes \in Seq(Event)
    BY HostFacts
<1>2. PlacesOK(Sets(readers), Sets(writers), Range(polls), {}, {}, timers, chan)
    BY <1>1, EmptyStack DEF Places
<1>3. PlacesOK(Sets(readers), Sets(writers), Range(polls) \ N, {} \cup N, {} \cup M, timers, chan)
    BY <1>2, TakesPolls
<1>4. {} \cup N = N /\ {} \cup M = M
    OBVIOUS
<1>5. Line(polls') /\ Range(polls') = Range(polls) \ N
    BY LineList
<1>6. LinesOK(readers', writers', polls')
    BY <1>1, <1>5 DEF LinesOK
<1>7. wakes' = wakes /\ chan' = chan
    BY DEF kernel
<1>8. PlacesOK(Sets(readers'), Sets(writers'), Range(polls'), N, M, timers', chan')
    BY <1>3, <1>4, <1>5, <1>7
<1> QED BY <1>1, <1>6, <1>7, <1>8, HostMade

LEMMA BroadWakeHost ==
    ASSUME HostInv, BroadWake
    PROVE  /\ HostInv' /\ Range(polls') = {}
           /\ Range(todo') = {Run(t) : t \in Range(polls)} \cup {Frame("readers"), Frame("writers")}
<1> DEFINE N == Range(polls)
           z == <<Frame("readers"), Frame("writers")>>
<1>1. ListOf(polls, N)
    BY HostFacts
<1>2. /\ todo = <<>> /\ wakeScheduled' = FALSE /\ todo' = Runs(polls) \o z /\ polls' = <<>>
      /\ UNCHANGED <<kernel, chan, readers, writers, timers>>
    BY DEF BroadWake
<1>3. /\ z \in Seq(Frames) /\ Range(z) = {Frame("readers"), Frame("writers")}
      /\ \A f \in Range(z) : ~ Serves(f)
    BY FrameTypes, TwoFrames DEF Serves
<1>4. StackIs(z, {}, {})
    BY <1>3, QuietStack
<1> HIDE DEF z
<1>5. StackIs(Runs(polls), N, N)
    BY <1>1, RunsStack
<1> HIDE DEF N
<1>6. N \cap {} = {} /\ N \cup {} = N /\ N \ N = {}
    OBVIOUS
<1>7. StackIs(todo', N \cup {}, N \cup {}) /\ Range(todo') = Range(Runs(polls)) \cup Range(z)
    BY <1>2, <1>4, <1>5, <1>6, JoinStacks
<1>8. StackIs(todo', N, N) /\ ListOf(polls', N \ N)
    BY <1>2, <1>6, <1>7, EmptyList
<1>9. HostInv'
    BY <1>2, <1>8, PollsTaken DEF N
<1>10. Range(Runs(polls)) = {Run(t) : t \in N}
    BY <1>1, RunsIs
<1>11. Range(polls') = {}
    BY <1>6, <1>8, LineList
<1> QED BY <1>3, <1>7, <1>9, <1>10, <1>11 DEF N

LEMMA PollTimerHost ==
    ASSUME HostInv, NEW t, PollTimer(t) \/ PollDeadline(t)
    PROVE  HostInv' /\ Range(polls') = Range(polls) \ {t}
<1>1. ListOf(polls, Range(polls)) /\ Range(polls) \subseteq Threads
    BY HostFacts
<1>2. /\ todo = <<>> /\ t \in Range(polls) /\ polls' = Drop(polls, t)
      /\ UNCHANGED <<kernel, chan, readers, writers, timers, wakeScheduled>>
      /\ todo' = <<Run(t)>> \/ todo' = Completion(t)
    BY DEF PollTimer, PollDeadline
<1>3. t \in Threads
    BY <1>1, <1>2
<1>4. ListOf(polls', Range(polls) \ {t})
    BY <1>1, <1>2, DropIs
<1>5. wakeScheduled' \in BOOLEAN /\ {t} \in SUBSET Range(polls)
    BY <1>2 DEF HostInv
<1>6. StackIs(<<Run(t)>>, {t}, {t})
    BY <1>3, OneFrame, FrameTypes DEF Served
<1>7. StackIs(Completion(t), {t}, {})
    BY <1>3, CompletionIs
<1>8. StackIs(todo', {t}, {t}) \/ StackIs(todo', {t}, {})
    BY <1>2, <1>6, <1>7
<1>9. HostInv'
    BY <1>2, <1>4, <1>5, <1>8, PollsTaken
<1> QED BY <1>4, <1>9, LineList

LEMMA SocketTimeoutHost ==
    ASSUME HostInv, NEW t, SocketTimeout(t)
    PROVE  HostInv' /\ \A p \in Pipes : Range(readers'[p]) = Range(readers[p]) \ {t}
<1>1. /\ Places /\ LinesOK(readers, writers, polls) /\ ChansOK(chan)
      /\ Sets(readers) \in PlaceSets /\ Sets(writers) \in PlaceSets
      /\ \A p \in Pipes : Sets(readers)[p] = Range(readers[p]) /\ Sets(writers)[p] = Range(writers[p])
      /\ wakes \in Seq(Event) /\ wakeScheduled \in BOOLEAN
    BY HostFacts
<1>2. /\ todo = <<>> /\ t \in timers /\ timers' = timers \ {t} /\ readers' = DropAll(readers, t)
      /\ todo' = Completion(t) /\ UNCHANGED <<kernel, chan, writers, polls, wakeScheduled>>
    BY DEF SocketTimeout
<1>3. PlacesOK(Sets(readers), Sets(writers), Range(polls), {}, {}, timers, chan)
    BY <1>1, <1>2, EmptyStack DEF Places
<1>4. PICK q \in Pipes : t \in Range(readers[q])
    BY <1>1, <1>2, <1>3 DEF PlacesOK
<1>5. /\ readers \in [Pipes -> Seq(Threads)] /\ \A p \in Pipes : Line(readers[p])
    BY <1>1 DEF LinesOK
<1>6. /\ readers' \in [Pipes -> Seq(Threads)] /\ \A p \in Pipes : Line(readers'[p])
      /\ Sets(readers') \in PlaceSets
      /\ \A p \in Pipes : Sets(readers')[p] = Sets(readers)[p] \ {t}
    BY <1>1, <1>2, <1>5, DropAllIs
<1>7. Range(polls) \ {t} = Range(polls) /\ \A p \in Pipes : Sets(writers)[p] = Sets(writers)[p] \ {t}
    BY <1>1, <1>4, ListsApart
<1>8. t \in Range(polls) \/ \E p \in Pipes : t \in Sets(readers)[p] \cup Sets(writers)[p]
    BY <1>1, <1>4
<1>9. /\ t \in Threads
      /\ PlacesOK(Sets(readers'), Sets(writers), Range(polls) \ {t}, {} \cup {t}, {}, timers \ {t}, chan)
  <2>1. IsParked(t, Sets(readers), Sets(writers), Range(polls))
    BY <1>8 DEF IsParked
  <2>2. Without(Sets(readers'), Sets(readers), t)
    BY <1>6 DEF Without
  <2>3. Without(Sets(writers), Sets(writers), t)
    BY <1>7 DEF Without
  <2> QED BY <1>3, <2>1, <2>2, <2>3, Withdrawn
<1>10. {} \cup {t} = {t}
    OBVIOUS
<1>11. StackIs(todo', {t}, {})
    BY <1>2, <1>9, CompletionIs
<1>12. LinesOK(readers', writers', polls')
    BY <1>1, <1>2, <1>6 DEF LinesOK
<1>13. wakes' = wakes
    BY <1>2 DEF kernel
<1>14. HostInv'
    BY <1>1, <1>2, <1>7, <1>9, <1>10, <1>11, <1>12, <1>13, HostMade
<1>15. \A p \in Pipes : Range(readers'[p]) = Sets(readers')[p]
    BY DEF Sets
<1> QED BY <1>1, <1>6, <1>14, <1>15

LEMMA HandedHost ==
    ASSUME HostInv, todo = <<>>, NEW N, NEW M, StackIs(todo', N, M), ChansOK(chan'),
           Handing(chan, chan', N, M), wakes' \in Seq(Event), UNCHANGED host
    PROVE  HostInv'
<1>1. /\ Places /\ LinesOK(readers, writers, polls) /\ wakeScheduled \in BOOLEAN
    BY HostFacts
<1>2. PlacesOK(Sets(readers), Sets(writers), Range(polls), {}, {}, timers, chan)
    BY <1>1, EmptyStack DEF Places
<1>3. PlacesOK(Sets(readers), Sets(writers), Range(polls), {} \cup N, {} \cup M, timers, chan')
    BY <1>2, Handed
<1>4. {} \cup N = N /\ {} \cup M = M
    OBVIOUS
<1>5. UNCHANGED <<readers, writers, polls, timers, wakeScheduled>>
    BY DEF host
<1> QED BY <1>1, <1>3, <1>4, <1>5, HostMade

(* The channels of one or two threads change. *)
LEMMA OneChan ==
    ASSUME ChansOK(chan), NEW t \in Threads, NEW s \in States, NEW c \in CallSet \cup {NoCall},
           s = "submitted" => c \in CallSet, chan' = [chan EXCEPT ![t] = [st |-> s, call |-> c]]
    PROVE  /\ ChansOK(chan') /\ chan'[t].st = s /\ chan'[t].call = c
           /\ \A v \in Threads : v # t => chan'[v] = chan[v]
BY DEF ChansOK

LEMMA SubmitHost ==
    ASSUME HostInv, NEW t \in Threads, NEW c \in CallSet, Submit(t, c)
    PROVE  HostInv'
<1>1. ChansOK(chan) /\ StackIs(todo, Busy(todo), Ran(todo)) /\ wakes \in Seq(Event)
    BY HostFacts
<1>2. /\ todo = <<>> /\ chan[t].st = "guest" /\ todo' = todo
      /\ chan' = [chan EXCEPT ![t] = [st |-> "submitted", call |-> c]]
      /\ UNCHANGED <<kernel, host>>
    BY DEF Submit
<1>3. /\ ChansOK(chan') /\ chan'[t].st = "submitted"
      /\ \A v \in Threads : v # t => chan'[v] = chan[v]
    BY <1>1, <1>2, OneChan DEF States
<1>4. StackIs(todo', {}, {})
    BY <1>1, <1>2, EmptyStack
<1>5. Handing(chan, chan', {}, {})
    BY <1>2, <1>3 DEF Handing
<1>6. wakes' \in Seq(Event) /\ UNCHANGED host
    BY <1>1, <1>2 DEF kernel
<1> QED BY <1>2, <1>3, <1>4, <1>5, <1>6, HandedHost

LEMMA ListenHost ==
    ASSUME HostInv, NEW t \in Threads, Listen(t)
    PROVE  HostInv'
<1>1. ChansOK(chan) /\ wakes \in Seq(Event)
    BY HostFacts
<1>2. /\ todo = <<>> /\ chan[t].st = "submitted" /\ todo' = <<Run(t)>>
      /\ chan' = [chan EXCEPT ![t].st = "host"]
      /\ UNCHANGED <<kernel, host>>
    BY DEF Listen
<1>3. chan[t].call \in CallSet
    BY <1>1, <1>2 DEF ChansOK
<1>5. /\ ChansOK(chan') /\ chan'[t].st = "host" /\ chan'[t].call = chan[t].call
      /\ \A v \in Threads : v # t => chan'[v] = chan[v]
    BY <1>1, <1>2, <1>3 DEF ChansOK, States
<1>6. StackIs(todo', {t}, {t})
    BY <1>2, OneFrame, FrameTypes DEF Served
<1>7. Handing(chan, chan', {t}, {t})
    BY <1>2, <1>3, <1>5 DEF Handing
<1>8. wakes' \in Seq(Event) /\ UNCHANGED host
    BY <1>1, <1>2 DEF kernel
<1> QED BY <1>2, <1>5, <1>6, <1>7, <1>8, HandedHost

LEMMA ImmediateHost ==
    ASSUME HostInv, NEW t \in Threads, NEW events \in Seq(Event), Immediate(t, events),
           UNCHANGED host
    PROVE  /\ HostInv' /\ Range(wakes') = Range(wakes) \cup Range(events)
           /\ Range(todo') = {Drain(<<>>), Publish(t)}
           /\ \A v \in Threads : v # t => chan'[v] = chan[v]
<1>1. ChansOK(chan) /\ wakes \in Seq(Event)
    BY HostFacts
<1>2. /\ todo = <<>> /\ chan[t].st = "guest" /\ todo' = Completion(t)
      /\ chan' = [chan EXCEPT ![t] = [st |-> "host", call |-> NoCall]]
      /\ wakes' = wakes \o events
    BY DEF Immediate
<1>3. /\ ChansOK(chan') /\ chan'[t].st = "host"
      /\ \A v \in Threads : v # t => chan'[v] = chan[v]
    BY <1>1, <1>2, OneChan DEF States
<1>4. StackIs(todo', {t}, {}) /\ Range(todo') = {Drain(<<>>), Publish(t)}
    BY <1>2, CompletionIs
<1>5. Handing(chan, chan', {t}, {})
    BY <1>2, <1>3 DEF Handing
<1>6. wakes' \in Seq(Event) /\ Range(wakes') = Range(wakes) \cup Range(events)
    BY <1>1, <1>2, ConcatIs
<1>7. HostInv'
    BY <1>2, <1>3, <1>4, <1>5, <1>6, HandedHost
<1> QED BY <1>3, <1>4, <1>6, <1>7

LEMMA ForkHost ==
    ASSUME HostInv, NEW t \in Threads, NEW u \in Threads, Fork(t, u)
    PROVE  HostInv' /\ wakes' = wakes \o EventsOf(ProcOf[t])
<1>1. ChansOK(chan) /\ wakes \in Seq(Event) /\ StackIs(todo, Busy(todo), Ran(todo))
    BY HostFacts
<1>2. /\ todo = <<>> /\ chan[t].st = "guest" /\ chan[u].st = "none" /\ t # u
      /\ chan' = [chan EXCEPT ![t] = [st |-> "forking", call |-> NoCall],
                              ![u] = [st |-> "launching", call |-> NoCall]]
      /\ wakes' = wakes \o EventsOf(ProcOf[t]) /\ UNCHANGED host /\ todo' = todo
    BY DEF Fork
<1>3. ChansOK(chan') /\ \A v \in Threads : v \notin {t, u} => chan'[v] = chan[v]
    BY <1>1, <1>2 DEF ChansOK, States
<1>4. StackIs(todo', {}, {})
    BY <1>1, <1>2, EmptyStack
<1>5. Handing(chan, chan', {}, {})
    BY <1>2, <1>3 DEF Handing
<1>6. wakes' \in Seq(Event)
    BY <1>1, <1>2, EventsOfIs, ConcatIs
<1>7. HostInv'
    BY <1>2, <1>3, <1>4, <1>5, <1>6, HandedHost
<1> QED BY <1>2, <1>7

LEMMA LaunchedHost ==
    ASSUME HostInv, NEW t \in Threads, NEW u \in Threads, Launched(t, u)
    PROVE  HostInv'
<1>1. ChansOK(chan) /\ wakes \in Seq(Event)
    BY HostFacts
<1>2. /\ todo = <<>> /\ chan[t].st = "forking" /\ chan[u].st = "launching" /\ t # u
      /\ chan' = [chan EXCEPT ![t].st = "host", ![u].st = "guest"]
      /\ todo' = Completion(t) /\ UNCHANGED <<kernel, host>>
    BY DEF Launched
<1>3. /\ ChansOK(chan') /\ chan'[t].st = "host"
      /\ \A v \in Threads : v \notin {t, u} => chan'[v] = chan[v]
    BY <1>1, <1>2 DEF ChansOK, States
<1>4. StackIs(todo', {t}, {})
    BY <1>2, CompletionIs
<1>5. Handing(chan, chan', {t}, {})
    BY <1>2, <1>3 DEF Handing
<1>6. wakes' \in Seq(Event) /\ UNCHANGED host
    BY <1>1, <1>2 DEF kernel
<1> QED BY <1>2, <1>3, <1>4, <1>5, <1>6, HandedHost

LEMMA RollbackHost ==
    ASSUME HostInv, NEW t \in Threads, NEW u \in Threads, rollbackFork(t, u)
    PROVE  /\ HostInv' /\ Range(wakes') = Range(wakes) \cup Announced(pipe, ProcOf[u])
           /\ Drain(<<>>) \in Range(todo')
<1>1. ChansOK(chan) /\ wakes \in Seq(Event)
    BY HostFacts
<1>2. /\ todo = <<>> /\ chan[t].st = "forking" /\ chan[u].st = "launching" /\ t # u
      /\ chan' = [chan EXCEPT ![t].st = "host", ![u].st = "none"]
      /\ wakes' = wakes \o EventsOf(ProcOf[u])
      /\ todo' = <<Drain(<<>>)>> \o Completion(t) /\ UNCHANGED host
    BY DEF rollbackFork
<1>3. /\ ChansOK(chan') /\ chan'[t].st = "host"
      /\ \A v \in Threads : v \notin {t, u} => chan'[v] = chan[v]
    BY <1>1, <1>2 DEF ChansOK, States
<1>4. /\ StackIs(Completion(t), {t}, {}) /\ Drain(<<>>) \in Frames
      /\ ~ Serves(Drain(<<>>)) /\ Drain(<<>>) \in Range(Completion(t))
    BY CompletionIs DEF Serves
<1>5. StackIs(<<Drain(<<>>)>>, {}, {})
    BY <1>4, OneFrame DEF Served, Serves
<1>6. {} \cap {t} = {} /\ {} \cup {t} = {t} /\ {} \cup {} = {}
    OBVIOUS
<1> DEFINE a == <<Drain(<<>>)>>
           b == Completion(t)
<1> HIDE DEF a, b
<1>7. StackIs(a, {}, {}) /\ StackIs(b, {t}, {}) /\ todo' = a \o b
    BY <1>2, <1>4, <1>5 DEF a, b
<1>8. StackIs(a \o b, {} \cup {t}, {} \cup {}) /\ Range(a \o b) = Range(a) \cup Range(b)
    BY <1>6, <1>7, JoinStacks
<1>9. StackIs(todo', {t}, {}) /\ Drain(<<>>) \in Range(todo')
    BY <1>4, <1>6, <1>7, <1>8 DEF b
<1>10. Handing(chan, chan', {t}, {})
    BY <1>2, <1>3 DEF Handing
<1>11. wakes' \in Seq(Event) /\ Range(wakes') = Range(wakes) \cup Announced(pipe, ProcOf[u])
    BY <1>1, <1>2, EventsOfIs, ConcatIs
<1>12. HostInv'
    BY <1>2, <1>3, <1>9, <1>10, <1>11, HandedHost
<1> QED BY <1>9, <1>11, <1>12

LEMMA ExitHost ==
    ASSUME HostInv, NEW t \in Threads, Exit(t)
    PROVE  /\ HostInv' /\ Range(wakes') = Range(wakes) \cup Announced(pipe, ProcOf[t])
           /\ Range(todo') = {Drain(<<>>), Frame("schedule")}
<1>1. ChansOK(chan) /\ wakes \in Seq(Event)
    BY HostFacts
<1>2. /\ todo = <<>> /\ chan[t].st = "guest"
      /\ chan' = [chan EXCEPT ![t] = [st |-> "none", call |-> NoCall]]
      /\ wakes' = wakes \o EventsOf(ProcOf[t])
      /\ todo' = <<Drain(<<>>), Frame("schedule")>> /\ UNCHANGED host
    BY DEF Exit
<1>3. /\ ChansOK(chan') /\ \A v \in Threads : v # t => chan'[v] = chan[v]
    BY <1>1, <1>2, OneChan DEF States
<1>4. /\ Drain(<<>>) \in Frames /\ Frame("schedule") \in Frames
      /\ ~ Serves(Drain(<<>>)) /\ ~ Serves(Frame("schedule"))
    BY CompletionIs, FrameTypes DEF Serves
<1>5. todo' \in Seq(Frames) /\ Range(todo') = {Drain(<<>>), Frame("schedule")}
    BY <1>2, <1>4, TwoFrames
<1>6. StackIs(todo', {}, {})
    BY <1>4, <1>5, QuietStack
<1>7. Handing(chan, chan', {}, {})
    BY <1>2, <1>3 DEF Handing
<1>8. wakes' \in Seq(Event) /\ Range(wakes') = Range(wakes) \cup Announced(pipe, ProcOf[t])
    BY <1>1, <1>2, EventsOfIs, ConcatIs
<1>9. HostInv'
    BY <1>2, <1>3, <1>6, <1>7, <1>8, HandedHost
<1> QED BY <1>5, <1>8, <1>9

LEMMA ThreadCancelHost ==
    ASSUME HostInv, NEW t \in Threads, NEW u \in Threads, handleThreadCancel(t, u)
    PROVE  HostInv'
<1>1. ChansOK(chan) /\ wakes \in Seq(Event)
    BY HostFacts
<1>2. /\ todo = <<>> /\ chan[t].st = "guest" /\ todo' = Append(Completion(t), Cancel(u))
      /\ chan' = [chan EXCEPT ![t] = [st |-> "host", call |-> NoCall]]
      /\ UNCHANGED <<kernel, host>>
    BY DEF handleThreadCancel
<1>3. /\ ChansOK(chan') /\ chan'[t].st = "host"
      /\ \A v \in Threads : v # t => chan'[v] = chan[v]
    BY <1>1, <1>2, OneChan DEF States
<1> DEFINE a == Completion(t)
           f == Cancel(u)
<1>4. StackIs(a, {t}, {}) /\ f \in Frames /\ ~ Serves(f)
    BY CompletionIs, FrameTypes
<1> HIDE DEF a, f
<1>5. a \in Seq(Frames) /\ f.k # "run"
    BY <1>4 DEF StackIs, Serves
<1>6. StackIs(<<f>>, {}, {})
    BY <1>4, <1>5, OneFrame DEF Served
<1>7. Append(a, f) = a \o <<f>>
    BY <1>4, <1>5
<1>8. {t} \cap {} = {} /\ {t} \cup {} = {t} /\ {} \cup {} = {}
    OBVIOUS
<1> DEFINE b == <<f>>
<1> HIDE DEF b
<1>9. StackIs(a \o b, {t} \cup {}, {} \cup {})
    BY <1>4, <1>6, <1>8, JoinStacks DEF b
<1>10. StackIs(todo', {t}, {})
    BY <1>2, <1>7, <1>8, <1>9 DEF a, b, f
<1>11. Handing(chan, chan', {t}, {})
    BY <1>2, <1>3 DEF Handing
<1>12. wakes' \in Seq(Event) /\ UNCHANGED host
    BY <1>1, <1>2 DEF kernel
<1> QED BY <1>2, <1>3, <1>10, <1>11, <1>12, HandedHost

-----------------------------------------------------------------------------
(* The host's invariant holds. *)
LEMMA RunIs ==
    ASSUME HostInv, todo # <<>>, NEW t, Head(todo) = Run(t), t \in Threads
    PROVE  /\ chan[t].st = "host" /\ chan[t].call \in CallSet /\ t \in Ran(todo)
           /\ \A p \in Pipes : t \notin Range(readers[p]) /\ t \notin Range(writers[p])
           /\ t \notin Range(polls)
<1>1. /\ StackIs(todo, Busy(todo), Ran(todo)) /\ Places
      /\ \A p \in Pipes : Sets(readers)[p] = Range(readers[p]) /\ Sets(writers)[p] = Range(writers[p])
    BY HostFacts
<1>2. Range(todo) = {Head(todo)} \cup Range(Tail(todo))
    BY <1>1, PopIs
<1>3. t \in Ran(todo)
    BY <1>2 DEF Ran
<1> QED BY <1>1, <1>3 DEF Places, PlacesOK, Awaits

LEMMA HandleHost ==
    ASSUME UntimedWrites, HostInv, todo # <<>>, NEW t, Head(todo) = Run(t), t \in Threads,
           HandleSyscall(t, Tail(todo))
    PROVE  HostInv'
<1>1. CASE /\ Park(t, chan[t].call) /\ todo' = Tail(todo)
           /\ UNCHANGED <<kernel, chan, wakeScheduled>>
    BY <1>1, RunBlockedHost
<1>2. CASE /\ KernelCall(t, chan[t].call)
           /\ timers' = timers \ {t} /\ polls' = Drop(polls, t)
           /\ todo' = Completion(t) \o Tail(todo)
           /\ UNCHANGED <<chan, readers, writers, wakeScheduled>>
  <2>1. chan[t].call \in CallSet
    BY RunIs
  <2>2. wakes' \in Seq(Event)
    BY <1>2, <2>1, EventsGrow
  <2> QED BY <1>2, <2>2, RunDoneHost
<1> QED BY <1>1, <1>2 DEF HandleSyscall

LEMMA HostStepHost ==
    ASSUME UntimedWrites, HostInv, HostStep
    PROVE  HostInv'
<1> DEFINE f == Head(todo)
<1>1. todo # <<>> /\ f \in Frames
    BY TailIs DEF HostStep, HostInv
<1>2. CASE f.k = "run" /\ HandleSyscall(f.t, Tail(todo))
    BY <1>1, <1>2, FrameCases, HandleHost
<1>3. CASE f.k = "drain" /\ TakeBatch(Tail(todo))
    BY <1>1, <1>3, DrainHost
<1>4. CASE f.k = "process" /\ ProcessEvent(f.e, Tail(todo))
    BY <1>1, <1>4, ProcessHost
<1>5. CASE f.k = "schedule" /\ ScheduleBroad(Tail(todo))
    BY <1>1, <1>5, ScheduleHost
<1>6. CASE f.k \in {"readers", "writers"} /\ WakeAll(f.k, Tail(todo))
    BY <1>1, <1>6, WakeAllHost
<1>7. CASE f.k = "publish" /\ PublishAnswer(f.t, Tail(todo))
    BY <1>1, <1>7, PublishHost
<1>8. CASE f.k = "cancel" /\ CancelParked(f.t, Tail(todo))
    BY <1>1, <1>8, CancelHost
<1> QED BY <1>2, <1>3, <1>4, <1>5, <1>6, <1>7, <1>8 DEF HostStep

LEMMA HostInitially == Init => HostInv
<1> SUFFICES ASSUME Init PROVE HostInv
    OBVIOUS
<1>1. todo = <<>> /\ wakes = <<>> /\ polls = <<>> /\ timers = {} /\ wakeScheduled = FALSE
    BY DEF Init
<1>2. todo \in Seq(Frames) /\ wakes \in Seq(Event)
    BY <1>1
<1>3. Range(todo) = {} /\ DOMAIN todo = {}
  <2>1. Range(todo) = {}
    BY <1>1, <1>2, RangeIs
  <2> QED BY <1>1, <2>1
<1>4. Once(todo) /\ Busy(todo) = {} /\ Ran(todo) = {}
    BY <1>3 DEF Once, Busy, Ran
<1>5. Line(<<>>) /\ Range(<<>>) = {}
    BY EmptyList, LineList
<1>6. readers = [p \in Pipes |-> <<>>] /\ writers = [p \in Pipes |-> <<>>] /\ <<>> \in Seq(Threads)
    BY DEF Init
<1>7. LinesOK(readers, writers, polls)
    BY <1>1, <1>5, <1>6 DEF LinesOK
<1>8. \A p \in Pipes : Sets(readers)[p] = {} /\ Sets(writers)[p] = {}
    BY <1>5, <1>6 DEF Sets
<1>9. Places
    BY <1>1, <1>4, <1>5, <1>8 DEF Places, PlacesOK
<1>10. ChansOK(chan)
    BY DEF Init, ChansOK, States
<1> QED BY <1>1, <1>2, <1>4, <1>7, <1>9, <1>10 DEF HostInv

LEMMA HostStays ==
    ASSUME HostInv, UNCHANGED vars
    PROVE  HostInv'
<1>1. /\ UNCHANGED <<chan, todo, wakes, readers, writers, polls, timers, wakeScheduled>>
    BY DEF vars, kernel, host
<1> QED BY <1>1 DEF HostInv, Places, Sets

LEMMA HostNext ==
    ASSUME UntimedWrites, HostInv, Next
    PROVE  HostInv'
<1>1. CASE HostStep
    BY <1>1, HostStepHost
<1>2. CASE BroadWake
    BY <1>2, BroadWakeHost
<1>3. ASSUME NEW t \in Threads, PollTimer(t) \/ PollDeadline(t) PROVE HostInv'
    BY <1>3, PollTimerHost
<1>4. ASSUME NEW t \in Threads, SocketTimeout(t) PROVE HostInv'
    BY <1>4, SocketTimeoutHost
<1>5. ASSUME NEW t \in Threads, Listen(t) PROVE HostInv'
    BY <1>5, ListenHost
<1>6. ASSUME NEW t \in Threads, Exit(t) PROVE HostInv'
    BY <1>6, ExitHost
<1>7. ASSUME NEW t \in Threads, NEW c \in CallSet, Submit(t, c) PROVE HostInv'
    BY <1>7, SubmitHost
<1>8. ASSUME NEW t \in Threads, NEW p \in Pipes,
             \/ CloseRead(t, p) \/ CloseWrite(t, p) \/ \E kind \in Kinds : sys_pipe(t, p, kind)
      PROVE  HostInv'
  <2>1. /\ <<>> \in Seq(Event) /\ <<Wake(p, "writable")>> \in Seq(Event)
        /\ <<Wake(p, "readable")>> \in Seq(Event)
    BY WakeType
  <2>2. \E events \in Seq(Event) : Immediate(t, events) /\ UNCHANGED host
    BY <1>8, <2>1 DEF CloseRead, CloseWrite, sys_pipe
  <2> QED BY <2>2, ImmediateHost
<1>9. ASSUME NEW t \in Threads, NEW u \in Threads, Fork(t, u) PROVE HostInv'
    BY <1>9, ForkHost
<1>10. ASSUME NEW t \in Threads, NEW u \in Threads, Launched(t, u) PROVE HostInv'
    BY <1>10, LaunchedHost
<1>11. ASSUME NEW t \in Threads, NEW u \in Threads, rollbackFork(t, u) PROVE HostInv'
    BY <1>11, RollbackHost
<1>12. ASSUME NEW t \in Threads, NEW u \in Threads, handleThreadCancel(t, u) PROVE HostInv'
    BY <1>12, ThreadCancelHost
<1> QED BY <1>1, <1>2, <1>3, <1>4, <1>5, <1>6, <1>7, <1>8, <1>9, <1>10, <1>11, <1>12 DEF Next

(* What is on the stack to be run or answered belongs to the host. *)
LEMMA ServedIsHeld == HostInv => RunOnlyUnanswered
<1> SUFFICES ASSUME HostInv, NEW i \in DOMAIN todo, todo[i].k \in {"run", "publish"}
             PROVE  chan[todo[i].t].st = "host"
    BY DEF RunOnlyUnanswered
<1>1. todo \in Seq(Frames) /\ Places
    BY DEF HostInv
<1>2. todo[i] \in Frames /\ todo[i] \in Range(todo)
    BY <1>1, RangeIs
<1>3. todo[i].t \in Busy(todo)
    BY <1>1, <1>2, BusyIs DEF Serves
<1> QED BY <1>1, <1>3 DEF Places, PlacesOK

-----------------------------------------------------------------------------
(* The ring *)
Wrap(a, m) == IF a < m THEN a ELSE a - m

LEMMA WrapIs ==
    ASSUME NEW m \in Nat \ {0}, NEW a \in 0 .. 2 * m - 1
    PROVE  a % m = Wrap(a, m) /\ Wrap(a, m) \in 0 .. m - 1
<1>1. CASE a < m
    BY <1>1 DEF Wrap
<1>2. CASE a >= m
  <2>1. a - m \in 0 .. m - 1
    BY <1>2
  <2>2. a % m = a - m
    BY <1>2, <2>1
  <2> QED BY <1>2, <2>1, <2>2 DEF Wrap
<1> QED BY <1>1, <1>2

LEMMA CapacityIs == Capacity \in Nat \ {0} /\ Capacity + 1 \in Nat \ {0}
BY PipesConstants

LEMMA NextIs ==
    ASSUME NEW g \in Numbers, NEW k \in Numbers
    PROVE  /\ Next1(g, k) = Wrap(g + k, Capacity + 1) /\ Next1(g, k) \in Numbers
           /\ Next1(g, 0) = g
<1>1. g + k \in 0 .. 2 * (Capacity + 1) - 1 /\ g + 0 \in 0 .. 2 * (Capacity + 1) - 1
    BY CapacityIs DEF Numbers
<1>2. (g + k) % (Capacity + 1) = Wrap(g + k, Capacity + 1)
    BY <1>1, CapacityIs, WrapIs
<1>3. Wrap(g + k, Capacity + 1) \in Numbers
    BY <1>1, CapacityIs DEF Wrap, Numbers
<1>4. (g + 0) % (Capacity + 1) = Wrap(g + 0, Capacity + 1)
    BY <1>1, CapacityIs, WrapIs
<1>5. Wrap(g + 0, Capacity + 1) = g
    BY CapacityIs DEF Wrap, Numbers
<1> QED BY <1>2, <1>3, <1>4, <1>5 DEF Next1

LEMMA NextTwice ==
    ASSUME NEW g \in Numbers, NEW k \in Numbers, NEW j \in Numbers, k + j \in Numbers
    PROVE  Next1(Next1(g, k), j) = Next1(g, k + j)
<1>1. Next1(g, k) = Wrap(g + k, Capacity + 1) /\ Next1(g, k) \in Numbers
    BY NextIs
<1>2. Next1(g, k + j) = Wrap(g + (k + j), Capacity + 1)
    BY NextIs
<1>3. Next1(Next1(g, k), j) = Wrap(Next1(g, k) + j, Capacity + 1)
    BY <1>1, NextIs
<1>4. Wrap(Wrap(g + k, Capacity + 1) + j, Capacity + 1) = Wrap(g + (k + j), Capacity + 1)
    BY CapacityIs DEF Wrap, Numbers
<1> QED BY <1>1, <1>2, <1>3, <1>4

LEMMA CellIs ==
    ASSUME NEW h \in Ends, NEW k \in Numbers
    PROVE  (h + k) % Capacity = Wrap(h + k, Capacity) /\ (h + k) % Capacity \in Ends
<1>1. h + k \in 0 .. 2 * Capacity - 1
    BY CapacityIs DEF Ends, Numbers
<1> QED BY <1>1, CapacityIs, WrapIs DEF Ends

(* How far a cell is from another one, around the end of the buffer *)
LEMMA DistanceIs ==
    ASSUME NEW h \in Ends, NEW i \in Ends
    PROVE  /\ (i - h + Capacity) % Capacity = Wrap(i - h + Capacity, Capacity)
           /\ (i - h + Capacity) % Capacity \in Ends
<1>1. i - h + Capacity \in 0 .. 2 * Capacity - 1
    BY CapacityIs DEF Ends
<1> QED BY <1>1, CapacityIs, WrapIs DEF Ends

LEMMA RingWritten ==
    ASSUME NEW b, NEW s, NEW g, RingOK(b, s, g), b.rd # {},
           NEW n \in Numbers, b.len + n <= Capacity
    PROVE  RingOK(Written(b, n, s), Next1(s, n), g)
<1> DEFINE c == Written(b, n, s)
           h == b.head
           l == b.len
           z == b.tail
<1>1. /\ b \in Buffer /\ s \in Numbers /\ g \in Numbers /\ h \in Ends /\ l \in Numbers
      /\ z = (h + l) % Capacity /\ z \in Ends /\ s = Next1(g, l)
      /\ \A k \in Numbers : k < l => b.buf[(h + k) % Capacity] = Next1(g, k)
    BY DEF RingOK, Buffer
<1>2. /\ c.buf = Stored(b, n, s) /\ c.head = h /\ c.tail = (z + n) % Capacity /\ c.len = l + n
      /\ c.rd = b.rd /\ c.wr = b.wr /\ c.kind = b.kind
    BY <1>1 DEF Written, Buffer
<1>3. \A i \in Ends : c.buf[i] = IF (i - z + Capacity) % Capacity < n
                                 THEN Next1(s, (i - z + Capacity) % Capacity) ELSE b.buf[i]
    BY <1>2 DEF Stored, Ends
<1>4. (z + n) % Capacity = (h + (l + n)) % Capacity /\ (z + n) % Capacity \in Ends
  <2>1. (z + n) % Capacity = Wrap(z + n, Capacity) /\ (z + n) % Capacity \in Ends
    BY <1>1, CellIs
  <2>2. z = Wrap(h + l, Capacity)
    BY <1>1, CellIs
  <2>3. l + n \in Numbers
    BY <1>1 DEF Numbers
  <2>4. (h + (l + n)) % Capacity = Wrap(h + (l + n), Capacity)
    BY <1>1, <2>3, CellIs
  <2>5. Wrap(Wrap(h + l, Capacity) + n, Capacity) = Wrap(h + (l + n), Capacity)
    BY <1>1, CapacityIs DEF Wrap, Numbers, Ends
  <2> QED BY <2>1, <2>2, <2>4, <2>5
<1>5. l + n \in Numbers /\ Next1(s, n) \in Numbers /\ Next1(s, n) = Next1(g, l + n)
  <2>1. l + n \in Numbers
    BY <1>1 DEF Numbers
  <2> QED BY <1>1, <2>1, NextIs, NextTwice
<1>6. \A i \in Ends : c.buf[i] \in Numbers \cup {Junk}
  <2> SUFFICES ASSUME NEW i \in Ends PROVE c.buf[i] \in Numbers \cup {Junk}
    OBVIOUS
  <2>1. (i - z + Capacity) % Capacity \in Ends
    BY <1>1, DistanceIs
  <2>2. (i - z + Capacity) % Capacity \in Numbers
    BY <2>1, CapacityIs DEF Ends, Numbers
  <2>3. Next1(s, (i - z + Capacity) % Capacity) \in Numbers
    BY <1>1, <2>2, NextIs
  <2>4. b.buf[i] \in Numbers \cup {Junk}
    BY <1>1 DEF Buffer
  <2> QED BY <1>3, <2>3, <2>4
<1>7. c \in Buffer
  <2>1. c.buf \in [Ends -> Numbers \cup {Junk}]
    BY <1>2, <1>6 DEF Stored, Ends
  <2> QED BY <1>1, <1>2, <1>4, <1>5, <2>1 DEF Buffer, Written
<1>8. ASSUME NEW k \in Numbers, k < l + n
      PROVE  c.buf[(h + k) % Capacity] = Next1(g, k)
  <2> DEFINE i == (h + k) % Capacity
             d == (i - z + Capacity) % Capacity
  <2>1. i = Wrap(h + k, Capacity) /\ i \in Ends
    BY <1>1, CellIs
  <2>2. z = Wrap(h + l, Capacity)
    BY <1>1, CellIs
  <2>3. d = Wrap(i - z + Capacity, Capacity)
    BY <1>1, <2>1, DistanceIs
  <2>4. c.buf[i] = IF d < n THEN Next1(s, d) ELSE b.buf[i]
    BY <1>3, <2>1
  <2> HIDE DEF i, d, c, h, l, z
  <2>5. CASE k < l
    <3>1. /\ h \in Nat /\ l \in Nat /\ k \in Nat /\ h < Capacity /\ k < l
          /\ l + n <= Capacity /\ Capacity \in Nat /\ n \in Nat
        BY <1>1, <1>8, <2>5, CapacityIs DEF Numbers, Ends, l
    <3>2. d = k - l + Capacity
        BY <2>1, <2>2, <2>3, <3>1 DEF Wrap
    <3>3. ~ (d < n)
        BY <3>1, <3>2
    <3>4. b.buf[i] = Next1(g, k)
        BY <1>1, <2>5 DEF i
    <3> QED BY <2>4, <3>3, <3>4 DEF i
  <2>6. CASE k >= l
    <3>1. /\ h \in Nat /\ l \in Nat /\ k \in Nat /\ h < Capacity /\ k < l + n
          /\ l + n <= Capacity /\ k >= l /\ Capacity \in Nat /\ n \in Nat
        BY <1>1, <1>8, <2>6, CapacityIs DEF Numbers, Ends, l
    <3>2. d = k - l
        BY <2>1, <2>2, <2>3, <3>1 DEF Wrap
    <3>3. d = k - l /\ d < n /\ d \in Numbers /\ l + d = k
        BY <3>1, <3>2 DEF Numbers
    <3>4. Next1(s, d) = Next1(g, k)
        BY <1>1, <3>3, NextTwice
    <3> QED BY <2>4, <3>3, <3>4 DEF i
  <2> QED BY <1>1, <2>5, <2>6 DEF Numbers
<1> HIDE DEF c
<1> QED BY <1>1, <1>2, <1>4, <1>5, <1>7, <1>8 DEF RingOK, c

LEMMA RingConsumed ==
    ASSUME NEW b, NEW s, NEW g, RingOK(b, s, g), NEW n \in Numbers, n <= b.len
    PROVE  RingOK(Consumed(b, n), s, Next1(g, n))
<1> DEFINE c == Consumed(b, n)
           h == b.head
           l == b.len
           y == (h + n) % Capacity
           g2 == Next1(g, n)
<1>1. /\ b \in Buffer /\ s \in Numbers /\ g \in Numbers /\ h \in Ends /\ l \in Numbers
      /\ b.tail = (h + l) % Capacity /\ s = Next1(g, l) /\ (b.rd = {} => l = 0)
      /\ \A k \in Numbers : k < l => b.buf[(h + k) % Capacity] = Next1(g, k)
    BY DEF RingOK, Buffer
<1>2. /\ c.head = y /\ c.tail = b.tail /\ c.len = l - n
      /\ c.rd = b.rd /\ c.wr = b.wr /\ c.kind = b.kind
      /\ c.buf = [i \in 0 .. Capacity - 1 |->
                     IF (i - h + Capacity) % Capacity < n THEN Junk ELSE b.buf[i]]
    BY <1>1 DEF Consumed, Buffer
<1>3. y = Wrap(h + n, Capacity) /\ y \in Ends
    BY <1>1, CellIs
<1>4. l - n \in Numbers /\ n + (l - n) = l /\ (b.rd = {} => l - n = 0)
  <2> HIDE DEF l
  <2>1. l \in Nat /\ n \in Nat /\ n <= l /\ l <= Capacity /\ Capacity \in Nat
    BY <1>1, CapacityIs DEF Numbers, l
  <2>2. l - n \in Numbers /\ n + (l - n) = l /\ (l = 0 => l - n = 0)
    BY <2>1 DEF Numbers
  <2> QED BY <1>1, <2>2
<1>5. c \in Buffer
  <2>1. \A i \in Ends : b.buf[i] \in Numbers \cup {Junk}
    BY <1>1 DEF Buffer
  <2>2. c.buf \in [Ends -> Numbers \cup {Junk}]
    BY <1>2, <2>1 DEF Ends
  <2> QED BY <1>1, <1>2, <1>3, <1>4, <2>2 DEF Buffer, Consumed
<1>6. g2 \in Numbers /\ s = Next1(g2, l - n)
    BY <1>1, <1>4, NextIs, NextTwice
<1>7. ASSUME NEW k \in Numbers, k <= l - n
      PROVE  (y + k) % Capacity = (h + (n + k)) % Capacity /\ n + k \in Numbers
  <2>1. n + k \in Numbers
    <3> HIDE DEF l
    <3>1. l \in Nat /\ n \in Nat /\ k \in Nat /\ k <= l - n /\ l <= Capacity
        BY <1>1, <1>7, CapacityIs DEF Numbers
    <3> QED BY <3>1, CapacityIs DEF Numbers
  <2>2. (y + k) % Capacity = Wrap(y + k, Capacity)
    BY <1>3, CellIs
  <2>3. (h + (n + k)) % Capacity = Wrap(h + (n + k), Capacity)
    BY <1>1, <2>1, CellIs
  <2>4. Wrap(Wrap(h + n, Capacity) + k, Capacity) = Wrap(h + (n + k), Capacity)
    BY <1>1, <2>1, CapacityIs DEF Wrap, Numbers, Ends
  <2> QED BY <1>3, <2>1, <2>2, <2>3, <2>4
<1>8. b.tail = (y + (l - n)) % Capacity
  <2>1. l - n <= l - n
    BY <1>4 DEF Numbers
  <2> QED BY <1>1, <1>4, <1>7, <2>1
<1>9. ASSUME NEW k \in Numbers, k < l - n
      PROVE  c.buf[(y + k) % Capacity] = Next1(g2, k)
  <2> DEFINE i == (h + (n + k)) % Capacity
             d == (i - h + Capacity) % Capacity
  <2>1. (y + k) % Capacity = i /\ n + k \in Numbers
    <3>1. k <= l - n
        BY <1>4, <1>9 DEF Numbers
    <3> QED BY <1>7, <3>1
  <2>2. i = Wrap(h + (n + k), Capacity) /\ i \in Ends
    BY <1>1, <2>1, CellIs
  <2>3. d = Wrap(i - h + Capacity, Capacity)
    BY <1>1, <2>2, DistanceIs
  <2>4. c.buf[i] = IF d < n THEN Junk ELSE b.buf[i]
    BY <1>2, <2>2 DEF Ends
  <2> HIDE DEF i, d, c, y, h, l
  <2>5. /\ h \in Nat /\ l \in Nat /\ k \in Nat /\ n \in Nat /\ Capacity \in Nat
        /\ h < Capacity /\ n + k < l /\ l <= Capacity
    BY <1>1, <1>9, <2>1, CapacityIs DEF Numbers, Ends
  <2>6. ~ (d < n) /\ n + k < l
    BY <2>2, <2>3, <2>5 DEF Wrap
  <2>7. b.buf[i] = Next1(g, n + k)
    BY <1>1, <2>1, <2>6 DEF i
  <2>8. Next1(g2, k) = Next1(g, n + k)
    BY <1>1, <2>1, NextTwice
  <2> QED BY <2>1, <2>4, <2>6, <2>7, <2>8
<1> HIDE DEF c, y, g2
<1>10. RingOK(c, s, g2)
    BY <1>1, <1>2, <1>4, <1>5, <1>6, <1>8, <1>9 DEF RingOK
<1> QED BY <1>10 DEF c, g2

LEMMA RingEmpty ==
    ASSUME NEW s \in Numbers, NEW b \in Buffer,
           b.head = 0, b.tail = 0, b.len = 0
    PROVE  RingOK(b, s, s)
<1>1. 0 \in Numbers /\ 0 \in Ends /\ Next1(s, 0) = s
    BY CapacityIs, NextIs DEF Numbers, Ends
<1>2. (0 + 0) % Capacity = 0
    BY CapacityIs
<1>3. \A k \in Numbers : ~ (k < 0)
    BY DEF Numbers
<1> QED BY <1>1, <1>2, <1>3 DEF RingOK

LEMMA FreedIs ==
    /\ Freed \in Buffer /\ Freed.head = 0 /\ Freed.tail = 0 /\ Freed.len = 0
    /\ Freed.rd = {} /\ Freed.wr = {}
    /\ Freed.buf \in [Ends -> Numbers \cup {Junk}]
<1>1. 0 \in Ends /\ 0 \in Numbers
    BY CapacityIs DEF Numbers, Ends
<1> QED BY <1>1 DEF Freed, Buffer, Ends

(* Only the holders of the ends change. *)
LEMMA RingHeld ==
    ASSUME NEW b, NEW s, NEW g, RingOK(b, s, g), NEW c \in Buffer,
           c.head = b.head, c.tail = b.tail, c.len = b.len, c.buf = b.buf,
           c.rd = {} => b.len = 0
    PROVE  RingOK(c, s, g)
BY DEF RingOK

(* b after the processes of D closed the read end and those of E the other *)
ClosedBy(b, c, D, E) ==
    /\ c.rd = b.rd \ D /\ c.wr = b.wr \ E /\ c.len <= b.len
    /\ c.rd # {} => c.len = b.len /\ c.kind = b.kind

LEMMA RingClosed ==
    ASSUME NEW b, NEW s, NEW g, RingOK(b, s, g), NEW q, NEW Q
    PROVE  LET c == [WithoutReader(b, q) EXCEPT !.wr = @ \ Q]
           IN  /\ RingOK(FreeIfClosed(c), s, IF b.rd = {q} THEN s ELSE g)
               /\ ClosedBy(b, FreeIfClosed(c), {q}, Q)
<1> DEFINE c == [WithoutReader(b, q) EXCEPT !.wr = @ \ Q]
           g2 == IF b.rd = {q} THEN s ELSE g
<1>1. /\ b \in Buffer /\ s \in Numbers /\ g \in Numbers /\ b.rd \subseteq Procs /\ b.wr \subseteq Procs
      /\ b.head \in Ends /\ b.tail \in Ends /\ b.len \in Numbers /\ 0 \in Ends /\ 0 \in Numbers
      /\ b.buf \in [Ends -> Numbers \cup {Junk}] /\ b.kind \in {"free"} \cup Kinds
    BY CapacityIs DEF RingOK, Buffer, Ends, Numbers
<1>2. CASE b.rd \ {q} = {}
  <2>1. c = [kind |-> b.kind, buf |-> Freed.buf, head |-> 0, tail |-> 0, len |-> 0,
             rd |-> {}, wr |-> b.wr \ Q]
    <3>1. [b EXCEPT !.rd = @ \ {q}].rd = {}
        BY <1>1, <1>2 DEF Buffer
    <3>2. WithoutReader(b, q) =
              [[b EXCEPT !.rd = @ \ {q}] EXCEPT !.buf = Freed.buf, !.head = 0, !.tail = 0, !.len = 0]
        BY <3>1 DEF WithoutReader
    <3>3. [b EXCEPT !.rd = @ \ {q}] =
              [kind |-> b.kind, buf |-> b.buf, head |-> b.head, tail |-> b.tail, len |-> b.len,
               rd |-> {}, wr |-> b.wr]
        BY <1>1, <1>2 DEF Buffer
    <3> DEFINE e == Freed.buf
    <3> HIDE DEF e
    <3>4. WithoutReader(b, q) =
              [kind |-> b.kind, buf |-> e, head |-> 0, tail |-> 0, len |-> 0, rd |-> {}, wr |-> b.wr]
        BY <3>2, <3>3 DEF e
    <3> QED BY <3>4 DEF e
  <2>2. /\ c.head = 0 /\ c.tail = 0 /\ c.len = 0 /\ c.rd = {} /\ c.wr = b.wr \ Q
        /\ c \in Buffer
    BY <1>1, <2>1, FreedIs DEF Buffer
  <2>3. g2 = s
    <3>1. CASE b.rd = {}
      <4>1. b.len = 0 /\ s = Next1(g, b.len)
        BY <3>1 DEF RingOK
      <4> QED BY <1>1, <4>1, NextIs
    <3> QED BY <1>2, <3>1
  <2> HIDE DEF c, g2
  <2>4. RingOK(c, s, s) /\ RingOK(Freed, s, s)
    BY <1>1, <2>2, FreedIs, RingEmpty
  <2>5. /\ RingOK(FreeIfClosed(c), s, s) /\ FreeIfClosed(c).len = 0
        /\ FreeIfClosed(c).rd = b.rd \ {q} /\ FreeIfClosed(c).wr = b.wr \ Q
    BY <1>2, <2>2, <2>4, FreedIs DEF FreeIfClosed
  <2>6. 0 <= b.len
    BY <1>1 DEF Numbers
  <2>7. ClosedBy(b, FreeIfClosed(c), {q}, Q)
    BY <1>2, <2>5, <2>6 DEF ClosedBy
  <2> QED BY <2>3, <2>5, <2>7 DEF c, g2
<1>3. CASE b.rd \ {q} # {}
  <2>1. c = [kind |-> b.kind, buf |-> b.buf, head |-> b.head, tail |-> b.tail, len |-> b.len,
             rd |-> b.rd \ {q}, wr |-> b.wr \ Q]
    BY <1>1, <1>3 DEF WithoutReader, Buffer
  <2>2. /\ c.head = b.head /\ c.tail = b.tail /\ c.len = b.len /\ c.buf = b.buf
        /\ c.rd = b.rd \ {q} /\ c.wr = b.wr \ Q /\ c \in Buffer /\ c.kind = b.kind
    BY <1>1, <2>1 DEF Buffer
  <2>3. g2 = g
    BY <1>3
  <2> HIDE DEF c, g2
  <2>4. RingOK(c, s, g)
    BY <1>3, <2>2, RingHeld
  <2>5. FreeIfClosed(c) = c
    BY <1>3, <2>2 DEF FreeIfClosed
  <2>6. b.len <= b.len
    BY <1>1 DEF Numbers
  <2>7. ClosedBy(b, FreeIfClosed(c), {q}, Q)
    <3>1. ClosedBy(b, c, {q}, Q)
        BY <2>2, <2>6 DEF ClosedBy
    <3> QED BY <2>5, <3>1
  <2> QED BY <2>3, <2>4, <2>5, <2>7 DEF c, g2
<1> QED BY <1>2, <1>3

LEMMA WriteLenIs ==
    ASSUME NEW b \in Buffer, NEW n \in Nat \ {0}
    PROVE  /\ WriteLen(b, n) \in Numbers /\ b.len + WriteLen(b, n) <= Capacity
           /\ WriteLen(b, n) > 0 <=>
                  b.len < Capacity /\ ~ (b.kind = "pipe" /\ n <= PIPE_BUF /\ Capacity - b.len < n)
<1>1. b.len \in Nat /\ b.len <= Capacity /\ Capacity \in Nat /\ PIPE_BUF \in Nat
    BY PipesConstants DEF Buffer, Numbers
<1> QED BY <1>1 DEF WriteLen, free_space, Numbers

(* What a call that does not block does to the kernel *)
ReadEffect(t, c) ==
    /\ c.op = "read" /\ ProcOf[t] \in pipe[c.p].rd
    /\ wakes' = Append(wakes, Wake(c.p, "writable"))
    /\ pipe'[c.p].len <= pipe[c.p].len

WriteEffect(t, c) ==
    /\ c.op = "write" /\ ProcOf[t] \in pipe[c.p].wr
    /\ wakes' = Append(wakes, Wake(c.p, "readable"))
    /\ pipe'[c.p].len >= pipe[c.p].len

KernelEffect(t, c) ==
    \/ UNCHANGED kernel
    \/ /\ \A x \in Pipes : x # c.p => pipe'[x] = pipe[x]
       /\ pipe'[c.p].rd = pipe[c.p].rd /\ pipe'[c.p].wr = pipe[c.p].wr
       /\ pipe'[c.p].kind = pipe[c.p].kind
       /\ ReadEffect(t, c) \/ WriteEffect(t, c)

LEMMA RingAt ==
    ASSUME RingInv, NEW p \in Pipes, NEW b, NEW s, NEW g, RingOK(b, s, g),
           pipe' = [pipe EXCEPT ![p] = b], sent' = [sent EXCEPT ![p] = s],
           got' = [got EXCEPT ![p] = g]
    PROVE  RingInv' /\ pipe'[p] = b /\ \A x \in Pipes : x # p => pipe'[x] = pipe[x]
<1>1. b \in Buffer /\ s \in Numbers /\ g \in Numbers
    BY DEF RingOK
<1>2. /\ pipe \in [Pipes -> Buffer] /\ sent \in [Pipes -> Numbers] /\ got \in [Pipes -> Numbers]
      /\ \A x \in Pipes : RingOK(pipe[x], sent[x], got[x])
    BY DEF RingInv
<1>3. /\ pipe' \in [Pipes -> Buffer] /\ sent' \in [Pipes -> Numbers] /\ got' \in [Pipes -> Numbers]
    BY <1>1, <1>2
<1>4. \A x \in Pipes : /\ x # p => pipe'[x] = pipe[x] /\ sent'[x] = sent[x] /\ got'[x] = got[x]
                       /\ x = p => pipe'[x] = b /\ sent'[x] = s /\ got'[x] = g
    BY <1>2
<1>5. \A x \in Pipes : RingOK(pipe'[x], sent'[x], got'[x])
    BY <1>2, <1>4
<1> QED BY <1>3, <1>4, <1>5 DEF RingInv

LEMMA KernelCallRing ==
    ASSUME RingInv, NEW t, NEW c \in CallSet, KernelCall(t, c)
    PROVE  RingInv' /\ KernelEffect(t, c)
<1> DEFINE p == c.p
           b == pipe[p]
           n == Moved(t, c)
<1>1. /\ p \in Pipes /\ (c.op = "read" => c.n \in Nat \ {0}) /\ (c.op = "write" => c.n \in Nat \ {0})
      /\ c.op \in {"read", "write", "poll"}
    BY CallTypes, PipesConstants
<1>2. /\ b \in Buffer /\ RingOK(b, sent[p], got[p]) /\ b.len \in Numbers
      /\ pipe \in [Pipes -> Buffer] /\ sent \in [Pipes -> Numbers] /\ got \in [Pipes -> Numbers]
    BY <1>1 DEF RingInv, Buffer
<1>3. CASE n = 0
  <2>1. UNCHANGED kernel
    BY <1>3 DEF KernelCall
  <2> QED BY <2>1 DEF RingInv, KernelEffect, kernel
<1>4. CASE n # 0 /\ c.op = "read"
  <2>1. /\ pipe' = [pipe EXCEPT ![p] = Consumed(b, n)] /\ got' = [got EXCEPT ![p] = Next1(got[p], n)]
        /\ wakes' = Append(wakes, Wake(p, "writable")) /\ sent' = sent
    BY <1>4 DEF KernelCall
  <2>2. ProcOf[t] \in b.rd /\ n \in Numbers /\ n <= b.len
    <3>1. FdOpen(t, c) /\ n = IF c.n <= b.len THEN c.n ELSE b.len
        BY <1>4 DEF Moved
    <3>2. ProcOf[t] \in b.rd
        BY <1>4, <3>1 DEF FdOpen
    <3>3. c.n \in Nat /\ b.len \in Nat /\ b.len <= Capacity
        BY <1>1, <1>2, <1>4 DEF Numbers
    <3> HIDE DEF n, b
    <3> QED BY <3>1, <3>2, <3>3, CapacityIs DEF Numbers
  <2> HIDE DEF n
  <2>3. RingOK(Consumed(b, n), sent[p], Next1(got[p], n))
    BY <1>2, <2>2, RingConsumed
  <2>4. sent' = [sent EXCEPT ![p] = sent[p]]
    BY <1>2, <2>1
  <2>5. /\ RingInv' /\ pipe'[p] = Consumed(b, n)
        /\ \A x \in Pipes : x # p => pipe'[x] = pipe[x]
    <3> DEFINE d == Consumed(b, n)
               g == Next1(got[p], n)
    <3>1. /\ pipe' = [pipe EXCEPT ![p] = d] /\ got' = [got EXCEPT ![p] = g]
          /\ sent' = [sent EXCEPT ![p] = sent[p]] /\ RingOK(d, sent[p], g) /\ p \in Pipes
        BY <1>1, <2>1, <2>3, <2>4
    <3> HIDE DEF b, p, d, g
    <3>2. /\ RingInv' /\ pipe'[p] = d /\ \A x \in Pipes : x # p => pipe'[x] = pipe[x]
        BY <3>1, RingAt
    <3> QED BY <3>2 DEF d
  <2>6. /\ Consumed(b, n).rd = b.rd /\ Consumed(b, n).wr = b.wr /\ Consumed(b, n).kind = b.kind
        /\ Consumed(b, n).len = b.len - n
    BY <1>2 DEF Consumed, Buffer
  <2>7. b.len - n <= b.len
    BY <1>2, <2>2 DEF Numbers
  <2> QED BY <1>4, <2>1, <2>2, <2>5, <2>6, <2>7 DEF KernelEffect, ReadEffect
<1>5. CASE n # 0 /\ c.op # "read"
  <2>1. /\ pipe' = [pipe EXCEPT ![p] = Written(b, n, sent[p])]
        /\ sent' = [sent EXCEPT ![p] = Next1(sent[p], n)]
        /\ wakes' = Append(wakes, Wake(p, "readable")) /\ got' = got
    BY <1>5 DEF KernelCall
  <2>2. c.op = "write" /\ b.rd # {} /\ n = WriteLen(b, c.n) /\ ProcOf[t] \in b.wr
    BY <1>1, <1>5 DEF Moved, FdOpen
  <2> HIDE DEF n
  <2>3. n \in Numbers /\ b.len + n <= Capacity
    BY <1>1, <1>2, <2>2, WriteLenIs
  <2>4. RingOK(Written(b, n, sent[p]), Next1(sent[p], n), got[p])
    BY <1>2, <2>2, <2>3, RingWritten
  <2>5. got' = [got EXCEPT ![p] = got[p]]
    BY <1>2, <2>1
  <2>6. /\ RingInv' /\ pipe'[p] = Written(b, n, sent[p])
        /\ \A x \in Pipes : x # p => pipe'[x] = pipe[x]
    BY <1>1, <2>1, <2>4, <2>5, RingAt
  <2> DEFINE w == Written(b, n, sent[p])
  <2>7. w.rd = b.rd /\ w.wr = b.wr /\ w.kind = b.kind /\ w.len = b.len + n
    BY <1>2 DEF Written, Buffer
  <2>8. b.len + n >= b.len
    BY <1>2, <2>3 DEF Numbers
  <2> QED BY <2>1, <2>2, <2>6, <2>7, <2>8 DEF KernelEffect, WriteEffect
<1> QED BY <1>3, <1>4, <1>5

LEMMA PipeRing ==
    ASSUME RingInv, NEW t \in Threads, NEW p \in Pipes, NEW kind \in Kinds, sys_pipe(t, p, kind)
    PROVE  RingInv' /\ \A x \in Pipes : x # p => pipe'[x] = pipe[x]
<1> DEFINE b == [Freed EXCEPT !.kind = kind, !.rd = {ProcOf[t]}, !.wr = {ProcOf[t]}]
<1>1. /\ pipe' = [pipe EXCEPT ![p] = b] /\ sent' = [sent EXCEPT ![p] = 0]
      /\ got' = [got EXCEPT ![p] = 0]
    BY DEF sys_pipe
<1>2. 0 \in Numbers /\ {ProcOf[t]} \subseteq Procs
    BY CapacityIs DEF Numbers, Procs
<1>3. b \in Buffer /\ b.head = 0 /\ b.tail = 0 /\ b.len = 0
    BY <1>2, FreedIs DEF Buffer
<1> HIDE DEF b
<1>4. RingOK(b, 0, 0)
    BY <1>2, <1>3, RingEmpty
<1> QED BY <1>1, <1>4, RingAt

LEMMA RingWriterClosed ==
    ASSUME NEW b, NEW s, NEW g, RingOK(b, s, g), NEW q
    PROVE  LET c == WithoutWriter(b, q)
           IN  RingOK(FreeIfClosed(c), s, g) /\ ClosedBy(b, FreeIfClosed(c), {}, {q})
<1> DEFINE c == WithoutWriter(b, q)
<1>1. /\ b \in Buffer /\ s \in Numbers /\ g \in Numbers /\ b.len \in Numbers
      /\ (b.rd = {} => b.len = 0) /\ s = Next1(g, b.len)
    BY DEF RingOK, Buffer
<1>2. /\ c \in Buffer /\ c.head = b.head /\ c.tail = b.tail /\ c.len = b.len /\ c.buf = b.buf
      /\ c.rd = b.rd /\ c.wr = b.wr \ {q} /\ c.kind = b.kind
    BY <1>1 DEF Buffer, WithoutWriter
<1> HIDE DEF c
<1>3. RingOK(c, s, g)
    BY <1>1, <1>2, RingHeld
<1>4. b.len <= b.len /\ 0 <= b.len /\ b.rd \ {} = b.rd
    BY <1>1 DEF Numbers
<1>5. CASE c.rd = {} /\ c.wr = {}
  <2>1. FreeIfClosed(c) = Freed
    BY <1>5 DEF FreeIfClosed
  <2>2. s = g
    BY <1>1, <1>2, <1>5, NextIs
  <2>3. RingOK(Freed, s, s)
    BY <1>1, FreedIs, RingEmpty
  <2>4. ClosedBy(b, Freed, {}, {q})
    BY <1>2, <1>4, <1>5, FreedIs DEF ClosedBy
  <2> QED BY <2>1, <2>2, <2>3, <2>4 DEF c
<1>6. CASE ~ (c.rd = {} /\ c.wr = {})
  <2>1. FreeIfClosed(c) = c
    BY <1>6 DEF FreeIfClosed
  <2>2. ClosedBy(b, c, {}, {q})
    BY <1>2, <1>4 DEF ClosedBy
  <2> QED BY <1>3, <2>1, <2>2 DEF c
<1> QED BY <1>5, <1>6

LEMMA CloseReadRing ==
    ASSUME RingInv, NEW t, NEW p \in Pipes, CloseRead(t, p)
    PROVE  /\ RingInv' /\ ClosedBy(pipe[p], pipe'[p], {ProcOf[t]}, {})
           /\ \A x \in Pipes : x # p => pipe'[x] = pipe[x]
<1> DEFINE q == ProcOf[t]
           b == pipe[p]
           g == IF b.rd = {q} THEN sent[p] ELSE got[p]
           e == [WithoutReader(b, q) EXCEPT !.wr = @ \ {}]
           c == FreeIfClosed(e)
<1>1. /\ pipe' = [pipe EXCEPT ![p] = FreeIfClosed(WithoutReader(b, q))]
      /\ got' = [got EXCEPT ![p] = g] /\ sent' = sent
    BY DEF CloseRead
<1>2. RingOK(b, sent[p], got[p]) /\ sent \in [Pipes -> Numbers] /\ b \in Buffer
    BY DEF RingInv
<1>3. RingOK(c, sent[p], g) /\ ClosedBy(b, c, {q}, {})
    BY <1>2, RingClosed
<1>4. WithoutReader(b, q) = e
    BY <1>2 DEF WithoutReader, Buffer
<1>5. pipe' = [pipe EXCEPT ![p] = c] /\ sent' = [sent EXCEPT ![p] = sent[p]]
    BY <1>1, <1>2, <1>4
<1> HIDE DEF b, c, g, q
<1>6. /\ RingInv' /\ pipe'[p] = c /\ \A x \in Pipes : x # p => pipe'[x] = pipe[x]
    BY <1>1, <1>3, <1>5, RingAt
<1> QED BY <1>3, <1>6 DEF b, q

LEMMA CloseWriteRing ==
    ASSUME RingInv, NEW t, NEW p \in Pipes, CloseWrite(t, p)
    PROVE  /\ RingInv' /\ ClosedBy(pipe[p], pipe'[p], {}, {ProcOf[t]})
           /\ \A x \in Pipes : x # p => pipe'[x] = pipe[x]
<1> DEFINE q == ProcOf[t]
           b == pipe[p]
           c == FreeIfClosed(WithoutWriter(b, q))
<1>1. pipe' = [pipe EXCEPT ![p] = c] /\ got' = got /\ sent' = sent
    BY DEF CloseWrite
<1>2. /\ RingOK(b, sent[p], got[p]) /\ sent \in [Pipes -> Numbers] /\ got \in [Pipes -> Numbers]
    BY DEF RingInv
<1>3. RingOK(c, sent[p], got[p]) /\ ClosedBy(b, c, {}, {q})
    BY <1>2, RingWriterClosed
<1>4. sent' = [sent EXCEPT ![p] = sent[p]] /\ got' = [got EXCEPT ![p] = got[p]]
    BY <1>1, <1>2
<1> HIDE DEF b, c, q
<1>5. /\ RingInv' /\ pipe'[p] = c /\ \A x \in Pipes : x # p => pipe'[x] = pipe[x]
  <2>1. pipe' = [pipe EXCEPT ![p] = c]
    BY <1>1
  <2> QED BY <1>3, <1>4, <2>1, RingAt
<1> QED BY <1>3, <1>5 DEF b, q

LEMMA CloseAllRing ==
    ASSUME RingInv, NEW q, CloseAll(q)
    PROVE  RingInv' /\ \A p \in Pipes : ClosedBy(pipe[p], pipe'[p], {q}, {q})
<1>1. /\ pipe \in [Pipes -> Buffer] /\ sent \in [Pipes -> Numbers] /\ got \in [Pipes -> Numbers]
      /\ \A x \in Pipes : RingOK(pipe[x], sent[x], got[x])
    BY DEF RingInv
<1>2. /\ pipe' = [p \in Pipes |-> FreeIfClosed(WithoutWriter(WithoutReader(pipe[p], q), q))]
      /\ got' = [p \in Pipes |-> IF pipe[p].rd = {q} THEN sent[p] ELSE got[p]] /\ sent' = sent
    BY DEF CloseAll
<1>3. ASSUME NEW p \in Pipes
      PROVE  /\ RingOK(pipe'[p], sent'[p], got'[p]) /\ ClosedBy(pipe[p], pipe'[p], {q}, {q})
             /\ pipe'[p] \in Buffer
  <2> DEFINE b == pipe[p]
             c == FreeIfClosed(WithoutWriter(WithoutReader(b, q), q))
             g == IF b.rd = {q} THEN sent[p] ELSE got[p]
  <2>1. RingOK(c, sent[p], g) /\ ClosedBy(b, c, {q}, {q})
    BY <1>1, RingClosed DEF WithoutWriter
  <2>2. pipe'[p] = c /\ got'[p] = g /\ sent'[p] = sent[p]
    BY <1>2
  <2> HIDE DEF b, c, g
  <2>3. c \in Buffer
    BY <2>1 DEF RingOK
  <2> QED BY <2>1, <2>2, <2>3 DEF b
<1>4. pipe' \in [Pipes -> Buffer]
    BY <1>2, <1>3
<1>5. got' \in [Pipes -> Numbers] /\ sent' \in [Pipes -> Numbers]
    BY <1>1, <1>2
<1> QED BY <1>3, <1>4, <1>5 DEF RingInv

(* fork: the child has the ends of its parent. *)
Inherits(b, c, r, q) ==
    /\ c.rd = IF r \in b.rd THEN b.rd \cup {q} ELSE b.rd
    /\ c.wr = IF r \in b.wr THEN b.wr \cup {q} ELSE b.wr
    /\ c.len = b.len /\ c.kind = b.kind

LEMMA ForkRing ==
    ASSUME RingInv, NEW t \in Threads, NEW u \in Threads, Fork(t, u)
    PROVE  RingInv' /\ \A p \in Pipes : Inherits(pipe[p], pipe'[p], ProcOf[t], ProcOf[u])
<1> DEFINE q == ProcOf[u]
           r == ProcOf[t]
<1>1. /\ pipe \in [Pipes -> Buffer] /\ sent \in [Pipes -> Numbers] /\ got \in [Pipes -> Numbers]
      /\ \A x \in Pipes : RingOK(pipe[x], sent[x], got[x])
    BY DEF RingInv
<1>2. /\ pipe' = [p \in Pipes |->
            [pipe[p] EXCEPT !.rd = IF r \in @ THEN @ \cup {q} ELSE @,
                            !.wr = IF r \in @ THEN @ \cup {q} ELSE @]]
      /\ sent' = sent /\ got' = got
    BY DEF Fork
<1>3. q \in Procs
    BY DEF Procs
<1> HIDE DEF q, r
<1>4. ASSUME NEW p \in Pipes
      PROVE  /\ RingOK(pipe'[p], sent'[p], got'[p]) /\ Inherits(pipe[p], pipe'[p], r, q)
             /\ pipe'[p] \in Buffer
  <2> DEFINE b == pipe[p]
             c == pipe'[p]
  <2>1. b \in Buffer /\ RingOK(b, sent[p], got[p]) /\ (b.rd = {} => b.len = 0)
    BY <1>1 DEF RingOK
  <2>2. c = [b EXCEPT !.rd = IF r \in @ THEN @ \cup {q} ELSE @,
                      !.wr = IF r \in @ THEN @ \cup {q} ELSE @]
    BY <1>2
  <2> HIDE DEF b, c
  <2>3. /\ c.head = b.head /\ c.tail = b.tail /\ c.len = b.len /\ c.buf = b.buf /\ c.kind = b.kind
        /\ c.rd = (IF r \in b.rd THEN b.rd \cup {q} ELSE b.rd)
        /\ c.wr = (IF r \in b.wr THEN b.wr \cup {q} ELSE b.wr)
    BY <2>1, <2>2 DEF Buffer
  <2>4. c \in Buffer
    BY <1>3, <2>1, <2>2 DEF Buffer
  <2>5. c.rd = {} => b.len = 0
    BY <2>1, <2>3
  <2>6. RingOK(c, sent[p], got[p])
    BY <2>1, <2>3, <2>4, <2>5, RingHeld
  <2>7. Inherits(b, c, r, q)
    BY <2>3 DEF Inherits
  <2> QED BY <1>2, <2>4, <2>6, <2>7 DEF b, c
<1>5. pipe' \in [Pipes -> Buffer]
    BY <1>2, <1>4
<1> QED BY <1>1, <1>2, <1>4, <1>5 DEF RingInv, q, r

LEMMA RingStays ==
    ASSUME RingInv, UNCHANGED <<pipe, sent, got>>
    PROVE  RingInv'
BY DEF RingInv

LEMMA HostStepRing ==
    ASSUME HostInv, RingInv, HostStep
    PROVE  RingInv'
<1> DEFINE f == Head(todo)
<1>1. todo # <<>> /\ f \in Frames
    BY TailIs DEF HostStep, HostInv
<1>2. CASE f.k = "run" /\ HandleSyscall(f.t, Tail(todo))
  <2>1. f = Run(f.t) /\ f.t \in Threads
    BY <1>1, <1>2, FrameCases
  <2>2. chan[f.t].call \in CallSet
    BY <1>1, <2>1, RunIs
  <2>3. KernelCall(f.t, chan[f.t].call) \/ UNCHANGED kernel
    BY <1>2 DEF HandleSyscall
  <2> QED BY <2>2, <2>3, KernelCallRing, RingStays DEF kernel
<1>3. CASE ~ (f.k = "run" /\ HandleSyscall(f.t, Tail(todo)))
  <2>1. UNCHANGED <<pipe, sent, got>>
    BY <1>3 DEF HostStep, TakeBatch, ProcessEvent, ScheduleBroad, WakeAll, PublishAnswer,
                CancelParked, kernel
  <2> QED BY <2>1, RingStays
<1> QED BY <1>2, <1>3

LEMMA RingNext ==
    ASSUME HostInv, RingInv, Next
    PROVE  RingInv'
<1>1. CASE HostStep
    BY <1>1, HostStepRing
<1>2. CASE BroadWake
    BY <1>2, RingStays DEF BroadWake, kernel
<1>3. ASSUME NEW t \in Threads,
             \/ PollTimer(t) \/ PollDeadline(t) \/ SocketTimeout(t) \/ Listen(t)
             \/ \E c \in CallSet : Submit(t, c)
             \/ \E u \in Threads : Launched(t, u) \/ handleThreadCancel(t, u)
      PROVE  RingInv'
    BY <1>3, RingStays DEF PollTimer, PollDeadline, SocketTimeout, Listen, Submit, Launched,
                           handleThreadCancel, kernel
<1>4. ASSUME NEW t \in Threads, Exit(t) PROVE RingInv'
    BY <1>4, CloseAllRing DEF Exit
<1>5. ASSUME NEW t \in Threads, NEW p \in Pipes, CloseRead(t, p) PROVE RingInv'
    BY <1>5, CloseReadRing
<1>6. ASSUME NEW t \in Threads, NEW p \in Pipes, CloseWrite(t, p) PROVE RingInv'
    BY <1>6, CloseWriteRing
<1>7. ASSUME NEW t \in Threads, NEW p \in Pipes, NEW kind \in Kinds, sys_pipe(t, p, kind)
      PROVE  RingInv'
    BY <1>7, PipeRing
<1>8. ASSUME NEW t \in Threads, NEW u \in Threads, Fork(t, u) PROVE RingInv'
    BY <1>8, ForkRing
<1>9. ASSUME NEW t \in Threads, NEW u \in Threads, rollbackFork(t, u) PROVE RingInv'
    BY <1>9, CloseAllRing DEF rollbackFork
<1> QED BY <1>1, <1>2, <1>3, <1>4, <1>5, <1>6, <1>7, <1>8, <1>9 DEF Next

LEMMA RingInitially == Init => RingInv
<1> SUFFICES ASSUME Init PROVE RingInv
    OBVIOUS
<1>1. /\ pipe = [p \in Pipes |-> Freed] /\ sent = [p \in Pipes |-> 0] /\ got = [p \in Pipes |-> 0]
    BY DEF Init
<1>2. 0 \in Numbers
    BY CapacityIs DEF Numbers
<1>3. RingOK(Freed, 0, 0) /\ Freed \in Buffer
    BY <1>2, FreedIs, RingEmpty
<1> QED BY <1>1, <1>2, <1>3 DEF RingInv

LEMMA RingIsSound == HostInv /\ RingInv => RingSound
<1> SUFFICES ASSUME HostInv, RingInv PROVE RingSound
    OBVIOUS
<1>1. /\ pipe \in [Pipes -> Buffer] /\ sent \in [Pipes -> Numbers] /\ got \in [Pipes -> Numbers]
      /\ \A p \in Pipes : RingOK(pipe[p], sent[p], got[p])
    BY DEF RingInv
<1>2. TypeOK
  <2>1. /\ ChansOK(chan) /\ wakes \in Seq(Event) /\ wakeScheduled \in BOOLEAN /\ Places
    BY DEF HostInv
  <2>2. timers \subseteq Threads
    BY <2>1 DEF Places, PlacesOK
  <2>3. \A t \in Threads : /\ chan[t].st \in States /\ chan[t].call \in CallSet \cup {NoCall}
    BY <2>1 DEF ChansOK
  <2>4. \A p \in Pipes :
        /\ pipe[p].kind \in {"free"} \cup Kinds
        /\ pipe[p].buf \in [0 .. Capacity - 1 -> Numbers \cup {Junk}]
        /\ pipe[p].head \in 0 .. Capacity - 1 /\ pipe[p].tail \in 0 .. Capacity - 1
        /\ pipe[p].len \in 0 .. Capacity
        /\ pipe[p].rd \subseteq Procs /\ pipe[p].wr \subseteq Procs
    BY <1>1 DEF Buffer, Ends, Numbers
  <2> QED BY <1>1, <2>1, <2>2, <2>3, <2>4 DEF TypeOK, States, Event
<1>3. RingIsQueue
  <2> SUFFICES ASSUME NEW p \in Pipes
               PROVE  /\ Contents(pipe[p]) = [k \in 1 .. pipe[p].len |-> Next1(got[p], k - 1)]
                      /\ Next1(got[p], pipe[p].len) = sent[p]
    BY DEF RingIsQueue
  <2> DEFINE b == pipe[p]
             g == got[p]
  <2>1. /\ b.len \in Numbers /\ b.head \in Ends /\ sent[p] = Next1(g, b.len)
        /\ \A k \in Numbers : k < b.len => b.buf[(b.head + k) % Capacity] = Next1(g, k)
    BY <1>1 DEF RingOK, Buffer
  <2> HIDE DEF b, g
  <2>2. ASSUME NEW k \in 1 .. b.len
        PROVE  b.buf[(b.head + k - 1) % Capacity] = Next1(g, k - 1)
    <3>1. b.len \in Nat /\ b.len <= Capacity /\ b.head \in Nat /\ Capacity \in Nat
        BY <2>1, CapacityIs DEF Numbers, Ends
    <3>2. k - 1 \in Numbers /\ k - 1 < b.len
        BY <3>1 DEF Numbers
    <3>3. b.head + k - 1 = b.head + (k - 1)
        BY <3>1
    <3> QED BY <2>1, <3>2, <3>3
  <2>3. Contents(b) = [k \in 1 .. b.len |-> Next1(g, k - 1)]
    BY <2>2 DEF Contents
  <2> QED BY <2>1, <2>3 DEF b, g
<1> QED BY <1>2, <1>3 DEF RingSound

-----------------------------------------------------------------------------
(* Wake-ups.  The frames that carry one are not lost. *)
Carries(f) == f.k \in {"drain", "process", "schedule", "readers", "writers"}

Kept(td, wk, sch, td2, wk2, sch2) ==
    /\ \A f \in Range(td) : Carries(f) => f \in Range(td2)
    /\ Range(wk) \subseteq Range(wk2) /\ (wk # <<>> => wk2 # <<>>) /\ (sch => sch2)

Carried(td, wk, sch, td2, wk2, sch2) ==
    /\ \A p \in Pipes : \A w \in {"readable", "writable"} :
          Coming(td, wk, p, w) => Coming(td2, wk2, p, w)
    /\ Broad(td, wk, sch) => Broad(td2, wk2, sch2)
    /\ \A k \in {"readers", "writers"} : Has(td, k) => Has(td2, k)

LEMMA CarriedOn ==
    ASSUME NEW td, NEW wk, NEW sch, NEW td2, NEW wk2, NEW sch2, Kept(td, wk, sch, td2, wk2, sch2)
    PROVE  Carried(td, wk, sch, td2, wk2, sch2)
<1>1. /\ \A f \in Range(td) : Carries(f) => f \in Range(td2)
      /\ Range(wk) \subseteq Range(wk2) /\ (wk # <<>> => wk2 # <<>>) /\ (sch => sch2)
    BY DEF Kept
<1>2. \A p, w : Coming(td, wk, p, w) => Coming(td2, wk2, p, w)
    BY <1>1 DEF Coming, Carries
<1>3. Broad(td, wk, sch) => Broad(td2, wk2, sch2)
    BY <1>1 DEF Broad, Carries
<1>4. \A k \in {"readers", "writers"} : Has(td, k) => Has(td2, k)
    BY <1>1 DEF Has, Carries
<1> QED BY <1>2, <1>3, <1>4 DEF Carried

(* Who is parked in the new lists was there before, or has just been found   *)
(* to be blocked.                                                           *)
NoneNew(P, ch, ch2, Rs, Ws, Ps, Rs2, Ws2, Ps2) ==
    /\ \A p \in Pipes :
        /\ \A t \in Rs2[p] : ch2[t] = ch[t] /\ (t \in Rs[p] \/ (StuckIn(P, ch, t) /\ ~ ReadDue(P[p], t)))
        /\ \A t \in Ws2[p] : /\ ch2[t] = ch[t]
                             /\ \/ t \in Ws[p]
                                \/ StuckIn(P, ch, t) /\ ~ WriteDue(P[p], t, ch[t].call.n)
    /\ \A t \in Ps2 : ch2[t] = ch[t] /\ (t \in Ps \/ StuckIn(P, ch, t))

LEMMA WakesKept ==
    ASSUME NEW P, NEW ch, NEW ch2, NEW Rs, NEW Ws, NEW Ps, NEW Rs2, NEW Ws2, NEW Ps2,
           NEW td, NEW wk, NEW sch, NEW td2, NEW wk2, NEW sch2,
           ComingOK(P, ch, Rs, Ws, td, wk), BroadOK(P, ch, Rs, Ws, Ps, td, wk, sch),
           Carried(td, wk, sch, td2, wk2, sch2), NoneNew(P, ch, ch2, Rs, Ws, Ps, Rs2, Ws2, Ps2)
    PROVE  ComingOK(P, ch2, Rs2, Ws2, td2, wk2) /\ BroadOK(P, ch2, Rs2, Ws2, Ps2, td2, wk2, sch2)
<1>1. /\ \A p \in Pipes : \A w \in {"readable", "writable"} :
            Coming(td, wk, p, w) => Coming(td2, wk2, p, w)
      /\ Broad(td, wk, sch) => Broad(td2, wk2, sch2)
      /\ \A k \in {"readers", "writers"} : Has(td, k) => Has(td2, k)
    BY DEF Carried
<1>2. \A t : ch2[t] = ch[t] => StuckIn(P, ch2, t) = StuckIn(P, ch, t)
    BY DEF StuckIn
<1>3. ComingOK(P, ch2, Rs2, Ws2, td2, wk2)
  <2>1. ASSUME NEW p \in Pipes, NEW t \in Rs2[p], ReadDue(P[p], t)
        PROVE  Coming(td2, wk2, p, "readable")
    <3>1. t \in Rs[p]
        BY <2>1 DEF NoneNew
    <3> QED BY <1>1, <2>1, <3>1 DEF ComingOK
  <2>2. ASSUME NEW p \in Pipes, NEW t \in Ws2[p], WriteDue(P[p], t, ch2[t].call.n)
        PROVE  Coming(td2, wk2, p, "writable")
    <3>1. t \in Ws[p] /\ WriteDue(P[p], t, ch[t].call.n)
        BY <2>2 DEF NoneNew
    <3> QED BY <1>1, <2>2, <3>1 DEF ComingOK
  <2> QED BY <2>1, <2>2 DEF ComingOK
<1>4. BroadOK(P, ch2, Rs2, Ws2, Ps2, td2, wk2, sch2)
  <2>1. ASSUME NEW t \in Ps2, ~ StuckIn(P, ch2, t) PROVE Broad(td2, wk2, sch2)
    <3>1. t \in Ps /\ ~ StuckIn(P, ch, t)
        BY <1>2, <2>1 DEF NoneNew
    <3> QED BY <1>1, <3>1 DEF BroadOK
  <2>2. ASSUME NEW p \in Pipes, NEW t \in Rs2[p], ~ StuckIn(P, ch2, t)
        PROVE  Broad(td2, wk2, sch2) \/ Has(td2, "readers")
    <3>1. t \in Rs[p] /\ ~ StuckIn(P, ch, t)
        BY <1>2, <2>2 DEF NoneNew
    <3> QED BY <1>1, <3>1 DEF BroadOK
  <2>3. ASSUME NEW p \in Pipes, NEW t \in Ws2[p], ~ StuckIn(P, ch2, t)
        PROVE  Broad(td2, wk2, sch2) \/ Has(td2, "writers")
    <3>1. t \in Ws[p] /\ ~ StuckIn(P, ch, t)
        BY <1>2, <2>3 DEF NoneNew
    <3> QED BY <1>1, <3>1 DEF BroadOK
  <2> QED BY <2>1, <2>2, <2>3 DEF BroadOK
<1> QED BY <1>3, <1>4

(* The same for the state *)
LEMMA WakeMoves ==
    ASSUME WakeInv, pipe' = pipe, Carried(todo, wakes, wakeScheduled, todo', wakes', wakeScheduled'),
           NoneNew(pipe, chan, chan', Sets(readers), Sets(writers), Range(polls),
                   Sets(readers'), Sets(writers'), Range(polls'))
    PROVE  WakeInv'
<1>1. /\ ComingOK(pipe, chan', Sets(readers'), Sets(writers'), todo', wakes')
      /\ BroadOK(pipe, chan', Sets(readers'), Sets(writers'), Range(polls'),
                 todo', wakes', wakeScheduled')
    BY WakesKept DEF WakeInv, ComingInv, BroadInv
<1> QED BY <1>1 DEF WakeInv, ComingInv, BroadInv

LEMMA WakeStays ==
    ASSUME WakeInv, pipe' = pipe, Kept(todo, wakes, wakeScheduled, todo', wakes', wakeScheduled'),
           NoneNew(pipe, chan, chan', Sets(readers), Sets(writers), Range(polls),
                   Sets(readers'), Sets(writers'), Range(polls'))
    PROVE  WakeInv'
BY CarriedOn, WakeMoves

(* An empty stack: nobody is due. *)
LEMMA AtRest ==
    ASSUME HostInv, WakeInv, todo = <<>>
    PROVE  /\ \A p \in Pipes :
                /\ \A t \in Range(readers[p]) : ~ ReadDue(pipe[p], t)
                /\ \A t \in Range(writers[p]) : ~ WriteDue(pipe[p], t, chan[t].call.n)
           /\ ~ wakeScheduled =>
                /\ \A t \in Range(polls) : StuckIn(pipe, chan, t)
                /\ \A p \in Pipes : \A t \in Range(readers[p]) \cup Range(writers[p]) :
                        StuckIn(pipe, chan, t)
<1>1. Range(todo) = {}
    BY EmptyStack
<1>2. \A p, w : ~ Coming(todo, wakes, p, w)
    BY <1>1 DEF Coming
<1>3. Broad(todo, wakes, wakeScheduled) => wakeScheduled
    BY <1>1 DEF Broad
<1>4. \A k : ~ Has(todo, k)
    BY <1>1 DEF Has
<1>5. \A p \in Pipes : Sets(readers)[p] = Range(readers[p]) /\ Sets(writers)[p] = Range(writers[p])
    BY DEF Sets
<1>6. \A p \in Pipes :
        /\ \A t \in Range(readers[p]) : ~ ReadDue(pipe[p], t)
        /\ \A t \in Range(writers[p]) : ~ WriteDue(pipe[p], t, chan[t].call.n)
    BY <1>2, <1>5 DEF WakeInv, ComingInv, ComingOK
<1>7. ~ wakeScheduled =>
        /\ \A t \in Range(polls) : StuckIn(pipe, chan, t)
        /\ \A p \in Pipes : \A t \in Range(readers[p]) \cup Range(writers[p]) :
                StuckIn(pipe, chan, t)
    BY <1>3, <1>4, <1>5 DEF WakeInv, BroadInv, BroadOK
<1> QED BY <1>6, <1>7

LEMMA BlocksIs ==
    ASSUME NEW t, NEW c \in CallSet
    PROVE  Blocks(t, c) <=> Stuck(pipe[c.p], ProcOf[t], c)
<1>1. c.op \in {"read", "write", "poll"} /\ (c.op = "poll" => c.side \in {"in", "out"})
    BY CallTypes
<1>2. CASE c.op = "read"
    BY <1>2 DEF Blocks, FdOpen, Stuck
<1>3. CASE c.op = "write"
    BY <1>3 DEF Blocks, FdOpen, Stuck
<1>4. CASE c.op = "poll" /\ c.side = "in"
    BY <1>4 DEF Blocks, FdOpen, Stuck
<1>5. CASE c.op = "poll" /\ c.side = "out"
    BY <1>5 DEF Blocks, FdOpen, Stuck
<1> QED BY <1>1, <1>2, <1>3, <1>4, <1>5

LEMMA PopKept ==
    ASSUME HostInv, todo # <<>>, ~ Carries(Head(todo)), Range(Tail(todo)) \subseteq Range(todo'),
           Range(wakes) \subseteq Range(wakes'), wakes # <<>> => wakes' # <<>>,
           wakeScheduled => wakeScheduled'
    PROVE  Kept(todo, wakes, wakeScheduled, todo', wakes', wakeScheduled')
<1>1. Range(todo) = {Head(todo)} \cup Range(Tail(todo))
    BY TailIs DEF HostInv
<1> QED BY <1>1 DEF Kept

LEMMA RestKept ==
    ASSUME HostInv, todo = <<>>, Range(wakes) \subseteq Range(wakes'),
           wakes # <<>> => wakes' # <<>>, wakeScheduled => wakeScheduled'
    PROVE  Kept(todo, wakes, wakeScheduled, todo', wakes', wakeScheduled')
BY EmptyStack DEF Kept

(* Nobody is parked. *)
LEMMA FewerParked ==
    ASSUME \A p \in Pipes : /\ Range(readers'[p]) \subseteq Range(readers[p])
                            /\ Range(writers'[p]) \subseteq Range(writers[p]),
           Range(polls') \subseteq Range(polls),
           \A p \in Pipes : \A t \in Range(readers[p]) \cup Range(writers[p]) : chan'[t] = chan[t],
           \A t \in Range(polls) : chan'[t] = chan[t], NEW P
    PROVE  NoneNew(P, chan, chan', Sets(readers), Sets(writers), Range(polls),
                   Sets(readers'), Sets(writers'), Range(polls'))
<1>1. \A p \in Pipes : /\ Sets(readers)[p] = Range(readers[p]) /\ Sets(writers)[p] = Range(writers[p])
                       /\ Sets(readers')[p] = Range(readers'[p])
                       /\ Sets(writers')[p] = Range(writers'[p])
    BY DEF Sets
<1> QED BY <1>1 DEF NoneNew

(* The host has the channels of parked calls. *)
LEMMA ParkedIs ==
    ASSUME HostInv
    PROVE  /\ \A p \in Pipes : \A t \in Range(readers[p]) :
                /\ t \in Threads /\ chan[t].st = "host" /\ chan[t].call \in CallSet
                /\ t \notin Busy(todo) /\ chan[t].call.op = "read" /\ chan[t].call.p = p
           /\ \A p \in Pipes : \A t \in Range(writers[p]) :
                /\ t \in Threads /\ chan[t].st = "host" /\ chan[t].call \in CallSet
                /\ t \notin Busy(todo) /\ chan[t].call.op = "write" /\ chan[t].call.p = p
           /\ \A t \in Range(polls) :
                /\ t \in Threads /\ chan[t].st = "host" /\ chan[t].call \in CallSet
                /\ t \notin Busy(todo) /\ chan[t].call.op = "poll"
<1>1. Places /\ \A p \in Pipes : Sets(readers)[p] = Range(readers[p]) /\ Sets(writers)[p] = Range(writers[p])
    BY HostFacts
<1>2. ASSUME NEW p \in Pipes, NEW t \in Range(readers[p])
      PROVE  /\ t \in Threads /\ chan[t].st = "host" /\ chan[t].call \in CallSet
             /\ t \notin Busy(todo) /\ chan[t].call.op = "read" /\ chan[t].call.p = p
  <2>1. t \in Sets(readers)[p]
    BY <1>1
  <2> QED BY <1>1, <2>1 DEF Places, PlacesOK, Awaits
<1>3. ASSUME NEW p \in Pipes, NEW t \in Range(writers[p])
      PROVE  /\ t \in Threads /\ chan[t].st = "host" /\ chan[t].call \in CallSet
             /\ t \notin Busy(todo) /\ chan[t].call.op = "write" /\ chan[t].call.p = p
  <2>1. t \in Sets(writers)[p]
    BY <1>1
  <2> QED BY <1>1, <2>1 DEF Places, PlacesOK, Awaits
<1>4. ASSUME NEW t \in Range(polls)
      PROVE  /\ t \in Threads /\ chan[t].st = "host" /\ chan[t].call \in CallSet
             /\ t \notin Busy(todo) /\ chan[t].call.op = "poll"
    BY <1>1, <1>4 DEF Places, PlacesOK, Awaits
<1> QED BY <1>2, <1>3, <1>4

(* Steps that leave the parked calls where they are *)
LEMMA SameParked ==
    ASSUME HostInv, \A t \in Threads : chan[t].st = "host" /\ t \notin Busy(todo) => chan'[t] = chan[t],
           UNCHANGED <<readers, writers, polls>>, NEW P
    PROVE  NoneNew(P, chan, chan', Sets(readers), Sets(writers), Range(polls),
                   Sets(readers'), Sets(writers'), Range(polls'))
<1>1. /\ \A p \in Pipes : \A t \in Range(readers[p]) \cup Range(writers[p]) : chan'[t] = chan[t]
      /\ \A t \in Range(polls) : chan'[t] = chan[t]
    BY ParkedIs
<1>2. \A p \in Pipes : /\ Range(readers'[p]) \subseteq Range(readers[p])
                       /\ Range(writers'[p]) \subseteq Range(writers[p])
    OBVIOUS
<1>3. Range(polls') \subseteq Range(polls)
    OBVIOUS
<1> QED BY <1>1, <1>2, <1>3, FewerParked

-----------------------------------------------------------------------------
LEMMA NotDue ==
    ASSUME NEW t, NEW c \in CallSet, Blocks(t, c)
    PROVE  /\ c.op = "read" => ~ ReadDue(pipe[c.p], t)
           /\ c.op = "write" => ~ WriteDue(pipe[c.p], t, c.n)
BY DEF Blocks, FdOpen, Readable, ReadDue, WriteDue

LEMMA RunBlockedWakes ==
    ASSUME HostInv, WakeInv, todo # <<>>, NEW t, Head(todo) = Run(t), t \in Threads,
           Blocks(t, chan[t].call), Park(t, chan[t].call), todo' = Tail(todo),
           UNCHANGED <<kernel, chan, wakeScheduled>>
    PROVE  WakeInv'
<1> DEFINE c == chan[t].call
<1>1. c \in CallSet /\ c.p \in Pipes /\ c.op \in {"read", "write", "poll"}
    BY RunIs, CallTypes
<1>2. StuckIn(pipe, chan, t)
    BY <1>1, BlocksIs DEF StuckIn
<1>3. /\ c.op = "read" => ~ ReadDue(pipe[c.p], t)
      /\ c.op = "write" => ~ WriteDue(pipe[c.p], t, c.n)
    BY <1>1, NotDue
<1>4. /\ readers \in [Pipes -> Seq(Threads)] /\ writers \in [Pipes -> Seq(Threads)]
      /\ \A p \in Pipes : ListOf(readers[p], Range(readers[p])) /\ ListOf(writers[p], Range(writers[p]))
      /\ ListOf(polls, Range(polls))
      /\ \A p \in Pipes : Sets(readers)[p] = Range(readers[p]) /\ Sets(writers)[p] = Range(writers[p])
    BY HostFacts DEF LinesOK
<1>5. \A p \in Pipes : /\ Range(Add(readers[p], t)) = Range(readers[p]) \cup {t}
                       /\ Range(Add(writers[p], t)) = Range(writers[p]) \cup {t}
    BY <1>4, AddIs, LineList
<1>6. Range(Add(polls, t)) = Range(polls) \cup {t}
    BY <1>4, AddIs, LineList
<1> HIDE DEF c
<1>7. NoneNew(pipe, chan, chan, Sets(readers), Sets(writers), Range(polls),
              Sets(readers'), Sets(writers'), Range(polls'))
  <2>1. \A p \in Pipes : Sets(readers')[p] = Range(readers'[p]) /\ Sets(writers')[p] = Range(writers'[p])
    BY DEF Sets
  <2>2. CASE c.op = "poll"
    <3>1. polls' = Add(polls, t) /\ readers' = readers /\ writers' = writers
        BY <2>2 DEF Park, c
    <3> QED BY <1>2, <1>4, <1>6, <2>1, <3>1 DEF NoneNew
  <2>3. CASE c.op = "read"
    <3>1. readers' = [readers EXCEPT ![c.p] = Add(@, t)] /\ polls' = polls /\ writers' = writers
        BY <2>3 DEF Park, c
    <3>2. \A p \in Pipes : readers'[p] = IF p = c.p THEN Add(readers[p], t) ELSE readers[p]
        BY <1>1, <1>4, <3>1
    <3>3. \A p \in Pipes : \A v \in Sets(readers')[p] : v \in Sets(readers)[p] \/ (p = c.p /\ v = t)
        BY <1>4, <1>5, <2>1, <3>2
    <3> QED BY <1>2, <1>3, <1>4, <2>1, <2>3, <3>1, <3>3 DEF NoneNew
  <2>4. CASE c.op = "write"
    <3>1. writers' = [writers EXCEPT ![c.p] = Add(@, t)] /\ polls' = polls /\ readers' = readers
        BY <2>4 DEF Park, c
    <3>2. \A p \in Pipes : writers'[p] = IF p = c.p THEN Add(writers[p], t) ELSE writers[p]
        BY <1>1, <1>4, <3>1
    <3>3. \A p \in Pipes : \A v \in Sets(writers')[p] : v \in Sets(writers)[p] \/ (p = c.p /\ v = t)
        BY <1>4, <1>5, <2>1, <3>2
    <3> QED BY <1>2, <1>3, <1>4, <2>1, <2>4, <3>1, <3>3 DEF NoneNew, c
  <2> QED BY <1>1, <2>2, <2>3, <2>4
<1>8. pipe' = pipe /\ wakes' = wakes /\ chan' = chan /\ wakeScheduled' = wakeScheduled
    BY DEF kernel
<1>9. ~ Carries(Head(todo))
    BY FrameTypes DEF Carries
<1>10. Kept(todo, wakes, wakeScheduled, todo', wakes', wakeScheduled')
    BY <1>8, <1>9, PopKept
<1> QED BY <1>7, <1>8, <1>10, WakeStays

LEMMA DrainWakes ==
    ASSUME HostInv, WakeInv, todo # <<>>, Head(todo).k = "drain", TakeBatch(Tail(todo))
    PROVE  WakeInv'
<1> DEFINE h == Head(todo)
           rest == Tail(todo)
<1>1. PICK new, events :
        /\ Drained(new, events, wakes') /\ todo' = new \o rest
        /\ Range(events) \cup Range(wakes') = Range(h.events) \cup Range(wakes)
    BY TakeBatchIs
<1>2. /\ wakes' \in Seq(Event) /\ pipe' = pipe /\ chan' = chan
      /\ UNCHANGED <<readers, writers, polls, wakeScheduled>>
    BY TakeBatchIs DEF host
<1>3. /\ new \in Seq(Frames) /\ events \in Seq(Event) /\ wakes \in Seq(Event)
      /\ rest \in Seq(Frames) /\ h \in Frames /\ Range(todo) = {h} \cup Range(rest)
    BY <1>1, TailIs DEF Drained, HostInv
<1>4. Range(todo') = Range(new) \cup Range(rest)
  <2> HIDE DEF rest, h
  <2>1. new \in Seq(Frames) /\ rest \in Seq(Frames)
    BY <1>3
  <2>2. Range(new \o rest) = Range(new) \cup Range(rest)
    BY <2>1, ConcatIs
  <2> QED BY <1>1, <2>2
<1>5. h.k = "drain" /\ h.events \in Seq(Event)
    BY <1>3, FrameCases
<1> HIDE DEF h, rest
<1>6. /\ Drain(events).k = "drain" /\ Drain(events).events = events
      /\ \A e \in Event : Process(e).k = "process" /\ Process(e).e = e
      /\ Frame("schedule").k = "schedule"
    BY <1>3, FrameTypes
<1>7. /\ Range(events) \subseteq Event /\ (events = <<>> => Range(events) = {})
      /\ (wakes' = <<>> => Range(wakes') = {}) /\ (wakes # <<>> => Range(wakes) # {})
      /\ (h.events # <<>> => Range(h.events) # {})
  <2>1. Range(events) \subseteq Event /\ (events = <<>> => Range(events) = {})
    BY <1>3, RangeIs
  <2>2. wakes' = <<>> => Range(wakes') = {}
    BY <1>2, RangeIs
  <2>3. wakes # <<>> => Range(wakes) # {}
    BY <1>3, RangeIs
  <2>4. h.events # <<>> => Range(h.events) # {}
    BY <1>5, RangeIs
  <2> QED BY <2>1, <2>2, <2>3, <2>4
(* What was drained is carried by the new frames. *)
<1>8. ASSUME NEW e \in Event, e \in Range(h.events) \cup Range(wakes)
      PROVE  \E f \in Range(new) : \/ f.k = "process" /\ f.e = e
                                   \/ f.k = "drain" /\ e \in Range(f.events) \cup Range(wakes')
  <2>1. e \in Range(events) \cup Range(wakes')
    BY <1>1, <1>8
  <2>2. CASE Range(new) = {Drain(events)}
    BY <1>6, <2>1, <2>2
  <2>3. CASE /\ Range(new) = {Process(x) : x \in Range(events)} \cup {Frame("schedule")}
             /\ wakes' = <<>>
    <3>1. e \in Range(events) /\ Process(e) \in Range(new)
        BY <1>7, <2>1, <2>3
    <3> QED BY <1>6, <3>1
  <2>4. ~ (events = <<>> /\ wakes' = <<>>)
    BY <1>7, <2>1
  <2> QED BY <1>1, <2>2, <2>3, <2>4 DEF Drained
<1>9. ASSUME NEW p \in Pipes, NEW w \in {"readable", "writable"}, Coming(todo, wakes, p, w)
      PROVE  Coming(todo', wakes', p, w)
  <2>1. Wake(p, w) \in Event
    BY WakeType
  <2>2. PICK f \in Range(todo) :
            \/ f.k = "process" /\ f.e = Wake(p, w)
            \/ f.k = "drain" /\ Wake(p, w) \in Range(f.events) \cup Range(wakes)
    BY <1>9 DEF Coming
  <2>3. CASE Wake(p, w) \in Range(h.events) \cup Range(wakes)
    BY <1>4, <1>8, <2>1, <2>3 DEF Coming
  <2>4. CASE Wake(p, w) \notin Range(h.events) \cup Range(wakes)
    <3>1. f \in Range(rest)
        BY <1>3, <1>5, <2>2, <2>4
    <3> QED BY <1>4, <2>2, <2>4, <3>1 DEF Coming
  <2> QED BY <2>3, <2>4
<1>10. ASSUME Broad(todo, wakes, wakeScheduled)
       PROVE  Broad(todo', wakes', wakeScheduled')
  <2>1. CASE h.events = <<>> /\ wakes = <<>>
    <3>1. \/ wakeScheduled
          \/ \E f \in Range(rest) : f.k = "schedule" \/ (f.k = "drain" /\ f.events # <<>>)
        BY <1>3, <1>5, <1>10, <2>1 DEF Broad
    <3> QED BY <1>2, <1>4, <3>1 DEF Broad
  <2>2. CASE h.events # <<>> \/ wakes # <<>>
    <3>1. Range(events) \cup Range(wakes') # {}
        BY <1>1, <1>7, <2>2
    <3>2. ~ (events = <<>> /\ wakes' = <<>>)
        BY <1>7, <3>1
    <3>3. \E f \in Range(new) : f.k = "schedule" \/ (f.k = "drain" /\ f.events # <<>>)
        BY <1>1, <1>6, <3>2 DEF Drained
    <3> QED BY <1>4, <3>3 DEF Broad
  <2> QED BY <2>1, <2>2
<1>11. \A k \in {"readers", "writers"} : Has(todo, k) => Has(todo', k)
    BY <1>3, <1>4, <1>5 DEF Has
<1>12. Carried(todo, wakes, wakeScheduled, todo', wakes', wakeScheduled')
    BY <1>9, <1>10, <1>11 DEF Carried
<1>13. NoneNew(pipe, chan, chan', Sets(readers), Sets(writers), Range(polls),
               Sets(readers'), Sets(writers'), Range(polls'))
    BY <1>2, SameParked
<1> QED BY <1>2, <1>12, <1>13, WakeMoves

LEMMA ScheduleWakes ==
    ASSUME HostInv, WakeInv, todo # <<>>, Head(todo).k = "schedule", ScheduleBroad(Tail(todo))
    PROVE  WakeInv'
<1> DEFINE rest == Tail(todo)
<1>1. /\ wakeScheduled' = (wakeScheduled \/ Parked) /\ todo' = rest
      /\ UNCHANGED <<pipe, wakes, chan, readers, writers, polls>>
    BY DEF ScheduleBroad, kernel
<1>2. Range(todo) = {Head(todo)} \cup Range(rest)
    BY TailIs DEF HostInv
<1>3. \A p \in Pipes : Sets(readers)[p] = Range(readers[p]) /\ Sets(writers)[p] = Range(writers[p])
    BY DEF Sets
<1>4. \A p, w : Coming(todo, wakes, p, w) => Coming(todo', wakes', p, w)
    BY <1>1, <1>2 DEF Coming
<1>5. ComingInv'
  <2>1. ComingOK(pipe, chan, Sets(readers), Sets(writers), todo', wakes')
    BY <1>4 DEF WakeInv, ComingInv, ComingOK
  <2> QED BY <1>1, <2>1 DEF ComingInv
<1>6. CASE Parked
  <2>1. Broad(todo', wakes', wakeScheduled')
    BY <1>1, <1>6 DEF Broad
  <2> QED BY <1>5, <2>1 DEF WakeInv, BroadInv, BroadOK
<1>7. CASE ~ Parked
  <2>1. /\ Range(polls) = {}
        /\ \A p \in Pipes : Range(readers[p]) = {} /\ Range(writers[p]) = {}
    <3>1. polls = <<>> /\ \A p \in Pipes : readers[p] = <<>> /\ writers[p] = <<>>
        BY <1>7 DEF Parked
    <3>2. Range(<<>>) = {}
        BY EmptyList, LineList
    <3> QED BY <3>1, <3>2
  <2>2. BroadOK(pipe, chan, Sets(readers), Sets(writers), Range(polls), todo', wakes', wakeScheduled')
    BY <1>3, <2>1 DEF BroadOK
  <2>3. BroadInv'
    BY <1>1, <2>2 DEF BroadInv
  <2> QED BY <1>5, <2>3 DEF WakeInv
<1> QED BY <1>6, <1>7

(* The calls parked for an event are taken up. *)
LEMMA ProcessWakes ==
    ASSUME HostInv, WakeInv, todo # <<>>, Head(todo).k = "process",
           ProcessEvent(Head(todo).e, Tail(todo))
    PROVE  WakeInv'
<1> DEFINE h == Head(todo)
           e == h.e
           rest == Tail(todo)
<1>1. /\ h \in Frames /\ rest \in Seq(Frames) /\ Range(todo) = {h} \cup Range(rest)
    BY TailIs DEF HostInv
<1>2. e \in Event /\ e.p \in Pipes /\ e.w \in {"readable", "writable"} /\ h.k = "process"
    BY <1>1, FrameCases DEF Event
<1>3. \A p \in Pipes : Wake(p, "readable") = e => p = e.p /\ e.w = "readable"
    BY WakeType
<1>4. \A p \in Pipes : Wake(p, "writable") = e => p = e.p /\ e.w = "writable"
    BY WakeType
<1>5. UNCHANGED <<pipe, wakes, chan, polls, wakeScheduled>>
    BY DEF ProcessEvent, kernel
<1>6. /\ readers \in [Pipes -> Seq(Threads)] /\ writers \in [Pipes -> Seq(Threads)]
      /\ \A p \in Pipes : ListOf(readers[p], Range(readers[p])) /\ ListOf(writers[p], Range(writers[p]))
    BY HostFacts DEF LinesOK
<1>7. \A p \in Pipes : Runs(readers[p]) \in Seq(Frames) /\ Runs(writers[p]) \in Seq(Frames)
    BY <1>6, RunsIs
<1>8. Range(<<>>) = {}
    BY EmptyList, LineList
<1>9. \/ /\ e.w = "readable" /\ todo' = Runs(readers[e.p]) \o rest
         /\ readers' = [readers EXCEPT ![e.p] = <<>>] /\ writers' = writers
      \/ /\ e.w = "writable" /\ todo' = Runs(writers[e.p]) \o rest
         /\ writers' = [writers EXCEPT ![e.p] = <<>>] /\ readers' = readers
    BY <1>2 DEF ProcessEvent
<1> HIDE DEF h, e, rest
<1>10. Range(rest) \subseteq Range(todo')
  <2>1. \A s \in Seq(Frames) : Range(rest) \subseteq Range(s \o rest)
    BY <1>1, ConcatIs
  <2> QED BY <1>2, <1>7, <1>9, <2>1
(* Every other wake-up is still coming. *)
<1>11. ASSUME NEW p \in Pipes, NEW w \in {"readable", "writable"}, Coming(todo, wakes, p, w)
       PROVE  Coming(todo', wakes', p, w) \/ e = Wake(p, w)
    BY <1>1, <1>2, <1>5, <1>10, <1>11 DEF Coming, e
<1>12. Broad(todo, wakes, wakeScheduled) => Broad(todo', wakes', wakeScheduled')
    BY <1>1, <1>2, <1>5, <1>10 DEF Broad
<1>13. \A k \in {"readers", "writers"} : Has(todo, k) => Has(todo', k)
    BY <1>1, <1>2, <1>10 DEF Has
<1>14. \A p \in Pipes :
        /\ readers'[p] \in {readers[p], <<>>} /\ writers'[p] \in {writers[p], <<>>}
        /\ e = Wake(p, "readable") => readers'[p] = <<>>
        /\ e = Wake(p, "writable") => writers'[p] = <<>>
    BY <1>2, <1>3, <1>4, <1>6, <1>9
<1>15. \A p \in Pipes :
        /\ Sets(readers)[p] = Range(readers[p]) /\ Sets(writers)[p] = Range(writers[p])
        /\ Sets(readers')[p] \in {Sets(readers)[p], {}} /\ Sets(writers')[p] \in {Sets(writers)[p], {}}
        /\ e = Wake(p, "readable") => Sets(readers')[p] = {}
        /\ e = Wake(p, "writable") => Sets(writers')[p] = {}
    BY <1>8, <1>14 DEF Sets
<1>16. ComingInv'
  <2>1. ComingOK(pipe, chan, Sets(readers), Sets(writers), todo, wakes)
    BY DEF WakeInv, ComingInv
  <2>2. ASSUME NEW p \in Pipes, NEW t \in Sets(readers')[p], ReadDue(pipe[p], t)
        PROVE  Coming(todo', wakes', p, "readable")
    <3>1. t \in Sets(readers)[p] /\ e # Wake(p, "readable")
        BY <1>15, <2>2
    <3>2. Coming(todo, wakes, p, "readable")
        BY <2>1, <2>2, <3>1 DEF ComingOK
    <3> QED BY <1>11, <3>1, <3>2
  <2>3. ASSUME NEW p \in Pipes, NEW t \in Sets(writers')[p], WriteDue(pipe[p], t, chan[t].call.n)
        PROVE  Coming(todo', wakes', p, "writable")
    <3>1. t \in Sets(writers)[p] /\ e # Wake(p, "writable")
        BY <1>15, <2>3
    <3>2. Coming(todo, wakes, p, "writable")
        BY <2>1, <2>3, <3>1 DEF ComingOK
    <3> QED BY <1>11, <3>1, <3>2
  <2>4. ComingOK(pipe, chan, Sets(readers'), Sets(writers'), todo', wakes')
    BY <2>2, <2>3 DEF ComingOK
  <2> QED BY <1>5, <2>4 DEF ComingInv
<1>17. BroadInv'
  <2>1. BroadOK(pipe, chan, Sets(readers), Sets(writers), Range(polls), todo, wakes, wakeScheduled)
    BY DEF WakeInv, BroadInv
  <2>2. \A p \in Pipes : /\ Sets(readers')[p] \subseteq Sets(readers)[p]
                         /\ Sets(writers')[p] \subseteq Sets(writers)[p]
    BY <1>15
  <2>3. BroadOK(pipe, chan, Sets(readers'), Sets(writers'), Range(polls), todo', wakes', wakeScheduled')
    BY <1>12, <1>13, <2>1, <2>2 DEF BroadOK
  <2> QED BY <1>5, <2>3 DEF BroadInv
<1> QED BY <1>16, <1>17 DEF WakeInv

LEMMA WakeAllWakes ==
    ASSUME HostInv, WakeInv, todo # <<>>, Head(todo).k \in {"readers", "writers"},
           WakeAll(Head(todo).k, Tail(todo))
    PROVE  WakeInv'
<1> DEFINE h == Head(todo)
           rest == Tail(todo)
<1>1. /\ h \in Frames /\ rest \in Seq(Frames) /\ Range(todo) = {h} \cup Range(rest)
    BY TailIs DEF HostInv
<1>2. UNCHANGED <<pipe, wakes, chan, polls, wakeScheduled>>
    BY DEF WakeAll, kernel
<1>3. Range(<<>>) = {}
    BY EmptyList, LineList
<1>4. Runs(InOrder(readers)) \in Seq(Frames) /\ Runs(InOrder(writers)) \in Seq(Frames)
  <2>1. /\ \A p \in Pipes : ListOf(readers[p], Sets(readers)[p])
        /\ \A p, q \in Pipes : p # q => Sets(readers)[p] \cap Sets(readers)[q] = {}
    BY HostFacts, ListsApart
  <2>2. /\ \A p \in Pipes : ListOf(writers[p], Sets(writers)[p])
        /\ \A p, q \in Pipes : p # q => Sets(writers)[p] \cap Sets(writers)[q] = {}
    BY HostFacts, ListsApart
  <2>3. ListOf(InOrder(readers), UNION {Sets(readers)[p] : p \in Pipes})
    BY <2>1, InOrderIs
  <2>4. ListOf(InOrder(writers), UNION {Sets(writers)[p] : p \in Pipes})
    BY <2>2, InOrderIs
  <2> QED BY <2>3, <2>4, RunsIs
<1>5. \/ /\ h.k = "readers" /\ todo' = Runs(InOrder(readers)) \o rest
         /\ readers' = [p \in Pipes |-> <<>>] /\ writers' = writers
      \/ /\ h.k = "writers" /\ todo' = Runs(InOrder(writers)) \o rest
         /\ writers' = [p \in Pipes |-> <<>>] /\ readers' = readers
    BY DEF WakeAll
<1> HIDE DEF h, rest
<1>6. Range(rest) \subseteq Range(todo')
  <2>1. \A s \in Seq(Frames) : Range(rest) \subseteq Range(s \o rest)
    BY <1>1, ConcatIs
  <2> QED BY <1>4, <1>5, <2>1
<1>7. \A p, w : Coming(todo, wakes, p, w) => Coming(todo', wakes', p, w)
    BY <1>1, <1>2, <1>5, <1>6 DEF Coming
<1>8. Broad(todo, wakes, wakeScheduled) => Broad(todo', wakes', wakeScheduled')
    BY <1>1, <1>2, <1>5, <1>6 DEF Broad
<1>9. \A k : Has(todo, k) => Has(todo', k) \/ h.k = k
    BY <1>1, <1>6 DEF Has
<1>10. \A p \in Pipes :
        /\ Sets(readers')[p] \subseteq Sets(readers)[p] /\ Sets(writers')[p] \subseteq Sets(writers)[p]
        /\ h.k = "readers" => Sets(readers')[p] = {}
        /\ h.k = "writers" => Sets(writers')[p] = {}
    BY <1>3, <1>5 DEF Sets
<1>11. ComingOK(pipe, chan, Sets(readers'), Sets(writers'), todo', wakes')
    BY <1>7, <1>10 DEF WakeInv, ComingInv, ComingOK
<1>12. BroadOK(pipe, chan, Sets(readers'), Sets(writers'), Range(polls), todo', wakes', wakeScheduled')
  <2>1. BroadOK(pipe, chan, Sets(readers), Sets(writers), Range(polls), todo, wakes, wakeScheduled)
    BY DEF WakeInv, BroadInv
  <2> QED BY <1>8, <1>9, <1>10, <2>1 DEF BroadOK
<1> QED BY <1>2, <1>11, <1>12 DEF WakeInv, ComingInv, BroadInv

LEMMA PublishWakes ==
    ASSUME HostInv, WakeInv, todo # <<>>, Head(todo).k = "publish",
           PublishAnswer(Head(todo).t, Tail(todo))
    PROVE  WakeInv'
<1> DEFINE t == Head(todo).t
<1>1. StackIs(todo, Busy(todo), Ran(todo)) /\ ChansOK(chan)
    BY HostFacts
<1>2. t \in Busy(todo) /\ ~ Carries(Head(todo))
    BY <1>1, PopIs DEF Served, Serves, Carries
<1>3. /\ chan' = [chan EXCEPT ![t] = [st |-> "guest", call |-> NoCall]] /\ todo' = Tail(todo)
      /\ UNCHANGED <<pipe, wakes, readers, writers, polls, wakeScheduled>>
    BY DEF PublishAnswer, kernel, host
<1>4. \A v \in Threads : v # t => chan'[v] = chan[v]
    BY <1>1, <1>3 DEF ChansOK
<1>5. NoneNew(pipe, chan, chan', Sets(readers), Sets(writers), Range(polls),
              Sets(readers'), Sets(writers'), Range(polls'))
    BY <1>2, <1>3, <1>4, SameParked
<1>6. Kept(todo, wakes, wakeScheduled, todo', wakes', wakeScheduled')
    BY <1>2, <1>3, PopKept
<1> QED BY <1>3, <1>5, <1>6, WakeStays

LEMMA CancelWakes ==
    ASSUME HostInv, WakeInv, todo # <<>>, Head(todo).k = "cancel",
           CancelParked(Head(todo).t, Tail(todo))
    PROVE  WakeInv'
<1> DEFINE u == Head(todo).t
           rest == Tail(todo)
<1>1. /\ polls' = Drop(polls, u) /\ readers' = DropAll(readers, u) /\ writers' = DropAll(writers, u)
      /\ todo' = Completion(u) \o rest \/ todo' = rest
      /\ UNCHANGED <<pipe, wakes, chan, wakeScheduled>>
    BY DEF CancelParked, kernel
<1>2. u \in Threads /\ rest \in Seq(Frames) /\ ~ Carries(Head(todo))
    BY TailIs, FrameCases DEF HostInv, Carries
<1>3. /\ readers \in [Pipes -> Seq(Threads)] /\ writers \in [Pipes -> Seq(Threads)]
      /\ \A p \in Pipes : Line(readers[p]) /\ Line(writers[p])
      /\ ListOf(polls, Range(polls))
    BY HostFacts DEF LinesOK
<1>4. Completion(u) \in Seq(Frames)
    BY <1>2, CompletionIs DEF StackIs
<1> HIDE DEF u, rest
<1>5. Range(rest) \subseteq Range(todo')
  <2>1. Range(rest) \subseteq Range(Completion(u) \o rest)
    BY <1>2, <1>4, ConcatIs
  <2> QED BY <1>1, <2>1
<1>6. Kept(todo, wakes, wakeScheduled, todo', wakes', wakeScheduled')
    BY <1>1, <1>2, <1>5, PopKept DEF rest
<1>7. ASSUME NEW ls \in [Pipes -> Seq(Threads)], \A p \in Pipes : Line(ls[p])
      PROVE  \A p \in Pipes : Range(DropAll(ls, u)[p]) \subseteq Range(ls[p])
  <2>1. \A p \in Pipes : Sets(DropAll(ls, u))[p] = Range(ls[p]) \ {u}
    BY <1>7, DropAllIs
  <2> QED BY <2>1 DEF Sets
<1>8. \A p \in Pipes : /\ Range(readers'[p]) \subseteq Range(readers[p])
                       /\ Range(writers'[p]) \subseteq Range(writers[p])
    BY <1>1, <1>3, <1>7
<1>9. Range(polls') \subseteq Range(polls)
  <2>1. ListOf(polls', Range(polls) \ {u})
    BY <1>1, <1>3, DropIs
  <2> QED BY <2>1, LineList
<1>10. NoneNew(pipe, chan, chan', Sets(readers), Sets(writers), Range(polls),
               Sets(readers'), Sets(writers'), Range(polls'))
    BY <1>1, <1>8, <1>9, FewerParked
<1> QED BY <1>1, <1>6, <1>10, WakeStays

(* A call that is done *)
LEMMA RunDoneWakes ==
    ASSUME HostInv, RingInv, WakeInv, todo # <<>>, NEW t, Head(todo) = Run(t), t \in Threads,
           KernelCall(t, chan[t].call), polls' = Drop(polls, t),
           todo' = Completion(t) \o Tail(todo),
           UNCHANGED <<chan, readers, writers, wakeScheduled>>
    PROVE  WakeInv'
<1> DEFINE c == chan[t].call
           z == c.p
           rest == Tail(todo)
<1>1. c \in CallSet /\ z \in Pipes
    BY RunIs, CallTypes
<1>2. RingInv' /\ KernelEffect(t, c)
    BY <1>1, KernelCallRing
<1>3. /\ wakes \in Seq(Event) /\ wakes' \in Seq(Event) /\ Range(wakes) \subseteq Range(wakes')
    BY <1>1, EventsGrow DEF HostInv
<1>4. rest \in Seq(Frames) /\ ~ Carries(Head(todo)) /\ Range(todo) = {Head(todo)} \cup Range(rest)
    BY TailIs, FrameTypes DEF HostInv, Carries
<1>5. /\ Completion(t) \in Seq(Frames) /\ Drain(<<>>) \in Range(Completion(t))
      /\ Drain(<<>>).k = "drain"
    BY CompletionIs DEF StackIs
<1> HIDE DEF rest, c, z
<1>6. Range(todo') = Range(Completion(t)) \cup Range(rest)
  <2>1. Range(Completion(t) \o rest) = Range(Completion(t)) \cup Range(rest)
    BY <1>4, <1>5, ConcatIs
  <2> QED BY <2>1 DEF rest
<1>7. wakes # <<>> => wakes' # <<>>
  <2>1. wakes # <<>> => Range(wakes) # {}
    BY <1>3, RangeIs
  <2>2. wakes' = <<>> => Range(wakes') = {}
    BY <1>3, RangeIs
  <2> QED BY <1>3, <2>1, <2>2
<1>8. Kept(todo, wakes, wakeScheduled, todo', wakes', wakeScheduled')
    BY <1>3, <1>4, <1>6, <1>7, PopKept DEF rest
<1>9. Range(polls') \subseteq Range(polls)
  <2>1. ListOf(polls', Range(polls) \ {t})
    BY HostFacts, DropIs
  <2> QED BY <2>1, LineList
<1>10. CASE UNCHANGED kernel
  <2>1. pipe' = pipe
    BY <1>10 DEF kernel
  <2>2. NoneNew(pipe, chan, chan', Sets(readers), Sets(writers), Range(polls),
                Sets(readers'), Sets(writers'), Range(polls'))
    BY <1>9, FewerParked
  <2> QED BY <1>8, <2>1, <2>2, WakeStays
<1>11. CASE ~ UNCHANGED kernel
  <2>1. /\ \A x \in Pipes : x # z => pipe'[x] = pipe[x]
        /\ pipe'[z].rd = pipe[z].rd /\ pipe'[z].wr = pipe[z].wr /\ pipe'[z].kind = pipe[z].kind
        /\ ReadEffect(t, c) \/ WriteEffect(t, c)
    BY <1>2, <1>11 DEF KernelEffect, z
  <2>2. \A e \in Range(wakes') : \E f \in Range(todo') : f.k = "drain" /\ e \in Range(wakes')
    BY <1>5, <1>6
  <2>3. wakes' # <<>>
    <3>1. wakes' = Append(wakes, Wake(z, "writable")) \/ wakes' = Append(wakes, Wake(z, "readable"))
        BY <2>1 DEF ReadEffect, WriteEffect, z
    <3> QED BY <1>3, <3>1
  <2>4. Broad(todo', wakes', wakeScheduled')
    BY <1>5, <1>6, <2>3 DEF Broad
  <2>5. BroadInv'
    BY <2>4 DEF BroadInv, BroadOK
  <2>6. \A p \in Pipes : \A w \in {"readable", "writable"} :
            Coming(todo, wakes, p, w) => Coming(todo', wakes', p, w)
    BY <1>8, CarriedOn DEF Carried
  <2>7. /\ pipe[z] \in Buffer /\ pipe'[z] \in Buffer
        /\ pipe[z].len \in Numbers /\ pipe'[z].len \in Numbers
    BY <1>1, <1>2 DEF RingInv, Buffer
  <2>8. ASSUME NEW w \in {"readable", "writable"}, wakes' = Append(wakes, Wake(z, w))
        PROVE  Coming(todo', wakes', z, w)
    <3>1. Wake(z, w) \in Event
        BY <1>1, WakeType
    <3>2. Wake(z, w) \in Range(wakes')
        BY <1>3, <2>8, <3>1, AppendIs
    <3> QED BY <1>5, <1>6, <3>2 DEF Coming
  <2>9. ASSUME NEW v, ReadDue(pipe'[z], v)
        PROVE  ReadDue(pipe[z], v) \/ Coming(todo', wakes', z, "readable")
    <3>1. CASE ReadEffect(t, c)
      <4>1. pipe'[z].len <= pipe[z].len
        BY <3>1 DEF ReadEffect, z
      <4> QED BY <2>1, <2>7, <2>9, <4>1 DEF ReadDue, Numbers
    <3>2. CASE WriteEffect(t, c)
        BY <2>8, <3>2 DEF WriteEffect, z
    <3> QED BY <2>1, <3>1, <3>2
  <2>10. ASSUME NEW v, NEW n \in Nat \ {0}, WriteDue(pipe'[z], v, n)
         PROVE  WriteDue(pipe[z], v, n) \/ Coming(todo', wakes', z, "writable")
    <3>1. CASE WriteEffect(t, c)
      <4>1. pipe'[z].len >= pipe[z].len
        BY <3>1 DEF WriteEffect, z
      <4>2. WriteLen(pipe'[z], n) > 0 => WriteLen(pipe[z], n) > 0
        <5>1. WriteLen(pipe'[z], n) > 0 =>
                  /\ pipe'[z].len < Capacity
                  /\ ~ (pipe'[z].kind = "pipe" /\ n <= PIPE_BUF /\ Capacity - pipe'[z].len < n)
            BY <2>7, WriteLenIs
        <5>2. /\ pipe[z].len < Capacity
              /\ ~ (pipe[z].kind = "pipe" /\ n <= PIPE_BUF /\ Capacity - pipe[z].len < n)
              => WriteLen(pipe[z], n) > 0
            BY <2>7, WriteLenIs
        <5>3. PIPE_BUF \in Nat /\ Capacity \in Nat
            BY PipesConstants
        <5> QED BY <2>1, <2>7, <4>1, <5>1, <5>2, <5>3 DEF Numbers
      <4> QED BY <2>1, <2>10, <4>2 DEF WriteDue
    <3>2. CASE ReadEffect(t, c)
        BY <2>8, <3>2 DEF ReadEffect, z
    <3> QED BY <2>1, <3>1, <3>2
  <2>11. ComingOK(pipe, chan, Sets(readers), Sets(writers), todo, wakes)
    BY DEF WakeInv, ComingInv
  <2>12. ASSUME NEW p \in Pipes, NEW v \in Sets(readers)[p], ReadDue(pipe'[p], v)
         PROVE  Coming(todo', wakes', p, "readable")
    <3>1. ReadDue(pipe[p], v) => Coming(todo', wakes', p, "readable")
        BY <2>6, <2>11 DEF ComingOK
    <3> QED BY <2>1, <2>9, <2>12, <3>1
  <2>13. ASSUME NEW p \in Pipes, NEW v \in Sets(writers)[p], WriteDue(pipe'[p], v, chan[v].call.n)
         PROVE  Coming(todo', wakes', p, "writable")
    <3>1. WriteDue(pipe[p], v, chan[v].call.n) => Coming(todo', wakes', p, "writable")
        BY <2>6, <2>11 DEF ComingOK
    <3>2. chan[v].call.n \in Nat \ {0}
      <4>1. v \in Range(writers[p])
        BY DEF Sets
      <4> QED BY <4>1, ParkedIs, CallTypes, PipesConstants
    <3> QED BY <2>1, <2>10, <2>13, <3>1, <3>2
  <2>14. ComingOK(pipe', chan, Sets(readers), Sets(writers), todo', wakes')
    BY <2>12, <2>13 DEF ComingOK
  <2>15. ComingInv'
    BY <2>14 DEF ComingInv
  <2> QED BY <2>5, <2>15 DEF WakeInv
<1> QED BY <1>10, <1>11

-----------------------------------------------------------------------------
(* Steps from an empty stack *)
LEMMA RestWakes ==
    ASSUME HostInv, WakeInv, todo = <<>>, UNCHANGED <<pipe, wakes, wakeScheduled>>,
           NoneNew(pipe, chan, chan', Sets(readers), Sets(writers), Range(polls),
                   Sets(readers'), Sets(writers'), Range(polls'))
    PROVE  WakeInv'
<1>1. Kept(todo, wakes, wakeScheduled, todo', wakes', wakeScheduled')
    BY RestKept
<1> QED BY <1>1, WakeStays

LEMMA BroadWakeWakes ==
    ASSUME HostInv, WakeInv, BroadWake
    PROVE  WakeInv'
<1>1. /\ Range(polls') = {}
      /\ Range(todo') = {Run(t) : t \in Range(polls)} \cup {Frame("readers"), Frame("writers")}
    BY BroadWakeHost
<1>2. todo = <<>> /\ UNCHANGED <<pipe, wakes, chan, readers, writers>>
    BY DEF BroadWake, kernel
<1>3. Has(todo', "readers") /\ Has(todo', "writers")
  <2>1. Frame("readers").k = "readers" /\ Frame("writers").k = "writers"
    BY FrameTypes
  <2> QED BY <1>1, <2>1 DEF Has
<1>4. \A p \in Pipes : /\ Sets(readers)[p] = Range(readers[p]) /\ Sets(writers)[p] = Range(writers[p])
    BY DEF Sets
<1>5. /\ \A p \in Pipes :
            /\ \A t \in Range(readers[p]) : ~ ReadDue(pipe[p], t)
            /\ \A t \in Range(writers[p]) : ~ WriteDue(pipe[p], t, chan[t].call.n)
    BY <1>2, AtRest
<1>6. ComingOK(pipe, chan, Sets(readers), Sets(writers), todo', wakes')
    BY <1>4, <1>5 DEF ComingOK
<1>7. BroadOK(pipe, chan, Sets(readers), Sets(writers), Range(polls'), todo', wakes', wakeScheduled')
    BY <1>1, <1>3 DEF BroadOK
<1> QED BY <1>2, <1>6, <1>7 DEF WakeInv, ComingInv, BroadInv

LEMMA TimerWakes ==
    ASSUME HostInv, WakeInv, NEW t, PollTimer(t) \/ PollDeadline(t) \/ SocketTimeout(t)
    PROVE  WakeInv'
<1>1. todo = <<>> /\ UNCHANGED <<pipe, wakes, chan, writers, wakeScheduled>>
    BY DEF PollTimer, PollDeadline, SocketTimeout, kernel
<1>2. Range(polls') \subseteq Range(polls)
    BY PollTimerHost DEF SocketTimeout
<1>3. \A p \in Pipes : Range(readers'[p]) \subseteq Range(readers[p])
    BY SocketTimeoutHost DEF PollTimer, PollDeadline
<1>4. NoneNew(pipe, chan, chan', Sets(readers), Sets(writers), Range(polls),
              Sets(readers'), Sets(writers'), Range(polls'))
    BY <1>1, <1>2, <1>3, FewerParked
<1> QED BY <1>1, <1>4, RestWakes

LEMMA HandingWakes ==
    ASSUME HostInv, WakeInv, NEW t \in Threads,
           \/ Listen(t) \/ \E c \in CallSet : Submit(t, c)
           \/ \E u \in Threads : Launched(t, u) \/ handleThreadCancel(t, u)
    PROVE  WakeInv'
<1>1. todo = <<>> /\ UNCHANGED <<pipe, wakes, readers, writers, polls, wakeScheduled>>
    BY DEF Listen, Submit, Launched, handleThreadCancel, kernel, host
<1>2. \A v \in Threads : chan[v].st = "host" => chan'[v] = chan[v]
  <2>1. ChansOK(chan)
    BY HostFacts
  <2>2. ASSUME NEW v \in Threads, chan[v].st = "host" PROVE chan'[v] = chan[v]
    BY <2>1, <2>2 DEF ChansOK, Listen, Submit, Launched, handleThreadCancel
  <2> QED BY <2>2
<1>3. NoneNew(pipe, chan, chan', Sets(readers), Sets(writers), Range(polls),
              Sets(readers'), Sets(writers'), Range(polls'))
    BY <1>1, <1>2, SameParked
<1> QED BY <1>1, <1>3, RestWakes

(* The kernel changes; whom it makes due is told. *)
LEMMA RestMoves ==
    ASSUME HostInv, WakeInv, todo = <<>>, UNCHANGED <<readers, writers, polls>>,
           \A t \in Threads : chan[t].st = "host" => chan'[t] = chan[t],
           \A p \in Pipes : \A v \in Range(readers[p]) :
                ReadDue(pipe'[p], v) => Coming(todo', wakes', p, "readable"),
           \A p \in Pipes : \A v \in Range(writers[p]) :
                WriteDue(pipe'[p], v, chan[v].call.n) => Coming(todo', wakes', p, "writable"),
           \/ Broad(todo', wakes', wakeScheduled')
           \/ /\ \A v \in Range(polls) : StuckIn(pipe', chan, v)
              /\ \A p \in Pipes : \A v \in Range(readers[p]) \cup Range(writers[p]) :
                    StuckIn(pipe', chan, v)
    PROVE  WakeInv'
<1>1. \A p \in Pipes : \A v \in Range(readers[p]) \cup Range(writers[p]) : chan'[v] = chan[v]
    BY ParkedIs
<1>2. \A v \in Range(polls) : chan'[v] = chan[v]
    BY ParkedIs
<1>3. \A p \in Pipes : /\ Sets(readers)[p] = Range(readers[p]) /\ Sets(writers)[p] = Range(writers[p])
    BY DEF Sets
<1>4. ComingOK(pipe', chan', Sets(readers), Sets(writers), todo', wakes')
    BY <1>1, <1>3 DEF ComingOK
<1>5. \A v : chan'[v] = chan[v] => StuckIn(pipe', chan', v) = StuckIn(pipe', chan, v)
    BY DEF StuckIn
<1>6. BroadOK(pipe', chan', Sets(readers), Sets(writers), Range(polls), todo', wakes', wakeScheduled')
  <2>1. CASE Broad(todo', wakes', wakeScheduled')
    BY <2>1 DEF BroadOK
  <2>2. CASE /\ \A v \in Range(polls) : StuckIn(pipe', chan, v)
             /\ \A p \in Pipes : \A v \in Range(readers[p]) \cup Range(writers[p]) :
                    StuckIn(pipe', chan, v)
    BY <1>1, <1>2, <1>3, <1>5, <2>2 DEF BroadOK
  <2> QED BY <2>1, <2>2
<1> QED BY <1>4, <1>6 DEF WakeInv, ComingInv, BroadInv

(* Closing an end makes the other side due, or one that was due already. *)
LEMMA ClosedDue ==
    ASSUME NEW b \in Buffer, NEW b2 \in Buffer, NEW D, NEW E, ClosedBy(b, b2, D, E), NEW v
    PROVE  /\ ReadDue(b2, v) => ReadDue(b, v) \/ b.wr \cap E # {}
           /\ \A n : WriteDue(b2, v, n) => WriteDue(b, v, n) \/ b.rd \cap D # {}
<1>1. /\ b2.rd = b.rd \ D /\ b2.wr = b.wr \ E /\ b2.len <= b.len
      /\ b2.rd # {} => b2.len = b.len /\ b2.kind = b.kind
      /\ b.len \in Nat /\ b2.len \in Nat
    BY DEF ClosedBy, Buffer, Numbers
<1>2. ReadDue(b2, v) => ReadDue(b, v) \/ b.wr \cap E # {}
  <2>1. b2.len > 0 => b.len > 0
    BY <1>1
  <2> QED BY <1>1, <2>1 DEF ReadDue
<1>3. ASSUME NEW n, WriteDue(b2, v, n), b.rd \cap D = {}
      PROVE  WriteDue(b, v, n)
  <2>1. b2.rd = b.rd
    BY <1>1, <1>3
  <2>2. CASE b2.rd = {}
    BY <2>1, <2>2 DEF WriteDue
  <2>3. CASE b2.rd # {}
    <3>1. WriteLen(b2, n) = WriteLen(b, n)
        BY <1>1, <2>3 DEF WriteLen, free_space
    <3> QED BY <1>1, <1>3, <2>3, <3>1 DEF WriteDue
  <2> QED BY <2>2, <2>3
<1> QED BY <1>2, <1>3

LEMMA ClosedStuck ==
    ASSUME NEW b \in Buffer, NEW b2 \in Buffer, NEW q, ClosedBy(b, b2, {q}, {q}),
           q \notin b.rd, q \notin b.wr, NEW r, NEW c, Stuck(b, r, c)
    PROVE  Stuck(b2, r, c)
<1>1. b2.rd = b.rd /\ b2.wr = b.wr
    BY DEF ClosedBy
<1>2. b.rd # {}
    BY DEF Stuck, Writable
<1>3. b2.len = b.len /\ b2.kind = b.kind
    BY <1>1, <1>2 DEF ClosedBy
<1> QED BY <1>1, <1>3 DEF Stuck, Readable, Writable, WriteLen, free_space

LEMMA ToldByDrain ==
    ASSUME NEW td, Drain(<<>>) \in Range(td), NEW wk
    PROVE  /\ \A p, w : Wake(p, w) \in Range(wk) => Coming(td, wk, p, w)
           /\ \A sch : wk # <<>> => Broad(td, wk, sch)
<1>1. Drain(<<>>).k = "drain"
    BY DEF Drain
<1> QED BY <1>1 DEF Coming, Broad

LEMMA CloseWakes ==
    ASSUME HostInv, RingInv, WakeInv, RingInv', todo = <<>>, UNCHANGED <<readers, writers, polls>>,
           \A t \in Threads : chan[t].st = "host" => chan'[t] = chan[t],
           NEW D, NEW E, \A p \in Pipes : ClosedBy(pipe[p], pipe'[p], D[p], E[p]),
           \A p \in Pipes : pipe[p].rd \cap D[p] # {} => Coming(todo', wakes', p, "writable"),
           \A p \in Pipes : pipe[p].wr \cap E[p] # {} => Coming(todo', wakes', p, "readable"),
           \/ Broad(todo', wakes', wakeScheduled')
           \/ /\ \A v \in Range(polls) : StuckIn(pipe', chan, v)
              /\ \A p \in Pipes : \A v \in Range(readers[p]) \cup Range(writers[p]) :
                    StuckIn(pipe', chan, v)
    PROVE  WakeInv'
<1>1. \A p \in Pipes :
        /\ \A v \in Range(readers[p]) : ~ ReadDue(pipe[p], v)
        /\ \A v \in Range(writers[p]) : ~ WriteDue(pipe[p], v, chan[v].call.n)
    BY AtRest
<1>2. \A p \in Pipes : pipe[p] \in Buffer /\ pipe'[p] \in Buffer
    BY DEF RingInv
<1>3. \A p \in Pipes : \A v \in Range(readers[p]) :
        ReadDue(pipe'[p], v) => Coming(todo', wakes', p, "readable")
  <2>1. ASSUME NEW p \in Pipes, NEW v \in Range(readers[p]), ReadDue(pipe'[p], v)
        PROVE  Coming(todo', wakes', p, "readable")
    <3>1. ReadDue(pipe[p], v) \/ pipe[p].wr \cap E[p] # {}
        BY <1>2, <2>1, ClosedDue
    <3> QED BY <1>1, <3>1
  <2> QED BY <2>1
<1>4. \A p \in Pipes : \A v \in Range(writers[p]) :
        WriteDue(pipe'[p], v, chan[v].call.n) => Coming(todo', wakes', p, "writable")
  <2>1. ASSUME NEW p \in Pipes, NEW v \in Range(writers[p]), WriteDue(pipe'[p], v, chan[v].call.n)
        PROVE  Coming(todo', wakes', p, "writable")
    <3>1. WriteDue(pipe[p], v, chan[v].call.n) \/ pipe[p].rd \cap D[p] # {}
        BY <1>2, <2>1, ClosedDue
    <3> QED BY <1>1, <3>1
  <2> QED BY <2>1
<1> QED BY <1>3, <1>4, RestMoves

LEMMA CloseOneWakes ==
    ASSUME HostInv, RingInv, WakeInv, NEW t \in Threads, NEW p \in Pipes,
           CloseRead(t, p) \/ CloseWrite(t, p)
    PROVE  WakeInv'
<1> DEFINE q == ProcOf[t]
           D == [x \in Pipes |-> IF x = p /\ CloseRead(t, p) THEN {q} ELSE {}]
           E == [x \in Pipes |-> IF x = p /\ ~ CloseRead(t, p) THEN {q} ELSE {}]
           w == IF CloseRead(t, p) THEN "writable" ELSE "readable"
<1>1. /\ todo = <<>> /\ chan[t].st = "guest" /\ UNCHANGED host
      /\ Immediate(t, <<Wake(p, w)>>)
    BY DEF CloseRead, CloseWrite, Immediate
<1>2. Wake(p, w) \in Event
    BY WakeType
<1>3. <<Wake(p, w)>> \in Seq(Event) /\ Range(<<Wake(p, w)>>) = {Wake(p, w)}
    BY <1>2, Singleton
<1>4. /\ Range(wakes') = Range(wakes) \cup {Wake(p, w)}
      /\ Range(todo') = {Drain(<<>>), Publish(t)} /\ HostInv'
      /\ \A v \in Threads : v # t => chan'[v] = chan[v]
    BY <1>1, <1>3, ImmediateHost
<1>5. Coming(todo', wakes', p, w)
    BY <1>4, ToldByDrain
<1>6. wakes' # <<>>
  <2>1. wakes' \in Seq(Event)
    BY <1>4 DEF HostInv
  <2> QED BY <1>4, <2>1, RangeIs
<1>7. Broad(todo', wakes', wakeScheduled')
    BY <1>4, <1>6, ToldByDrain
<1>8. \A x \in Pipes : ClosedBy(pipe[x], pipe[x], {}, {})
  <2>1. \A x \in Pipes : pipe[x].len \in Numbers
    BY DEF RingInv, Buffer
  <2> QED BY <2>1 DEF ClosedBy, Numbers
<1>9. /\ RingInv' /\ \A x \in Pipes : x # p => pipe'[x] = pipe[x]
      /\ ClosedBy(pipe[p], pipe'[p], D[p], E[p])
  <2>1. CASE CloseRead(t, p)
    <3>1. D[p] = {q} /\ E[p] = {}
        BY <2>1
    <3> HIDE DEF D, E
    <3> QED BY <2>1, <3>1, CloseReadRing
  <2>2. CASE ~ CloseRead(t, p)
    <3>1. D[p] = {} /\ E[p] = {q}
        BY <2>2
    <3> HIDE DEF D, E
    <3> QED BY <2>2, <3>1, CloseWriteRing
  <2> QED BY <2>1, <2>2
<1>10. \A x \in Pipes : x # p => D[x] = {} /\ E[x] = {}
    OBVIOUS
<1>11. (D[p] # {} => w = "writable") /\ (E[p] # {} => w = "readable")
    OBVIOUS
<1> HIDE DEF D, E, w
<1>12. \A x \in Pipes : ClosedBy(pipe[x], pipe'[x], D[x], E[x])
    BY <1>8, <1>9, <1>10
<1>13. \A x \in Pipes : pipe[x].rd \cap D[x] # {} => Coming(todo', wakes', x, "writable")
    BY <1>5, <1>10, <1>11
<1>14. \A x \in Pipes : pipe[x].wr \cap E[x] # {} => Coming(todo', wakes', x, "readable")
    BY <1>5, <1>10, <1>11
<1>15. \A v \in Threads : chan[v].st = "host" => chan'[v] = chan[v]
    BY <1>1, <1>4
<1>16. UNCHANGED <<readers, writers, polls>>
    BY <1>1 DEF host
<1> QED BY <1>1, <1>7, <1>9, <1>12, <1>13, <1>14, <1>15, <1>16, CloseWakes

(* All ends of q are closed, and its events drained. *)
LEMMA CloseAllWakes ==
    ASSUME HostInv, RingInv, WakeInv, NEW q, CloseAll(q), todo = <<>>, UNCHANGED host,
           Range(wakes') = Range(wakes) \cup Announced(pipe, q), wakes' \in Seq(Event),
           Drain(<<>>) \in Range(todo'),
           \A t \in Threads : chan[t].st = "host" => chan'[t] = chan[t]
    PROVE  WakeInv'
<1> DEFINE D == [x \in Pipes |-> {q}]
<1>1. RingInv' /\ \A p \in Pipes : ClosedBy(pipe[p], pipe'[p], D[p], D[p])
    BY CloseAllRing
<1>2. UNCHANGED <<readers, writers, polls, wakeScheduled>>
    BY DEF host
<1>3. \A p \in Pipes : pipe[p].rd \cap D[p] # {} => Coming(todo', wakes', p, "writable")
  <2>1. \A p \in Pipes : q \in pipe[p].rd => Wake(p, "writable") \in Range(wakes')
    BY DEF Announced
  <2> QED BY <2>1, ToldByDrain
<1>4. \A p \in Pipes : pipe[p].wr \cap D[p] # {} => Coming(todo', wakes', p, "readable")
  <2>1. \A p \in Pipes : q \in pipe[p].wr => Wake(p, "readable") \in Range(wakes')
    BY DEF Announced
  <2> QED BY <2>1, ToldByDrain
<1>5. \/ Broad(todo', wakes', wakeScheduled')
      \/ /\ \A v \in Range(polls) : StuckIn(pipe', chan, v)
         /\ \A p \in Pipes : \A v \in Range(readers[p]) \cup Range(writers[p]) :
                StuckIn(pipe', chan, v)
  <2>1. CASE wakes' # <<>> \/ wakeScheduled
    BY <1>2, <2>1, ToldByDrain DEF Broad
  <2>2. CASE wakes' = <<>> /\ ~ wakeScheduled
    <3>1. Announced(pipe, q) = {}
        BY <2>2, RangeIs
    <3>2. \A p \in Pipes : q \notin pipe[p].rd /\ q \notin pipe[p].wr
        BY <3>1 DEF Announced
    <3>3. \A p \in Pipes : pipe[p] \in Buffer /\ pipe'[p] \in Buffer
        BY <1>1 DEF RingInv
    <3>4. \A p \in Pipes : ClosedBy(pipe[p], pipe'[p], {q}, {q})
        BY <1>1
    <3>5. ASSUME NEW v, chan[v].call \in CallSet, StuckIn(pipe, chan, v)
          PROVE  StuckIn(pipe', chan, v)
      <4>1. chan[v].call.p \in Pipes
        BY <3>5, CallTypes
      <4> DEFINE c == chan[v].call
                 b == pipe[c.p]
                 b2 == pipe'[c.p]
      <4>2. /\ b \in Buffer /\ b2 \in Buffer /\ ClosedBy(b, b2, {q}, {q})
            /\ q \notin b.rd /\ q \notin b.wr
        BY <3>2, <3>3, <3>4, <4>1
      <4>3. Stuck(b, ProcOf[v], c)
        BY <3>5 DEF StuckIn
      <4> HIDE DEF b, b2
      <4>4. Stuck(b2, ProcOf[v], c)
        BY <4>2, <4>3, ClosedStuck
      <4> QED BY <4>4 DEF b2, StuckIn
    <3>6. /\ \A v \in Range(polls) : StuckIn(pipe, chan, v)
          /\ \A p \in Pipes : \A v \in Range(readers[p]) \cup Range(writers[p]) :
                StuckIn(pipe, chan, v)
        BY <2>2, AtRest
    <3> QED BY <3>5, <3>6, ParkedIs
  <2> QED BY <2>1, <2>2
<1> HIDE DEF D
<1> QED BY <1>1, <1>2, <1>3, <1>4, <1>5, CloseWakes

LEMMA PipeWakes ==
    ASSUME HostInv, RingInv, WakeInv, NEW t \in Threads, NEW p \in Pipes, NEW kind \in Kinds,
           sys_pipe(t, p, kind)
    PROVE  WakeInv'
<1>1. /\ pipe[p] = Freed /\ Immediate(t, <<>>) /\ UNCHANGED host
    BY DEF sys_pipe
<1>2. todo = <<>> /\ chan[t].st = "guest"
    BY <1>1 DEF Immediate
<1>3. <<>> \in Seq(Event)
    OBVIOUS
<1>4. \A v \in Threads : v # t => chan'[v] = chan[v]
    BY <1>1, <1>3, ImmediateHost
<1>5. \A x \in Pipes : x # p => pipe'[x] = pipe[x]
    BY PipeRing
<1>6. /\ \A x \in Pipes :
            /\ \A v \in Range(readers[x]) : ~ ReadDue(pipe[x], v)
            /\ \A v \in Range(writers[x]) : ~ WriteDue(pipe[x], v, chan[v].call.n)
      /\ ~ wakeScheduled =>
            /\ \A v \in Range(polls) : StuckIn(pipe, chan, v)
            /\ \A x \in Pipes : \A v \in Range(readers[x]) \cup Range(writers[x]) :
                    StuckIn(pipe, chan, v)
    BY <1>2, AtRest
(* Nobody waits at an index that is free. *)
<1>7. Range(readers[p]) = {} /\ Range(writers[p]) = {}
  <2>1. pipe[p].rd = {} /\ pipe[p].wr = {}
    BY <1>1, FreedIs
  <2> QED BY <1>6, <2>1 DEF ReadDue, WriteDue
<1>8. \A x \in Pipes : \A v \in Range(readers[x]) :
        ReadDue(pipe'[x], v) => Coming(todo', wakes', x, "readable")
    BY <1>5, <1>6, <1>7
<1>9. \A x \in Pipes : \A v \in Range(writers[x]) :
        WriteDue(pipe'[x], v, chan[v].call.n) => Coming(todo', wakes', x, "writable")
    BY <1>5, <1>6, <1>7
<1>10. \/ Broad(todo', wakes', wakeScheduled')
       \/ /\ \A v \in Range(polls) : StuckIn(pipe', chan, v)
          /\ \A x \in Pipes : \A v \in Range(readers[x]) \cup Range(writers[x]) :
                StuckIn(pipe', chan, v)
  <2>1. CASE wakeScheduled
    BY <1>1, <2>1 DEF Broad, host
  <2>2. CASE ~ wakeScheduled
    <3>1. ASSUME NEW v, chan[v].call \in CallSet, StuckIn(pipe, chan, v)
          PROVE  StuckIn(pipe', chan, v)
      <4>1. chan[v].call.p \in Pipes
        BY <3>1, CallTypes
      <4>2. chan[v].call.p # p
        BY <1>1, <3>1, FreedIs DEF StuckIn, Stuck
      <4> QED BY <1>5, <3>1, <4>1, <4>2 DEF StuckIn
    <3> QED BY <1>6, <2>2, <3>1, ParkedIs
  <2> QED BY <2>1, <2>2
<1>11. \A v \in Threads : chan[v].st = "host" => chan'[v] = chan[v]
    BY <1>2, <1>4
<1>12. UNCHANGED <<readers, writers, polls>>
    BY <1>1 DEF host
<1> QED BY <1>2, <1>8, <1>9, <1>10, <1>11, <1>12, RestMoves

LEMMA InheritedIs ==
    ASSUME NEW b, NEW b2, NEW r, NEW q, Inherits(b, b2, r, q), NEW v, ProcOf[v] # q
    PROVE  /\ ReadDue(b2, v) => ReadDue(b, v)
           /\ \A n : WriteDue(b2, v, n) => WriteDue(b, v, n)
           /\ \A c : Stuck(b, ProcOf[v], c) => Stuck(b2, ProcOf[v], c)
<1>1. /\ b2.rd = {} <=> b.rd = {}
      /\ b2.wr = {} <=> b.wr = {}
      /\ ProcOf[v] \in b2.rd <=> ProcOf[v] \in b.rd
      /\ ProcOf[v] \in b2.wr <=> ProcOf[v] \in b.wr
      /\ b2.len = b.len /\ b2.kind = b.kind
    BY DEF Inherits
<1>2. \A n : WriteLen(b2, n) = WriteLen(b, n)
    BY <1>1 DEF WriteLen, free_space
<1> QED BY <1>1, <1>2 DEF ReadDue, WriteDue, Stuck, Readable, Writable, free_space

LEMMA ForkWakes ==
    ASSUME HostInv, RingInv, WakeInv, NEW t \in Threads, NEW u \in Threads, Fork(t, u)
    PROVE  WakeInv'
<1> DEFINE q == ProcOf[u]
<1>1. /\ todo = <<>> /\ chan[t].st = "guest" /\ chan[u].st = "none"
      /\ \A v \in Threads : ProcOf[v] = q => chan[v].st = "none"
      /\ chan' = [chan EXCEPT ![t] = [st |-> "forking", call |-> NoCall],
                              ![u] = [st |-> "launching", call |-> NoCall]]
      /\ UNCHANGED <<readers, writers, polls, wakeScheduled>>
    BY DEF Fork, host
<1>2. \A v \in Threads : chan[v].st = "host" => chan'[v] = chan[v]
  <2>1. ChansOK(chan)
    BY HostFacts
  <2> QED BY <1>1, <2>1 DEF ChansOK
<1>3. \A p \in Pipes : Inherits(pipe[p], pipe'[p], ProcOf[t], q)
    BY ForkRing
<1> HIDE DEF q
(* No thread of the child waits. *)
<1>4. /\ \A p \in Pipes : \A v \in Range(readers[p]) \cup Range(writers[p]) :
            ProcOf[v] # q /\ chan[v].call \in CallSet
      /\ \A v \in Range(polls) : ProcOf[v] # q /\ chan[v].call \in CallSet
    BY <1>1, ParkedIs
<1>5. /\ \A p \in Pipes :
            /\ \A v \in Range(readers[p]) : ~ ReadDue(pipe[p], v)
            /\ \A v \in Range(writers[p]) : ~ WriteDue(pipe[p], v, chan[v].call.n)
      /\ ~ wakeScheduled =>
            /\ \A v \in Range(polls) : StuckIn(pipe, chan, v)
            /\ \A p \in Pipes : \A v \in Range(readers[p]) \cup Range(writers[p]) :
                    StuckIn(pipe, chan, v)
    BY <1>1, AtRest
<1>6. \A p \in Pipes : \A v \in Range(readers[p]) :
        ReadDue(pipe'[p], v) => Coming(todo', wakes', p, "readable")
    BY <1>3, <1>4, <1>5, InheritedIs
<1>7. \A p \in Pipes : \A v \in Range(writers[p]) :
        WriteDue(pipe'[p], v, chan[v].call.n) => Coming(todo', wakes', p, "writable")
    BY <1>3, <1>4, <1>5, InheritedIs
<1>8. \/ Broad(todo', wakes', wakeScheduled')
      \/ /\ \A v \in Range(polls) : StuckIn(pipe', chan, v)
         /\ \A p \in Pipes : \A v \in Range(readers[p]) \cup Range(writers[p]) :
                StuckIn(pipe', chan, v)
  <2>1. CASE wakeScheduled
    BY <1>1, <2>1 DEF Broad
  <2>2. CASE ~ wakeScheduled
    <3>1. ASSUME NEW v, ProcOf[v] # q, chan[v].call \in CallSet, StuckIn(pipe, chan, v)
          PROVE  StuckIn(pipe', chan, v)
      <4> DEFINE c == chan[v].call
      <4>1. c.p \in Pipes
        BY <3>1, CallTypes
      <4>2. Inherits(pipe[c.p], pipe'[c.p], ProcOf[t], q)
        BY <1>3, <4>1
      <4>3. Stuck(pipe[c.p], ProcOf[v], c)
        BY <3>1 DEF StuckIn
      <4>4. Stuck(pipe'[c.p], ProcOf[v], c)
        BY <3>1, <4>2, <4>3, InheritedIs
      <4> QED BY <4>4 DEF StuckIn
    <3> QED BY <1>4, <1>5, <2>2, <3>1
  <2> QED BY <2>1, <2>2
<1> QED BY <1>1, <1>2, <1>6, <1>7, <1>8, RestMoves

LEMMA ExitWakes ==
    ASSUME HostInv, RingInv, WakeInv, NEW t \in Threads, Exit(t)
    PROVE  WakeInv'
<1>1. /\ HostInv' /\ Range(wakes') = Range(wakes) \cup Announced(pipe, ProcOf[t])
      /\ Drain(<<>>) \in Range(todo')
    BY ExitHost
<1>2. /\ todo = <<>> /\ chan[t].st = "guest" /\ CloseAll(ProcOf[t]) /\ UNCHANGED host
      /\ chan' = [chan EXCEPT ![t] = [st |-> "none", call |-> NoCall]]
    BY DEF Exit
<1>3. ChansOK(chan)
    BY HostFacts
<1>4. \A v \in Threads : chan[v].st = "host" => chan'[v] = chan[v]
    BY <1>2, <1>3 DEF ChansOK
<1>5. wakes' \in Seq(Event)
    BY <1>1 DEF HostInv
<1> QED BY <1>1, <1>2, <1>4, <1>5, CloseAllWakes

LEMMA RollbackWakes ==
    ASSUME HostInv, RingInv, WakeInv, NEW t \in Threads, NEW u \in Threads, rollbackFork(t, u)
    PROVE  WakeInv'
<1>1. /\ HostInv' /\ Range(wakes') = Range(wakes) \cup Announced(pipe, ProcOf[u])
      /\ Drain(<<>>) \in Range(todo')
    BY RollbackHost
<1>2. /\ todo = <<>> /\ chan[t].st = "forking" /\ chan[u].st = "launching"
      /\ CloseAll(ProcOf[u]) /\ UNCHANGED host
      /\ chan' = [chan EXCEPT ![t].st = "host", ![u].st = "none"]
    BY DEF rollbackFork
<1>3. ChansOK(chan)
    BY HostFacts
<1>4. \A v \in Threads : chan[v].st = "host" => chan'[v] = chan[v]
    BY <1>2, <1>3 DEF ChansOK
<1>5. wakes' \in Seq(Event)
    BY <1>1 DEF HostInv
<1> QED BY <1>1, <1>2, <1>4, <1>5, CloseAllWakes

-----------------------------------------------------------------------------
LEMMA HostStepWakes ==
    ASSUME HostInv, RingInv, WakeInv, HostStep
    PROVE  WakeInv'
<1> DEFINE f == Head(todo)
<1>1. todo # <<>> /\ f \in Frames
    BY TailIs DEF HostStep, HostInv
<1>2. CASE f.k = "run" /\ HandleSyscall(f.t, Tail(todo))
  <2>1. f = Run(f.t) /\ f.t \in Threads
    BY <1>1, <1>2, FrameCases
  <2>2. CASE /\ Blocks(f.t, chan[f.t].call) /\ Park(f.t, chan[f.t].call) /\ todo' = Tail(todo)
             /\ UNCHANGED <<kernel, chan, wakeScheduled>>
    BY <1>1, <2>1, <2>2, RunBlockedWakes
  <2>3. CASE /\ KernelCall(f.t, chan[f.t].call) /\ polls' = Drop(polls, f.t)
             /\ todo' = Completion(f.t) \o Tail(todo)
             /\ UNCHANGED <<chan, readers, writers, wakeScheduled>>
    BY <1>1, <2>1, <2>3, RunDoneWakes
  <2> QED BY <1>2, <2>2, <2>3 DEF HandleSyscall
<1>3. CASE f.k = "drain" /\ TakeBatch(Tail(todo))
    BY <1>1, <1>3, DrainWakes
<1>4. CASE f.k = "process" /\ ProcessEvent(f.e, Tail(todo))
    BY <1>1, <1>4, ProcessWakes
<1>5. CASE f.k = "schedule" /\ ScheduleBroad(Tail(todo))
    BY <1>1, <1>5, ScheduleWakes
<1>6. CASE f.k \in {"readers", "writers"} /\ WakeAll(f.k, Tail(todo))
    BY <1>1, <1>6, WakeAllWakes
<1>7. CASE f.k = "publish" /\ PublishAnswer(f.t, Tail(todo))
    BY <1>1, <1>7, PublishWakes
<1>8. CASE f.k = "cancel" /\ CancelParked(f.t, Tail(todo))
    BY <1>1, <1>8, CancelWakes
<1> QED BY <1>2, <1>3, <1>4, <1>5, <1>6, <1>7, <1>8 DEF HostStep

LEMMA WakesNext ==
    ASSUME HostInv, RingInv, WakeInv, Next
    PROVE  WakeInv'
<1>1. CASE HostStep
    BY <1>1, HostStepWakes
<1>2. CASE BroadWake
    BY <1>2, BroadWakeWakes
<1>3. ASSUME NEW t \in Threads, PollTimer(t) \/ PollDeadline(t) \/ SocketTimeout(t)
      PROVE  WakeInv'
    BY <1>3, TimerWakes
<1>4. ASSUME NEW t \in Threads,
             \/ Listen(t) \/ \E c \in CallSet : Submit(t, c)
             \/ \E u \in Threads : Launched(t, u) \/ handleThreadCancel(t, u)
      PROVE  WakeInv'
    BY <1>4, HandingWakes
<1>5. ASSUME NEW t \in Threads, Exit(t) PROVE WakeInv'
    BY <1>5, ExitWakes
<1>6. ASSUME NEW t \in Threads, NEW p \in Pipes, CloseRead(t, p) \/ CloseWrite(t, p)
      PROVE  WakeInv'
    BY <1>6, CloseOneWakes
<1>7. ASSUME NEW t \in Threads, NEW p \in Pipes, NEW kind \in Kinds, sys_pipe(t, p, kind)
      PROVE  WakeInv'
    BY <1>7, PipeWakes
<1>8. ASSUME NEW t \in Threads, NEW u \in Threads, Fork(t, u) PROVE WakeInv'
    BY <1>8, ForkWakes
<1>9. ASSUME NEW t \in Threads, NEW u \in Threads, rollbackFork(t, u) PROVE WakeInv'
    BY <1>9, RollbackWakes
<1> QED BY <1>1, <1>2, <1>3, <1>4, <1>5, <1>6, <1>7, <1>8, <1>9 DEF Next

LEMMA WakesInitially == Init => WakeInv
<1> SUFFICES ASSUME Init PROVE WakeInv
    OBVIOUS
<1>1. readers = [p \in Pipes |-> <<>>] /\ writers = [p \in Pipes |-> <<>>] /\ polls = <<>>
    BY DEF Init
<1>2. Range(<<>>) = {}
    BY EmptyList, LineList
<1>3. Range(polls) = {} /\ \A p \in Pipes : Sets(readers)[p] = {} /\ Sets(writers)[p] = {}
    BY <1>1, <1>2 DEF Sets
<1> QED BY <1>3 DEF WakeInv, ComingInv, BroadInv, ComingOK, BroadOK

LEMMA WakesStay ==
    ASSUME WakeInv, UNCHANGED vars
    PROVE  WakeInv'
<1>1. UNCHANGED <<pipe, wakes, chan, readers, writers, polls, wakeScheduled, todo>>
    BY DEF vars, kernel, host
<1> QED BY <1>1 DEF WakeInv, ComingInv, BroadInv, Sets

LEMMA WakesReach == HostInv /\ RingInv /\ WakeInv => NoMissedWake
<1> SUFFICES ASSUME HostInv, RingInv, WakeInv PROVE NoMissedWake
    OBVIOUS
<1>1. ASSUME todo = <<>>, NEW p \in Pipes, NEW t \in Range(readers[p]) \cup Range(writers[p]),
             FdOpen(t, chan[t].call)
      PROVE  Blocks(t, chan[t].call)
  <2> DEFINE c == chan[t].call
  <2>1. CASE t \in Range(readers[p])
    <3>1. c.op = "read" /\ c.p = p /\ c \in CallSet
        BY <2>1, ParkedIs
    <3>2. ~ ReadDue(pipe[p], t)
        BY <1>1, <2>1, AtRest
    <3>3. ~ Readable(pipe[p])
        BY <1>1, <3>1, <3>2 DEF ReadDue, Readable, FdOpen
    <3> QED BY <1>1, <3>1, <3>3 DEF Blocks
  <2>2. CASE t \in Range(writers[p])
    <3>1. c.op = "write" /\ c.p = p /\ c \in CallSet
        BY <2>2, ParkedIs
    <3>2. ~ WriteDue(pipe[p], t, c.n)
        BY <1>1, <2>2, AtRest
    <3>3. pipe[p].rd # {} /\ ~ (WriteLen(pipe[p], c.n) > 0)
        BY <1>1, <3>1, <3>2 DEF WriteDue, FdOpen
    <3>4. WriteLen(pipe[p], c.n) \in Numbers
      <4>1. pipe[p] \in Buffer /\ c.n \in Nat \ {0}
        BY <3>1, CallTypes, PipesConstants DEF RingInv
      <4> QED BY <4>1, WriteLenIs
    <3>5. WriteLen(pipe[p], c.n) = 0
        BY <3>3, <3>4 DEF Numbers
    <3> QED BY <1>1, <3>1, <3>3, <3>5 DEF Blocks
  <2> QED BY <2>1, <2>2
<1>2. ParkedMeansBlocked
    BY <1>1 DEF ParkedMeansBlocked
<1>3. BroadWakeComes
  <2> SUFFICES ASSUME todo = <<>>, ~ wakeScheduled,
                      NEW t \in Range(polls)
                          \cup UNION {Range(readers[p]) \cup Range(writers[p]) : p \in Pipes}
               PROVE  Blocks(t, chan[t].call)
    BY DEF BroadWakeComes
  <2>1. StuckIn(pipe, chan, t)
    BY AtRest
  <2>2. chan[t].call \in CallSet
    BY ParkedIs
  <2> QED BY <2>1, <2>2, BlocksIs DEF StuckIn
<1> QED BY <1>2, <1>3 DEF NoMissedWake

-----------------------------------------------------------------------------
LEMMA IInvHolds == UntimedWrites => (Spec => []IInv)
<1> SUFFICES ASSUME UntimedWrites PROVE Spec => []IInv
    OBVIOUS
<1>1. Init => IInv
    BY HostInitially, RingInitially, WakesInitially DEF IInv
<1>2. IInv /\ [Next]_vars => IInv'
  <2>1. CASE IInv /\ Next
    BY <2>1, HostNext, RingNext, WakesNext DEF IInv
  <2>2. CASE IInv /\ UNCHANGED vars
    BY <2>2, HostStays, RingStays, WakesStay DEF IInv, vars, kernel
  <2> QED BY <2>1, <2>2
<1> QED BY <1>1, <1>2, PTL DEF Spec

(* handleSyscall, drainAndProcessWakeupEvents, wakeAllBlockedRetries,        *)
(* handleThreadCancel and the timers of the host (kernel-worker.ts): in any  *)
(* interleaving a call is run or answered only while its guest waits for it, *)
(* when no write carries a time-out (with one, it fails: send_timeout).      *)
THEOREM ServedIsUnanswered == UntimedWrites => (Spec => []RunOnlyUnanswered)
<1>1. IInv => RunOnlyUnanswered
    BY ServedIsHeld DEF IInv
<1> QED BY <1>1, IInvHolds, PTL

(* PipeBuffer::write, read and the closing of ends (pipe.rs): whatever the   *)
(* capacity, the lengths and the order of calls, the ring holds exactly the  *)
(* bytes written and not yet read, in order, and is never overfull.          *)
THEOREM RingIsAQueue == UntimedWrites => (Spec => []RingSound)
<1>1. IInv => RingSound
    BY RingIsSound DEF IInv
<1> QED BY <1>1, IInvHolds, PTL

(* The wake-ups of pipe.rs and wakeup.rs and the host that drains them       *)
(* (drainAndProcessWakeupEvents, scheduleWakeBlockedRetries): when the host  *)
(* is at rest no parked call that could proceed has been forgotten, for any  *)
(* number of pipes and threads, any batch size and any order of calls,       *)
(* closes, forks, exits, timers and cancellations.                           *)
THEOREM NoWakeIsMissed == UntimedWrites => (Spec => []NoMissedWake)
<1>1. IInv => NoMissedWake
    BY WakesReach DEF IInv
<1> QED BY <1>1, IInvHolds, PTL

=============================================================================
