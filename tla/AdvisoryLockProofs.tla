------------------------ MODULE AdvisoryLockProofs ------------------------
(***************************************************************************)
(* Proofs about LockManager and AdvisoryLock, for any files, owners, offset *)
(* width and table size: what set_lock does to a normalized record table,   *)
(* the invariants, that no weakening goes unannounced, and that the record  *)
(* table implements the byte map of LockMap.                                *)
(***************************************************************************)
EXTENDS AdvisoryLock, FiniteSetTheorems, TLAPS

(* The operators of LockManager *)
(* A range that LockRange::normalize accepts is a non-empty range of         *)
(* non-negative offsets.                                                     *)
LEMMA NormalizeInRange ==
    ASSUME NEW start \in Int, NEW len \in Int, start <= MaxOffset,
           NormalizeOk(start, len)
    PROVE  Normalize(start, len) \in Ranges
<1>1. start >= 0 /\ start + len >= 0 /\ start + len <= MaxOffset
  BY LockConstants DEF NormalizeOk
<1>2. CASE len = 0
  BY <1>1, <1>2, LockConstants DEF Normalize, Ranges, Eof
<1>3. CASE len > 0
  BY <1>1, <1>3, LockConstants DEF Normalize, Ranges, Eof
<1>4. CASE len < 0
  BY <1>1, <1>4, LockConstants DEF Normalize, Ranges, Eof
<1> QED BY <1>2, <1>3, <1>4

LEMMA WholeFileInRanges == WholeFile \in Ranges
  BY LockConstants DEF WholeFile, Ranges, Eof

(* The slice of one owner's records on one file of a normalized table. *)
OwnSlice(own, file, owner) ==
    /\ own \subseteq Records
    /\ \A r \in own : r.file = file /\ r.owner = owner
    /\ Normalized(own)

(* The merged range of set_lock exists, and reaches beyond the request only  *)
(* as far as one record of the requested type on each side does.             *)
LEMMA MergedRangeShape ==
    ASSUME NEW own, NEW file, NEW owner, OwnSlice(own, file, owner),
           NEW type, NEW req \in Ranges
    PROVE  LET m == MergedRange(own, type, req) IN
           /\ m \in Ranges
           /\ Coalesced(own, type, req, m)
           /\ \/ m.start = req.start
              \/ \E l \in own : /\ l.type = type /\ l.start = m.start
                                /\ l.start < req.start /\ l.end >= req.start
           /\ \/ m.end = req.end
              \/ \E r \in own : /\ r.type = type /\ r.end = m.end
                                /\ r.end > req.end /\ r.start <= req.end
<1> DEFINE Shape(m) ==
       /\ m \in Ranges
       /\ Coalesced(own, type, req, m)
       /\ \/ m.start = req.start
          \/ \E l \in own : /\ l.type = type /\ l.start = m.start
                            /\ l.start < req.start /\ l.end >= req.start
       /\ \/ m.end = req.end
          \/ \E r \in own : /\ r.type = type /\ r.end = m.end
                            /\ r.end > req.end /\ r.start <= req.end
    Left(l)  == l.type = type /\ l.start < req.start /\ l.end >= req.start
    Right(r) == r.type = type /\ r.end > req.end /\ r.start <= req.end
<1>0. /\ MaxOffset \in Nat
      /\ req.start \in Nat /\ req.end \in Nat /\ req.start < req.end
      /\ req.start <= MaxOffset /\ req.end <= MaxOffset + 1
  BY LockConstants DEF Ranges, Eof
<1>1. \A r \in own : /\ r.start \in Nat /\ r.end \in Nat /\ r.start < r.end
                     /\ r.start <= MaxOffset /\ r.end <= MaxOffset + 1
  BY LockConstants DEF OwnSlice, Records, Eof
<1>2. \A r, s \in own : r # s /\ r.type = s.type => r.end < s.start \/ s.end < r.start
  BY <1>1 DEF OwnSlice, Normalized, TouchesOrOverlaps
<1>3. PICK lo \in Nat :
         \/ lo = req.start /\ ~ \E l \in own : Left(l)
         \/ \E l \in own : Left(l) /\ l.start = lo
  BY <1>0, <1>1
<1>4. PICK hi \in Nat :
         \/ hi = req.end /\ ~ \E r \in own : Right(r)
         \/ \E r \in own : Right(r) /\ r.end = hi
  BY <1>0, <1>1
<1> DEFINE w == [start |-> lo, end |-> hi]
<1>5. w \in Ranges /\ lo <= req.start /\ req.end <= hi
  BY <1>0, <1>1, <1>3, <1>4 DEF Ranges, Eof
<1>6. ASSUME NEW r \in own, r.type = type, TouchesOrOverlaps(r, w)
      PROVE  Contains(w, r)
  <2>1. r.start <= hi /\ lo <= r.end
    BY <1>6, <1>5 DEF TouchesOrOverlaps
  <2>2. lo <= r.start
    <3>1. CASE lo = req.start /\ ~ \E l \in own : Left(l)
      BY <3>1, <2>1, <1>0, <1>1, <1>6
    <3>2. CASE \E l \in own : Left(l) /\ l.start = lo
      BY <3>2, <2>1, <1>0, <1>1, <1>2, <1>6
    <3> QED BY <3>1, <3>2, <1>3
  <2>3. r.end <= hi
    <3>1. CASE hi = req.end /\ ~ \E s \in own : Right(s)
      BY <3>1, <2>1, <1>0, <1>1, <1>6
    <3>2. CASE \E s \in own : Right(s) /\ s.end = hi
      BY <3>2, <2>1, <1>0, <1>1, <1>2, <1>6
    <3> QED BY <3>1, <3>2, <1>4
  <2> QED BY <2>2, <2>3 DEF Contains
<1>7. Coalesced(own, type, req, w)
  BY <1>5, <1>6 DEF Coalesced, Contains
<1>8. ASSUME NEW n \in Ranges, Coalesced(own, type, req, n)
      PROVE  Contains(n, w)
  <2>1. n.start \in Nat /\ n.end \in Nat /\ n.start <= req.start /\ req.end <= n.end
    BY <1>8, LockConstants DEF Coalesced, Contains, Ranges, Eof
  <2>2. \A r \in own : r.type = type /\ r.start <= n.end /\ n.start <= r.end
                          => n.start <= r.start /\ r.end <= n.end
    BY <1>8 DEF Coalesced, Contains, TouchesOrOverlaps
  <2>3. n.start <= lo
    BY <2>1, <2>2, <1>0, <1>1, <1>3
  <2>4. hi <= n.end
    BY <2>1, <2>2, <1>0, <1>1, <1>4
  <2> QED BY <2>3, <2>4 DEF Contains
<1> DEFINE Least(m) == /\ Coalesced(own, type, req, m)
                       /\ \A n \in Ranges : Coalesced(own, type, req, n) => Contains(n, m)
<1>9. Least(w)
  BY <1>7, <1>8
<1>10. \A m \in Ranges : Least(m) => m = w
  <2> SUFFICES ASSUME NEW m \in Ranges, Least(m) PROVE m = w
    OBVIOUS
  <2>1. Contains(w, m) /\ Contains(m, w)
    BY <1>5, <1>9
  <2>2. m.start = lo /\ m.end = hi
    BY <2>1, <1>5, LockConstants DEF Contains, Ranges, Eof
  <2> QED BY <2>2 DEF Ranges
<1>11. MergedRange(own, type, req) = w
  BY <1>5, <1>9, <1>10 DEF MergedRange
<1>12. Shape(w)
  <2>1. w.start = req.start \/ \E l \in own : Left(l) /\ l.start = w.start
    BY <1>3
  <2>2. w.end = req.end \/ \E r \in own : Right(r) /\ r.end = w.end
    BY <1>4
  <2> QED BY <2>1, <2>2, <1>5, <1>7
<1> QED BY <1>11, <1>12

(* What an accepted request leaves of the owner's records: each is an old    *)
(* record clear of the request, or a part of an old record of another type   *)
(* on one side of the request, or the merged record.                         *)
LEMMA AppliedPieces ==
    ASSUME NEW recs, NEW file, NEW owner, NEW type, NEW req, NEW p,
           p \in Applied(recs, file, owner, type, req)
    PROVE  LET own == Own(recs, file, owner)
               m == MergedRange(own, type, req) IN
           \/ p \in recs /\ p \notin own
           \/ /\ p \in own /\ ~ Overlaps(p, req)
              /\ p.type = type => ~ TouchesOrOverlaps(p, m)
           \/ \E s \in own : /\ Overlaps(s, req) /\ s.start < req.start /\ s.type # type
                             /\ p = [s EXCEPT !.end = req.start]
           \/ \E s \in own : /\ Overlaps(s, req) /\ req.end < s.end /\ s.type # type
                             /\ p = [s EXCEPT !.start = req.end]
           \/ /\ type # "Unlock"
              /\ p = [file |-> file, owner |-> owner, type |-> type,
                      start |-> m.start, end |-> m.end]
  BY DEF Applied, Removed, Pieces, LeftFragments, RightFragments, Replacement, Own

(* The request of an owner that set_lock does not refuse. *)
Request(recs, file, owner, type, req) ==
    /\ file \in Files /\ owner \in Owners /\ req \in Ranges
    /\ type \in LockTypes \cup {"Unlock"}
    /\ type # "Unlock" => ~ Blocked(recs, file, owner, type, req)

Table(recs) == recs \subseteq Records /\ Normalized(recs)

LEMMA OwnIsSlice ==
    ASSUME NEW recs, Table(recs), NEW file, NEW owner
    PROVE  OwnSlice(Own(recs, file, owner), file, owner)
  BY DEF Table, OwnSlice, Own, Normalized

(* Every record of the new table that is not an old one is cut from an old   *)
(* record of the owner, or is the merged record; fields of each case.        *)
LEMMA AppliedCases ==
    ASSUME NEW recs, Table(recs), NEW file, NEW owner, NEW type, NEW req,
           Request(recs, file, owner, type, req),
           NEW p \in Applied(recs, file, owner, type, req)
    PROVE  LET own == Own(recs, file, owner)
               m == MergedRange(own, type, req) IN
           \/ p \in recs /\ ~ (p.file = file /\ p.owner = owner)
           \/ /\ p \in own /\ (p.end <= req.start \/ req.end <= p.start)
              /\ p.type = type => p.end < m.start \/ m.end < p.start
           \/ \E s \in own : /\ s.start < req.start /\ req.start < s.end /\ s.type # type
                             /\ p = [file |-> file, owner |-> owner, type |-> s.type,
                                     start |-> s.start, end |-> req.start]
           \/ \E s \in own : /\ s.start < req.end /\ req.end < s.end /\ s.type # type
                             /\ p = [file |-> file, owner |-> owner, type |-> s.type,
                                     start |-> req.end, end |-> s.end]
           \/ /\ type # "Unlock"
              /\ p = [file |-> file, owner |-> owner, type |-> type,
                      start |-> m.start, end |-> m.end]
<1> DEFINE own == Own(recs, file, owner)
           m == MergedRange(own, type, req)
<1>1. \A s \in own : /\ s \in recs /\ s \in Records /\ s.file = file /\ s.owner = owner
                     /\ s.start \in Int /\ s.end \in Int
  BY LockConstants DEF Own, Table, Records, Eof
<1>2. req.start \in Int /\ req.end \in Int /\ req.start < req.end
  BY LockConstants DEF Request, Ranges, Eof
<1>3. m \in Ranges
  BY OwnIsSlice, MergedRangeShape DEF Request
<1>4. m.start \in Int /\ m.end \in Int
  BY <1>3, LockConstants DEF Ranges, Eof
<1>5. CASE p \in recs /\ p \notin own
  BY <1>5 DEF Own
<1>6. CASE p \in own /\ ~ Overlaps(p, req) /\ (p.type = type => ~ TouchesOrOverlaps(p, m))
  BY <1>1, <1>2, <1>4, <1>6 DEF Overlaps, TouchesOrOverlaps
<1>7. ASSUME NEW s \in own, Overlaps(s, req), s.start < req.start, s.type # type,
             p = [s EXCEPT !.end = req.start]
      PROVE  /\ s.start < req.start /\ req.start < s.end
             /\ p = [file |-> file, owner |-> owner, type |-> s.type,
                     start |-> s.start, end |-> req.start]
  BY <1>1, <1>2, <1>7 DEF Overlaps, Records
<1>8. ASSUME NEW s \in own, Overlaps(s, req), req.end < s.end, s.type # type,
             p = [s EXCEPT !.start = req.end]
      PROVE  /\ s.start < req.end /\ req.end < s.end
             /\ p = [file |-> file, owner |-> owner, type |-> s.type,
                     start |-> req.end, end |-> s.end]
  BY <1>1, <1>2, <1>8 DEF Overlaps, Records
<1> HIDE DEF own, m
<1>9. \/ p \in recs /\ p \notin own
      \/ /\ p \in own /\ ~ Overlaps(p, req)
         /\ p.type = type => ~ TouchesOrOverlaps(p, m)
      \/ \E s \in own : /\ Overlaps(s, req) /\ s.start < req.start /\ s.type # type
                        /\ p = [s EXCEPT !.end = req.start]
      \/ \E s \in own : /\ Overlaps(s, req) /\ req.end < s.end /\ s.type # type
                        /\ p = [s EXCEPT !.start = req.end]
      \/ /\ type # "Unlock"
         /\ p = [file |-> file, owner |-> owner, type |-> type,
                 start |-> m.start, end |-> m.end]
  BY AppliedPieces DEF own, m
<1> QED BY <1>5, <1>6, <1>7, <1>8, <1>9 DEF own, m

(* An accepted request keeps the table well formed and normalized: the       *)
(* merged record, the fragments and the records left alone neither overlap   *)
(* nor, when of one type, touch.                                             *)
LEMMA AppliedTable ==
    ASSUME NEW recs, Table(recs), NEW file, NEW owner, NEW type, NEW req,
           Request(recs, file, owner, type, req)
    PROVE  Table(Applied(recs, file, owner, type, req))
<1> DEFINE own == Own(recs, file, owner)
           m == MergedRange(own, type, req)
           new == Applied(recs, file, owner, type, req)
           Far(p) == p \in recs /\ ~ (p.file = file /\ p.owner = owner)
           Kept(p) == /\ p \in own /\ (p.end <= req.start \/ req.end <= p.start)
                      /\ p.type = type => p.end < m.start \/ m.end < p.start
           LeftOf(p, s) == /\ s.start < req.start /\ req.start < s.end /\ s.type # type
                           /\ p = [file |-> file, owner |-> owner, type |-> s.type,
                                   start |-> s.start, end |-> req.start]
           RightOf(p, s) == /\ s.start < req.end /\ req.end < s.end /\ s.type # type
                            /\ p = [file |-> file, owner |-> owner, type |-> s.type,
                                    start |-> req.end, end |-> s.end]
           Merged(p) == /\ type # "Unlock"
                        /\ p = [file |-> file, owner |-> owner, type |-> type,
                                start |-> m.start, end |-> m.end]
<1>1. /\ MaxOffset \in Nat /\ file \in Files /\ owner \in Owners
      /\ type \in LockTypes \cup {"Unlock"}
      /\ req.start \in Nat /\ req.end \in Nat /\ req.start < req.end
      /\ req.end <= MaxOffset + 1
  BY LockConstants DEF Request, Ranges, Eof
<1>2. \A s \in own : /\ s \in recs /\ s.file = file /\ s.owner = owner
                     /\ s.type \in LockTypes
                     /\ s.start \in Nat /\ s.end \in Nat /\ s.start < s.end
                     /\ s.end <= MaxOffset + 1
  BY LockConstants DEF Own, Table, Records, Eof
<1>3. \A r, s \in own : r # s => /\ r.end <= s.start \/ s.end <= r.start
                                 /\ r.type = s.type => r.end < s.start \/ s.end < r.start
  BY <1>2, OwnIsSlice DEF OwnSlice, Normalized, Overlaps, TouchesOrOverlaps
<1>4. /\ m.start \in Nat /\ m.end \in Nat /\ m.start < m.end /\ m.end <= MaxOffset + 1
      /\ m.start <= req.start /\ req.end <= m.end
      /\ \/ m.start = req.start
         \/ \E l \in own : /\ l.type = type /\ l.start = m.start
                           /\ l.start < req.start /\ l.end >= req.start
      /\ \/ m.end = req.end
         \/ \E r \in own : /\ r.type = type /\ r.end = m.end
                           /\ r.end > req.end /\ r.start <= req.end
  BY OwnIsSlice, MergedRangeShape, LockConstants DEF Request, Ranges, Eof, Coalesced, Contains
<1>5. \A p \in new : \/ Far(p) \/ Kept(p) \/ Merged(p)
                     \/ \E s \in own : LeftOf(p, s)
                     \/ \E s \in own : RightOf(p, s)
  BY AppliedCases
<1> HIDE DEF own, m, new
<1>6. new \subseteq Records
  <2> SUFFICES ASSUME NEW p \in new PROVE p \in Records
    OBVIOUS
  <2>1. CASE Far(p)
    BY <2>1 DEF Table
  <2>2. CASE Kept(p)
    BY <2>2, <1>2 DEF Table
  <2>3. CASE Merged(p)
    BY <2>3, <1>1, <1>4 DEF Records, Eof
  <2>4. ASSUME NEW s \in own, LeftOf(p, s) PROVE p \in Records
    BY <2>4, <1>1, <1>2 DEF Records, Eof
  <2>5. ASSUME NEW s \in own, RightOf(p, s) PROVE p \in Records
    BY <2>5, <1>1, <1>2 DEF Records, Eof
  <2> QED BY <1>5, <2>1, <2>2, <2>3, <2>4, <2>5
<1>7. ASSUME NEW p \in new, NEW q \in new, p.file = q.file, p.owner = q.owner, p # q
      PROVE  /\ ~ Overlaps(p, q)
             /\ p.type = q.type => ~ TouchesOrOverlaps(p, q)
  <2> DEFINE Apart(a, b) == /\ a.end <= b.start \/ b.end <= a.start
                            /\ a.type = b.type => a.end < b.start \/ b.end < a.start
  <2>1. /\ p.start \in Nat /\ p.end \in Nat /\ q.start \in Nat /\ q.end \in Nat
    BY <1>6, LockConstants DEF Records, Eof
  <2>2. CASE Far(p) /\ Far(q)
    BY <2>2, <2>1, <1>7 DEF Table, Normalized
  <2> SUFFICES ASSUME ~ Far(p) \/ ~ Far(q) PROVE Apart(p, q)
    BY <2>1, <2>2 DEF Overlaps, TouchesOrOverlaps
  <2>3. ~ Far(p) /\ ~ Far(q)
    BY <1>5, <1>7, <1>2
  <2>4. \A a, b \in new : Kept(a) /\ Kept(b) /\ a # b => Apart(a, b)
    BY <1>3
  <2>5. \A a, b \in new : Kept(a) /\ Merged(b) => Apart(a, b)
    BY <1>1, <1>2, <1>3, <1>4
  <2>6. \A a, b \in new, s \in own : Kept(a) /\ LeftOf(b, s) => Apart(a, b)
    BY <1>1, <1>2, <1>3
  <2>7. \A a, b \in new, s \in own : Kept(a) /\ RightOf(b, s) => Apart(a, b)
    BY <1>1, <1>2, <1>3
  <2>8. \A a, b \in new, s \in own : Merged(a) /\ LeftOf(b, s) => Apart(a, b)
    BY <1>1, <1>2, <1>3, <1>4
  <2>9. \A a, b \in new, s \in own : Merged(a) /\ RightOf(b, s) => Apart(a, b)
    BY <1>1, <1>2, <1>3, <1>4
  <2>10. \A a, b \in new, s, t \in own : LeftOf(a, s) /\ RightOf(b, t) => Apart(a, b)
    BY <1>1, <1>2, <1>3
  <2>11. \A a, b \in new, s, t \in own : LeftOf(a, s) /\ LeftOf(b, t) => a = b
    BY <1>1, <1>2, <1>3
  <2>12. \A a, b \in new, s, t \in own : RightOf(a, s) /\ RightOf(b, t) => a = b
    BY <1>1, <1>2, <1>3
  <2>13. \A a, b \in new : Merged(a) /\ Merged(b) => a = b
    OBVIOUS
  <2> HIDE DEF Far, Kept, LeftOf, RightOf, Merged
  <2>14. \A a, b : Apart(a, b) => Apart(b, a)
    OBVIOUS
  <2> HIDE DEF Apart
  <2> QED BY <1>5, <1>7, <2>3, <2>4, <2>5, <2>6, <2>7, <2>8, <2>9, <2>10,
             <2>11, <2>12, <2>13, <2>14
<1> QED BY <1>6, <1>7 DEF Table, Normalized, new

(* An accepted request keeps the owners of one namespace apart: the merged   *)
(* record covers the request, which nobody blocks, and bytes the owner       *)
(* already held with that type.                                              *)
LEMMA AppliedExclusive ==
    ASSUME NEW recs, Table(recs), Exclusive(recs),
           NEW file, NEW owner, NEW type, NEW req,
           Request(recs, file, owner, type, req)
    PROVE  Exclusive(Applied(recs, file, owner, type, req))
<1> DEFINE own == Own(recs, file, owner)
           m == MergedRange(own, type, req)
           new == Applied(recs, file, owner, type, req)
           Clash(a, b) == /\ a.end > b.start /\ a.start < b.end
                          /\ a.type # "Read" \/ b.type # "Read"
<1>1. /\ MaxOffset \in Nat
      /\ req.start \in Nat /\ req.end \in Nat /\ req.start < req.end
  BY LockConstants DEF Request, Ranges, Eof
<1>2. \A s \in recs : /\ s.start \in Nat /\ s.end \in Nat /\ s.start < s.end
                      /\ s.type \in LockTypes
  BY LockConstants DEF Table, Records, Eof
<1>3. /\ m.start \in Nat /\ m.end \in Nat
      /\ \/ m.start = req.start
         \/ \E l \in own : /\ l.type = type /\ l.start = m.start
                           /\ l.start < req.start /\ l.end >= req.start
      /\ \/ m.end = req.end
         \/ \E r \in own : /\ r.type = type /\ r.end = m.end
                           /\ r.end > req.end /\ r.start <= req.end
  BY OwnIsSlice, MergedRangeShape, LockConstants DEF Request, Ranges, Eof
<1>4. \A s \in own : s \in recs /\ s.file = file /\ s.owner = owner
  BY DEF Own
<1>5. \A s \in own, q \in recs :
         q.file = file /\ q.owner # owner /\ SameNamespace(owner, q.owner) => ~ Clash(s, q)
  BY <1>2, <1>4 DEF Exclusive, Overlaps
<1> HIDE DEF own, m
<1>6. ASSUME NEW p \in new, p.file = file, p.owner = owner,
             NEW q \in recs, q.file = file, q.owner # owner, SameNamespace(owner, q.owner)
      PROVE  ~ Clash(p, q)
  <2>1. CASE p \in own
    BY <2>1, <1>5, <1>6
  <2>2. ASSUME NEW s \in own, s.start < req.start, req.start < s.end,
               p = [file |-> file, owner |-> owner, type |-> s.type,
                    start |-> s.start, end |-> req.start]
        PROVE  ~ Clash(p, q)
    BY <2>2, <1>1, <1>2, <1>4, <1>5, <1>6
  <2>3. ASSUME NEW s \in own, s.start < req.end, req.end < s.end,
               p = [file |-> file, owner |-> owner, type |-> s.type,
                    start |-> req.end, end |-> s.end]
        PROVE  ~ Clash(p, q)
    BY <2>3, <1>1, <1>2, <1>4, <1>5, <1>6
  <2>4. CASE /\ type # "Unlock"
             /\ p = [file |-> file, owner |-> owner, type |-> type,
                     start |-> m.start, end |-> m.end]
    <3>1. SUFFICES ASSUME Clash(p, q) PROVE FALSE
      OBVIOUS
    <3>2. q.start < m.end /\ m.start < q.end /\ (type # "Read" \/ q.type # "Read")
      BY <3>1, <2>4
    <3>3. ~ (q.start < req.end /\ req.start < q.end)
      BY <3>2, <2>4, <1>1, <1>2, <1>6
         DEF Request, Blocked, Blocks, Overlaps, SameNamespace, LockTypes
    <3>4. CASE q.start >= req.end
      BY <3>2, <3>4, <1>1, <1>2, <1>3, <1>4, <1>5, <1>6
    <3>5. CASE q.end <= req.start
      BY <3>2, <3>5, <1>1, <1>2, <1>3, <1>4, <1>5, <1>6
    <3> QED BY <3>3, <3>4, <3>5, <1>1, <1>2
  <2> HIDE DEF Clash
  <2> QED BY <1>6, <2>1, <2>2, <2>3, <2>4, AppliedCases DEF own, m
<1>7. \A p \in new : p \in recs \/ (p.file = file /\ p.owner = owner)
  BY AppliedCases, <1>4 DEF own
<1>8. \A p, q \in new : /\ p.start \in Nat /\ p.end \in Nat /\ p.type \in LockTypes
                        /\ q.start \in Nat /\ q.end \in Nat
  BY AppliedTable, LockConstants DEF Table, Records, Eof
<1>9. ASSUME NEW p \in new, NEW q \in new,
             p.file = q.file, p.owner # q.owner, SameNamespace(p.owner, q.owner)
      PROVE  ~ Clash(p, q)
  <2>1. CASE p \in recs /\ q \in recs
    BY <2>1, <1>2, <1>9 DEF Exclusive, Overlaps
  <2>2. CASE p.file = file /\ p.owner = owner
    <3>1. q \in recs
      BY <2>2, <1>7, <1>9
    <3> HIDE DEF Clash
    <3> QED BY <3>1, <2>2, <1>6, <1>9
  <2>3. CASE q.file = file /\ q.owner = owner
    <3>1. p \in recs
      BY <2>3, <1>7, <1>9
    <3>2. SameNamespace(owner, p.owner)
      BY <2>3, <1>9 DEF SameNamespace
    <3>3. ~ Clash(q, p)
      <4> HIDE DEF Clash
      <4> QED BY <3>1, <3>2, <2>3, <1>6, <1>9
    <3> QED BY <3>3, <1>8
  <2> HIDE DEF Clash
  <2> QED BY <2>1, <2>2, <2>3, <1>7
<1> QED BY <1>8, <1>9 DEF Exclusive, Overlaps, new

(* The two early returns of set_lock are taken only where the commit would   *)
(* rebuild the same table.                                                   *)
LEMMA NoOpApplied ==
    ASSUME NEW recs, Table(recs), NEW file, NEW owner, NEW type, NEW req,
           Request(recs, file, owner, type, req), NoOp(recs, file, owner, type, req)
    PROVE  Applied(recs, file, owner, type, req) = recs
<1> DEFINE own == Own(recs, file, owner)
<1>1. \A r \in own : Overlaps(r, req) => r \in Removed(own, type, req)
  BY DEF Removed
<1>2. CASE type = "Unlock" /\ Removed(own, type, req) = {}
  BY <1>1, <1>2 DEF Applied, Pieces, LeftFragments, RightFragments, Replacement
<1>3. CASE type # "Unlock" /\ Removed(own, type, req) = Replacement(own, file, owner, type, req)
  <2>1. \A r \in Removed(own, type, req) : r.type = type
    BY <1>3 DEF Replacement
  <2>2. Pieces(own, file, owner, type, req) = Removed(own, type, req)
    BY <1>1, <1>3, <2>1 DEF Pieces, LeftFragments, RightFragments
  <2>3. Removed(own, type, req) \subseteq recs
    BY DEF Removed, Own
  <2> QED BY <2>2, <2>3 DEF Applied
<1> QED BY <1>2, <1>3 DEF NoOp

LEMMA AppliedFinite ==
    ASSUME NEW recs, IsFiniteSet(recs), NEW file, NEW owner, NEW type, NEW req
    PROVE  IsFiniteSet(Applied(recs, file, owner, type, req))
<1> DEFINE own == Own(recs, file, owner)
           L == {s \in own : Overlaps(s, req) /\ s.start < req.start /\ s.type # type}
           R == {s \in own : Overlaps(s, req) /\ req.end < s.end /\ s.type # type}
           fl == [r \in L |-> [r EXCEPT !.end = req.start]]
           fr == [r \in R |-> [r EXCEPT !.start = req.end]]
<1>1. IsFiniteSet(L) /\ IsFiniteSet(R) /\ IsFiniteSet(recs \ Removed(own, type, req))
  BY FS_Subset DEF Own
<1>2. fl \in Surjection(L, LeftFragments(own, type, req))
  BY DEF Surjection, LeftFragments
<1>3. fr \in Surjection(R, RightFragments(own, type, req))
  BY DEF Surjection, RightFragments
<1>4. IsFiniteSet(LeftFragments(own, type, req)) /\ IsFiniteSet(RightFragments(own, type, req))
  BY <1>1, <1>2, <1>3, FS_Surjection
<1>5. IsFiniteSet(Replacement(own, file, owner, type, req))
  BY FS_EmptySet, FS_Singleton DEF Replacement
<1> HIDE DEF own
<1> QED BY <1>1, <1>4, <1>5, FS_Union DEF Applied, Pieces, own

(* A flock record covers its whole file. *)
FlockWhole(recs) == \A r \in recs : r.owner.kind = "Flock" => r.start = 0 /\ r.end = Eof

LEMMA AppliedFlockWhole ==
    ASSUME NEW recs, Table(recs), FlockWhole(recs),
           NEW file, NEW owner, NEW type, NEW req,
           Request(recs, file, owner, type, req), owner.kind = "Flock" => req = WholeFile
    PROVE  FlockWhole(Applied(recs, file, owner, type, req))
<1> DEFINE own == Own(recs, file, owner)
           m == MergedRange(own, type, req)
<1> SUFFICES ASSUME NEW p \in Applied(recs, file, owner, type, req), p.owner.kind = "Flock"
             PROVE  p.start = 0 /\ p.end = Eof
  BY DEF FlockWhole
<1>1. CASE p \in recs
  BY <1>1 DEF FlockWhole
<1>2. \A s \in own : s \in recs /\ s.owner = owner
  BY DEF Own
<1>3. \A s \in own : s.owner.kind = "Flock" => s.start = 0 /\ s.end = Eof
  BY <1>2 DEF FlockWhole
<1>4. CASE type # "Unlock" /\ p = [file |-> file, owner |-> owner, type |-> type,
                                  start |-> m.start, end |-> m.end]
  <2>1. req = WholeFile
    BY <1>4
  <2>2. m \in Ranges /\ Contains(m, req)
    BY OwnIsSlice, MergedRangeShape DEF Request, Coalesced
  <2>3. m.start = 0 /\ m.end = Eof
    BY <2>1, <2>2, LockConstants DEF WholeFile, Contains, Ranges, Eof
  <2> QED BY <1>4, <2>3
<1>5. ASSUME NEW s \in own, s.start < req.start \/ req.end < s.end, p.owner = owner
      PROVE  FALSE
  BY <1>2, <1>3, <1>5, LockConstants DEF WholeFile, Eof
<1> HIDE DEF own, m
<1>6. \/ p \in recs
      \/ \E s \in own : (s.start < req.start \/ req.end < s.end) /\ p.owner = owner
      \/ /\ type # "Unlock"
         /\ p = [file |-> file, owner |-> owner, type |-> type,
                 start |-> m.start, end |-> m.end]
  BY AppliedCases, <1>2 DEF own, m
<1> QED BY <1>1, <1>4, <1>5, <1>6

(* The invariant of the table as a whole. *)
GoodTable(recs) ==
    /\ Table(recs)
    /\ Exclusive(recs)
    /\ FlockWhole(recs)
    /\ IsFiniteSet(recs)
    /\ Cardinality(recs) <= MaxRecords

(* set_lock keeps it, whether it succeeds or fails. *)
LEMMA SetLockGood ==
    ASSUME NEW recs, GoodTable(recs),
           NEW file \in Files, NEW owner \in Owners,
           NEW type \in LockTypes \cup {"Unlock"}, NEW req \in Ranges,
           owner.kind = "Flock" => req = WholeFile
    PROVE  GoodTable(SetLockRecords(recs, file, owner, type, req))
<1>1. CASE SetLockError(recs, file, owner, type, req) = "OK"
  <2>1. Request(recs, file, owner, type, req)
    BY <1>1 DEF Request, SetLockError
  <2>2. \/ NoOp(recs, file, owner, type, req)
        \/ ~ (Cardinality(Applied(recs, file, owner, type, req)) > MaxRecords)
    BY <1>1 DEF SetLockError
  <2>3. CASE NoOp(recs, file, owner, type, req)
    BY <1>1, <2>1, <2>3, NoOpApplied DEF GoodTable, SetLockRecords
  <2>4. CASE ~ (Cardinality(Applied(recs, file, owner, type, req)) > MaxRecords)
    <3> DEFINE new == Applied(recs, file, owner, type, req)
    <3>1. IsFiniteSet(new)
      BY AppliedFinite DEF GoodTable
    <3>2. Cardinality(new) <= MaxRecords
      BY <2>4, <3>1, FS_CardinalityType, LockConstants
    <3>3. Table(new) /\ Exclusive(new) /\ FlockWhole(new)
      BY <2>1, AppliedTable, AppliedExclusive, AppliedFlockWhole DEF GoodTable
    <3> QED BY <1>1, <3>1, <3>2, <3>3 DEF GoodTable, SetLockRecords
  <2> QED BY <2>2, <2>3, <2>4
<1>2. CASE SetLockError(recs, file, owner, type, req) # "OK"
  BY <1>2 DEF SetLockRecords
<1> QED BY <1>1, <1>2

(* So does taking records out. *)
LEMMA SubsetGood ==
    ASSUME NEW recs, GoodTable(recs), NEW less \in SUBSET recs
    PROVE  GoodTable(less)
<1>1. IsFiniteSet(less) /\ Cardinality(less) <= Cardinality(recs)
  BY FS_Subset DEF GoodTable
<1>2. Cardinality(less) <= MaxRecords
  BY <1>1, FS_CardinalityType, LockConstants DEF GoodTable
<1> QED BY <1>1, <1>2 DEF GoodTable, Table, Normalized, Exclusive, FlockWhole

-----------------------------------------------------------------------------
(* The lock table *)

(* The inductive invariant.  Exclusion is not inductive alone: it takes the  *)
(* normal form to know how far a merged record reaches, and the whole-file   *)
(* form of flock records to rule out fragments of them.                      *)
IInv == GoodTable(records) /\ wake \in BOOLEAN

LEMMA OwnerKinds ==
    /\ \A o \in ByteRangeOwners : o \in Owners /\ o.kind # "Flock"
    /\ \A d \in Ofds : FlockOwner(d) \in Owners /\ FlockOwner(d).kind = "Flock"
  BY DEF ByteRangeOwners, Owners, FlockOwner

LEMMA InitIInv == Init => IInv
<1> SUFFICES ASSUME Init PROVE IInv
  OBVIOUS
<1>1. IsFiniteSet({}) /\ Cardinality({}) = 0
  BY FS_EmptySet
<1>2. Table({}) /\ Exclusive({}) /\ FlockWhole({})
  BY DEF Table, Normalized, Exclusive, FlockWhole
<1>3. GoodTable({})
  BY <1>1, <1>2, LockConstants DEF GoodTable
<1> QED BY <1>3 DEF Init, IInv

LEMMA NextIInv == IInv /\ [Next]_vars => IInv'
<1> SUFFICES ASSUME IInv, [Next]_vars PROVE IInv'
  OBVIOUS
<1> USE DEF IInv
<1>1. ASSUME NEW file \in Files, NEW owner \in ByteRangeOwners, NEW type \in RequestTypes,
             NEW start \in Offsets, NEW len \in Lengths, Fcntl(file, owner, type, start, len)
      PROVE  IInv'
  <2> DEFINE req == Normalize(start, len)
  <2>1. req \in Ranges
    BY <1>1, NormalizeInRange, LockConstants DEF Fcntl, Offsets, Lengths
  <2>2. GoodTable(SetLockRecords(records, file, owner, type, req))
    BY <2>1, SetLockGood, OwnerKinds DEF RequestTypes
  <2>3. wake' \in BOOLEAN
    BY <1>1 DEF Fcntl, SetLockMayUnblock
  <2> QED BY <1>1, <2>2, <2>3 DEF Fcntl
<1>2. ASSUME NEW file \in Files, NEW ofd \in Ofds, NEW type \in LockTypes,
             FlockConvert(file, ofd, type)
      PROVE  IInv'
  <2> DEFINE owner == FlockOwner(ofd)
             dropped == RemoveFileOwner(records, file, owner)
  <2>1. GoodTable(dropped)
    BY SubsetGood DEF RemoveFileOwner
  <2>2. GoodTable(SetLockRecords(dropped, file, owner, type, WholeFile))
    BY <2>1, SetLockGood, OwnerKinds, WholeFileInRanges
  <2> QED BY <1>2, <2>2 DEF FlockConvert
<1>3. ASSUME NEW file \in Files, NEW ofd \in Ofds, FlockUnlock(file, ofd)
      PROVE  IInv'
  <2>1. GoodTable(SetLockRecords(records, file, FlockOwner(ofd), "Unlock", WholeFile))
    BY SetLockGood, OwnerKinds, WholeFileInRanges
  <2>2. wake' \in BOOLEAN
    BY <1>3 DEF FlockUnlock, SetLockMayUnblock
  <2> QED BY <1>3, <2>1, <2>2 DEF FlockUnlock
<1>4. ASSUME NEW pid \in Procs, NEW file \in Files, CloseFile(pid, file) PROVE IInv'
  BY <1>4, SubsetGood DEF CloseFile, RemoveTo, RemoveFileOwner
<1>5. ASSUME NEW pid \in Procs, ExitProcess(pid) PROVE IInv'
  BY <1>5, SubsetGood DEF ExitProcess, RemoveTo, RemoveProcess
<1>6. ASSUME NEW ofd \in Ofds, FinalClose(ofd) PROVE IInv'
  BY <1>6, SubsetGood DEF FinalClose, RemoveTo, RemoveOfd
<1>7. CASE DrainWake
  BY <1>7 DEF DrainWake
<1>8. CASE UNCHANGED vars
  BY <1>8 DEF vars
<1> QED BY <1>1, <1>2, <1>3, <1>4, <1>5, <1>6, <1>7, <1>8 DEF Next

LEMMA Inductive == Spec => []IInv
<1>1. Init => IInv
  BY InitIInv
<1>2. IInv /\ [Next]_vars => IInv'
  BY NextIInv
<1> QED BY <1>1, <1>2, PTL DEF Spec

(* Every stored record is well formed (AdvisoryLockManager.records). *)
THEOREM TypeCorrect == Spec => []TypeOK
<1>1. IInv => TypeOK
  BY DEF IInv, GoodTable, Table, TypeOK
<1> QED BY <1>1, Inductive, PTL

(* set_lock's fragment logic may rely on the disjointness it assumes. *)
THEOREM AlwaysNormalized == Spec => []TableNormalized
<1>1. IInv => TableNormalized
  BY DEF IInv, GoodTable, Table, TableNormalized
<1> QED BY <1>1, Inductive, PTL

(* No byte is write-locked by one owner and locked by another. *)
THEOREM AlwaysExclusive == Spec => []MutualExclusion
<1>1. IInv => MutualExclusion
  BY DEF IInv, GoodTable, MutualExclusion
<1> QED BY <1>1, Inductive, PTL

(* flock_type's lookup is unambiguous. *)
THEOREM FlockUnambiguous == Spec => []FlockWholeFile
<1>1. IInv => FlockWholeFile
  <2> SUFFICES ASSUME IInv, NEW r \in records, r.owner.kind = "Flock"
               PROVE  /\ r.start = 0 /\ r.end = Eof
                      /\ \A s \in records : s.file = r.file /\ s.owner = r.owner => s = r
    BY DEF FlockWholeFile
  <2>1. \A s \in records : s.owner.kind = "Flock" => s.start = 0 /\ s.end = Eof
    BY DEF IInv, GoodTable, FlockWhole
  <2>2. \A s \in records : s.file = r.file /\ s.owner = r.owner /\ s # r => ~ Overlaps(s, r)
    BY DEF IInv, GoodTable, Table, Normalized
  <2> QED BY <2>1, <2>2, LockConstants DEF Overlaps, Eof
<1> QED BY <1>1, Inductive, PTL

(* The table never holds more than MAX_ADVISORY_LOCK_RECORDS records. *)
THEOREM CapacityBound == Spec => []WithinCapacity
<1>1. IInv => WithinCapacity
  BY DEF IInv, GoodTable, WithinCapacity
<1> QED BY <1>1, Inductive, PTL

(* All that the operations of lock.rs take for granted about the table they  *)
(* find holds of every table they leave.                                     *)
THEOREM AlwaysSound == Spec => []TableSound
<1>1. TypeOK /\ TableNormalized /\ FlockWholeFile /\ WithinCapacity => TableSound
  BY DEF TableSound
<1> QED BY <1>1, TypeCorrect, AlwaysNormalized, FlockUnambiguous, CapacityBound, PTL

-----------------------------------------------------------------------------
(* Wake-ups *)

(* An accepted request that takes the last blocker of somebody away reports  *)
(* may_unblock.                                                              *)
LEMMA SetLockUnblocks ==
    ASSUME NEW recs, Table(recs), NEW file, NEW owner, NEW type, NEW req,
           Request(recs, file, owner, type, req),
           SetLockError(recs, file, owner, type, req) = "OK",
           NEW f, NEW o, NEW t, NEW g \in Ranges,
           Blocked(recs, f, o, t, g),
           ~ Blocked(Applied(recs, file, owner, type, req), f, o, t, g)
    PROVE  SetLockMayUnblock(recs, file, owner, type, req)
<1> DEFINE own == Own(recs, file, owner)
           m == MergedRange(own, type, req)
           new == Applied(recs, file, owner, type, req)
<1>1. PICK r \in recs : Blocks(r, f, o, t, g)
  BY DEF Blocked
<1>2. r \notin new
  BY <1>1 DEF Blocked
<1>3. r \in Removed(own, type, req) /\ r \in own
  BY <1>2 DEF Applied, Removed
<1>4. ~ NoOp(recs, file, owner, type, req)
  BY <1>2, NoOpApplied
<1>5. CASE type = "Unlock"
  BY <1>4, <1>5 DEF SetLockMayUnblock
<1>6. CASE type # "Unlock" /\ r.type # type
  BY <1>3, <1>4, <1>6 DEF SetLockMayUnblock, Removed
<1>7. CASE type # "Unlock" /\ r.type = type
  <2> DEFINE p == [file |-> file, owner |-> owner, type |-> type,
                   start |-> m.start, end |-> m.end]
  <2>1. p \in new
    BY <1>7 DEF Applied, Pieces, Replacement
  <2>2. m \in Ranges /\ Coalesced(own, type, req, m)
    BY OwnIsSlice, MergedRangeShape DEF Request
  <2>3. /\ r.start \in Nat /\ r.end \in Nat /\ r.start < r.end
        /\ m.start \in Nat /\ m.end \in Nat /\ g.start \in Nat /\ g.end \in Nat
        /\ req.start \in Nat /\ req.end \in Nat
    BY <2>2, LockConstants DEF Table, Records, Ranges, Eof, Request
  <2>4. TouchesOrOverlaps(r, m)
    <3>1. CASE TouchesOrOverlaps(r, m)
      BY <3>1
    <3>2. CASE Overlaps(r, req)
      BY <3>2, <2>2, <2>3 DEF Overlaps, TouchesOrOverlaps, Coalesced, Contains
    <3> QED BY <3>1, <3>2, <1>3 DEF Removed
  <2>5. m.start <= r.start /\ r.end <= m.end
    BY <2>2, <2>4, <1>3, <1>7 DEF Coalesced, Contains
  <2>6. r.file = file /\ r.owner = owner
    BY <1>3 DEF Own
  <2>7. Blocks(p, f, o, t, g)
    BY <1>1, <1>7, <2>3, <2>5, <2>6 DEF Blocks, Overlaps, SameNamespace
  <2> QED BY <2>1, <2>7 DEF Blocked
<1> QED BY <1>5, <1>6, <1>7

LEMMA UnblockStep ==
    ASSUME IInv, [Next]_vars,
           NEW f, NEW o, NEW t, NEW g \in Ranges,
           Blocked(records, f, o, t, g), ~ Blocked(records', f, o, t, g)
    PROVE  wake'
<1>0. GoodTable(records) /\ Table(records)
  BY DEF IInv, GoodTable
<1>1. ASSUME NEW file \in Files, NEW owner \in ByteRangeOwners, NEW type \in RequestTypes,
             NEW start \in Offsets, NEW len \in Lengths, Fcntl(file, owner, type, start, len)
      PROVE  wake'
  <2> DEFINE req == Normalize(start, len)
  <2>1. req \in Ranges
    BY <1>1, NormalizeInRange, LockConstants DEF Fcntl, Offsets, Lengths
  <2>2. SetLockError(records, file, owner, type, req) = "OK"
    BY <1>1 DEF Fcntl
  <2>3. Request(records, file, owner, type, req)
    BY <2>1, <2>2, OwnerKinds DEF SetLockError, Request, RequestTypes
  <2>4. records' = Applied(records, file, owner, type, req)
    BY <1>1, <2>2 DEF Fcntl, SetLockRecords
  <2>5. SetLockMayUnblock(records, file, owner, type, req)
    BY <1>0, <2>2, <2>3, <2>4, SetLockUnblocks
  <2> QED BY <1>1, <2>5 DEF Fcntl
<1>2. ASSUME NEW file \in Files, NEW ofd \in Ofds, NEW type \in LockTypes,
             FlockConvert(file, ofd, type)
      PROVE  wake'
  <2> DEFINE owner == FlockOwner(ofd)
             dropped == RemoveFileOwner(records, file, owner)
  <2>1. PICK r \in records : Blocks(r, f, o, t, g)
    BY DEF Blocked
  <2>2. r \notin records'
    BY <2>1 DEF Blocked
  <2>3. Own(dropped, file, owner) = {}
    BY DEF RemoveFileOwner, Own
  <2>4. Removed(Own(dropped, file, owner), type, WholeFile) = {}
    BY <2>3 DEF Removed
  <2>5. dropped \subseteq records'
    BY <1>2, <2>4 DEF FlockConvert, SetLockRecords, Applied
  <2> QED BY <1>2, <2>1, <2>2, <2>5 DEF FlockConvert
<1>3. ASSUME NEW file \in Files, NEW ofd \in Ofds, FlockUnlock(file, ofd)
      PROVE  wake'
  <2> DEFINE owner == FlockOwner(ofd)
  <2>1. SetLockError(records, file, owner, "Unlock", WholeFile) = "OK"
    <3>1. CASE SetLockRecords(records, file, owner, "Unlock", WholeFile) = records
      BY <1>3, <3>1 DEF FlockUnlock
    <3> QED BY <3>1 DEF SetLockRecords
  <2>2. Request(records, file, owner, "Unlock", WholeFile)
    BY OwnerKinds, WholeFileInRanges DEF Request
  <2>3. records' = Applied(records, file, owner, "Unlock", WholeFile)
    BY <1>3, <2>1 DEF FlockUnlock, SetLockRecords
  <2>4. SetLockMayUnblock(records, file, owner, "Unlock", WholeFile)
    BY <1>0, <2>1, <2>2, <2>3, SetLockUnblocks
  <2> QED BY <1>3, <2>4 DEF FlockUnlock
<1>4. ASSUME NEW pid \in Procs, NEW file \in Files, CloseFile(pid, file) PROVE wake'
  BY <1>4 DEF CloseFile, RemoveTo
<1>5. ASSUME NEW pid \in Procs, ExitProcess(pid) PROVE wake'
  BY <1>5 DEF ExitProcess, RemoveTo
<1>6. ASSUME NEW ofd \in Ofds, FinalClose(ofd) PROVE wake'
  BY <1>6 DEF FinalClose, RemoveTo
<1>7. CASE DrainWake
  BY <1>7 DEF DrainWake
<1>8. CASE UNCHANGED vars
  BY <1>8 DEF vars
<1> QED BY <1>1, <1>2, <1>3, <1>4, <1>5, <1>6, <1>7, <1>8 DEF Next

(* No operation turns a blocked request grantable without queueing an        *)
(* ADVISORY_LOCK wake-up event.                                              *)
THEOREM NoSilentUnblock == Spec => UnblockAnnounced
<1> DEFINE Announced ==
      \A file \in Files, owner \in Owners, type \in LockTypes, req \in Ranges :
          /\ Blocked(records, file, owner, type, req)
          /\ ~ Blocked(records', file, owner, type, req)
          => wake'
<1>1. IInv /\ [Next]_vars => [Announced]_vars
  BY UnblockStep
<1> QED BY <1>1, Inductive, PTL DEF Spec, UnblockAnnounced

-----------------------------------------------------------------------------
(* Refinement *)

LEMMA ModeOfCover ==
    ASSUME NEW recs, Table(recs), NEW f, NEW o, NEW b \in Int,
           NEW r \in recs, Covers(r, f, o, b)
    PROVE  ModeAt(recs, f, o, b) = r.type
<1>1. \A s \in recs : s.start \in Int /\ s.end \in Int
  BY LockConstants DEF Table, Records, Eof
<1>2. \A s \in recs : Covers(s, f, o, b) => s = r
  BY <1>1 DEF Covers, Table, Normalized, Overlaps
<1> DEFINE c == CHOOSE s \in recs : Covers(s, f, o, b)
<1>3. c \in recs /\ Covers(c, f, o, b)
  OBVIOUS
<1>4. c = r
  BY <1>2, <1>3
<1> QED BY <1>4 DEF ModeAt

LEMMA ModeOfNone ==
    ASSUME NEW recs, NEW f, NEW o, NEW b, \A r \in recs : ~ Covers(r, f, o, b)
    PROVE  ModeAt(recs, f, o, b) = "None"
  BY DEF ModeAt

(* An accepted request changes exactly the requested bytes of its owner. *)
LEMMA AppliedMode ==
    ASSUME NEW recs, Table(recs), NEW file, NEW owner, NEW type, NEW req,
           Request(recs, file, owner, type, req),
           NEW f, NEW o, NEW b \in Int
    PROVE  ModeAt(Applied(recs, file, owner, type, req), f, o, b) =
               IF f = file /\ o = owner /\ req.start <= b /\ b < req.end
               THEN IF type = "Unlock" THEN "None" ELSE type
               ELSE ModeAt(recs, f, o, b)
<1> DEFINE own == Own(recs, file, owner)
           m == MergedRange(own, type, req)
           new == Applied(recs, file, owner, type, req)
           mr == [file |-> file, owner |-> owner, type |-> type,
                  start |-> m.start, end |-> m.end]
<1>1. Table(new)
  BY AppliedTable
<1>2. /\ req.start \in Nat /\ req.end \in Nat /\ req.start < req.end
      /\ m.start \in Nat /\ m.end \in Nat /\ m.start <= req.start /\ req.end <= m.end
      /\ \/ m.start = req.start
         \/ \E l \in own : /\ l.type = type /\ l.start = m.start
                           /\ l.start < req.start /\ l.end >= req.start
      /\ \/ m.end = req.end
         \/ \E r \in own : /\ r.type = type /\ r.end = m.end
                           /\ r.end > req.end /\ r.start <= req.end
      /\ \A r \in own : r.type = type /\ r.start <= m.end /\ m.start <= r.end
                           => m.start <= r.start /\ r.end <= m.end
  BY OwnIsSlice, MergedRangeShape, LockConstants
     DEF Request, Ranges, Eof, Coalesced, Contains, TouchesOrOverlaps
<1>3. \A s \in recs : s.start \in Nat /\ s.end \in Nat /\ s.start < s.end
                      /\ s \in Records
  BY LockConstants DEF Table, Records, Eof
<1>4. \A s \in own : s \in recs /\ s.file = file /\ s.owner = owner
  BY DEF Own
<1>5. type # "Unlock" => mr \in new
  BY DEF Applied, Pieces, Replacement
<1>6. \A r \in recs : r \notin own => r \in new
  BY DEF Applied, Removed
<1>7. \A r \in own : \/ r \in new
                     \/ r.start < req.end /\ req.start < r.end
                     \/ r.type = type /\ type # "Unlock" /\ m.start <= r.start /\ r.end <= m.end
  <2>1. \A r \in own : r.type # "Unlock"
    BY <1>4, <1>3 DEF Records, LockTypes
  <2> QED BY <2>1, <1>2, <1>3, <1>4 DEF Applied, Removed, Overlaps, TouchesOrOverlaps
<1>8. \A r \in own : /\ r.start < req.end /\ req.start < r.end
                     /\ r.type # type /\ r.start < req.start
                     => [r EXCEPT !.end = req.start] \in new
  BY <1>4 DEF Applied, Pieces, LeftFragments, Overlaps
<1>9. \A r \in own : /\ r.start < req.end /\ req.start < r.end
                     /\ r.type # type /\ req.end < r.end
                     => [r EXCEPT !.start = req.end] \in new
  BY <1>4 DEF Applied, Pieces, RightFragments, Overlaps
<1>10. CASE f = file /\ o = owner /\ req.start <= b /\ b < req.end
  <2>1. CASE type # "Unlock"
    <3>1. Covers(mr, f, o, b)
      BY <1>10, <1>2 DEF Covers
    <3> QED BY <1>1, <1>5, <1>10, <2>1, <3>1, ModeOfCover
  <2>2. CASE type = "Unlock"
    <3>1. \A p \in new : ~ Covers(p, f, o, b)
      BY <1>10, <2>2, <1>2, <1>3, <1>4, AppliedCases DEF Covers
    <3> QED BY <1>10, <2>2, <3>1, ModeOfNone
  <2> QED BY <2>1, <2>2
<1>11. CASE ~ (f = file /\ o = owner /\ req.start <= b /\ b < req.end)
  <2>1. CASE \E r \in recs : Covers(r, f, o, b)
    <3>1. PICK r \in recs : Covers(r, f, o, b)
      BY <2>1
    <3>2. ModeAt(recs, f, o, b) = r.type
      BY <3>1, ModeOfCover
    <3>3. \E p \in new : Covers(p, f, o, b) /\ p.type = r.type
      <4>1. CASE r \in new
        BY <4>1, <3>1
      <4>2. CASE r \notin new
        <5>1. r \in own /\ f = file /\ o = owner
          BY <4>2, <1>6, <3>1, <1>4 DEF Covers
        <5>2. CASE r.type = type /\ type # "Unlock" /\ m.start <= r.start /\ r.end <= m.end
          <6>1. Covers(mr, f, o, b) /\ mr.type = r.type
            BY <5>1, <5>2, <3>1, <1>2, <1>3 DEF Covers
          <6> QED BY <6>1, <5>2, <1>5
        <5>3. CASE /\ r.start < req.end /\ req.start < r.end
                   /\ ~ (r.type = type /\ type # "Unlock" /\ m.start <= r.start /\ r.end <= m.end)
          <6>1. r.type # type
            BY <5>1, <5>3, <1>2, <1>3, <1>4 DEF Records, LockTypes
          <6>2. CASE b < req.start
            <7> DEFINE p == [r EXCEPT !.end = req.start]
            <7>1. p \in new
              BY <6>1, <6>2, <5>1, <5>3, <3>1, <1>2, <1>3, <1>8 DEF Covers
            <7>2. Covers(p, f, o, b) /\ p.type = r.type
              BY <6>2, <3>1, <1>3 DEF Covers, Records
            <7> QED BY <7>1, <7>2
          <6>3. CASE req.end <= b
            <7> DEFINE p == [r EXCEPT !.start = req.end]
            <7>1. p \in new
              BY <6>1, <6>3, <5>1, <5>3, <3>1, <1>2, <1>3, <1>9 DEF Covers
            <7>2. Covers(p, f, o, b) /\ p.type = r.type
              BY <6>3, <3>1, <1>3 DEF Covers, Records
            <7> QED BY <7>1, <7>2
          <6> QED BY <6>2, <6>3, <5>1, <1>11, <1>2
        <5> QED BY <5>1, <5>2, <5>3, <4>2, <1>7
      <4> QED BY <4>1, <4>2
    <3> QED BY <1>1, <1>11, <3>2, <3>3, ModeOfCover
  <2>2. CASE \A r \in recs : ~ Covers(r, f, o, b)
    <3>1. \A p \in new : ~ Covers(p, f, o, b)
      <4> SUFFICES ASSUME NEW p \in new, Covers(p, f, o, b)
                   PROVE  \E r \in recs : Covers(r, f, o, b)
        BY <2>2
      <4>1. CASE p \in recs
        BY <4>1
      <4>2. ASSUME NEW s \in own, s.start < req.start, req.start < s.end,
                   p = [file |-> file, owner |-> owner, type |-> s.type,
                        start |-> s.start, end |-> req.start]
            PROVE  Covers(s, f, o, b)
        BY <4>2, <1>2, <1>3, <1>4 DEF Covers
      <4>3. ASSUME NEW s \in own, s.start < req.end, req.end < s.end,
                   p = [file |-> file, owner |-> owner, type |-> s.type,
                        start |-> req.end, end |-> s.end]
            PROVE  Covers(s, f, o, b)
        BY <4>3, <1>2, <1>3, <1>4 DEF Covers
      <4>4. CASE p = mr
        <5>1. f = file /\ o = owner /\ m.start <= b /\ b < m.end
          BY <4>4 DEF Covers
        <5>2. b < req.start \/ req.end <= b
          BY <5>1, <1>11, <1>2
        <5>3. CASE b < req.start
          BY <5>1, <5>3, <1>2, <1>3, <1>4 DEF Covers
        <5>4. CASE req.end <= b
          BY <5>1, <5>4, <1>2, <1>3, <1>4 DEF Covers
        <5> QED BY <5>2, <5>3, <5>4
      <4> HIDE DEF own, m
      <4> QED BY <4>1, <4>2, <4>3, <4>4, <1>4, AppliedCases DEF own, m
    <3> QED BY <1>11, <2>2, <3>1, ModeOfNone
  <2> QED BY <2>1, <2>2
<1> QED BY <1>10, <1>11

LEMMA ModeInModes ==
    ASSUME NEW recs, Table(recs), NEW f, NEW o, NEW b \in Int
    PROVE  ModeAt(recs, f, o, b) \in {"None", "Read", "Write"}
<1>1. CASE \E r \in recs : Covers(r, f, o, b)
  <2>1. PICK r \in recs : Covers(r, f, o, b)
    BY <1>1
  <2>2. r.type \in {"Read", "Write"}
    BY DEF Table, Records, LockTypes
  <2> QED BY <2>1, <2>2, ModeOfCover
<1>2. CASE ~ \E r \in recs : Covers(r, f, o, b)
  BY <1>2 DEF ModeAt
<1> QED BY <1>1, <1>2

(* An accepted set_lock is one Change of the byte map. *)
LEMMA ChangeStep ==
    ASSUME NEW file \in Files, NEW owner \in Owners, NEW type \in RequestTypes,
           NEW req \in Ranges, Table(records), wake \in BOOLEAN,
           SetLockError(records, file, owner, type, req) = "OK",
           records' = Applied(records, file, owner, type, req),
           wake' = (wake \/ SetLockMayUnblock(records, file, owner, type, req))
    PROVE  Map!MapNext
<1> DEFINE mode == IF type = "Unlock" THEN "None" ELSE type
           lo == req.start
           hi == req.end - 1
<1>1. Request(records, file, owner, type, req)
  BY DEF SetLockError, Request, RequestTypes
<1>2. MaxOffset \in Nat /\ lo \in 0 .. MaxOffset /\ hi \in 0 .. MaxOffset /\ lo <= hi
      /\ req.start \in Nat /\ req.end \in Nat
  BY LockConstants DEF Ranges, Eof
<1>3. mode \in Map!Modes
  BY DEF RequestTypes, LockTypes, Map!Modes
<1>4. \A f, o : \A b \in 0 .. MaxOffset :
         ModeAt(records', f, o, b) =
             IF f = file /\ o = owner /\ b \in lo .. hi THEN mode
             ELSE ModeAt(records, f, o, b)
  BY <1>1, <1>2, AppliedMode
<1>5. \A s \in records : s.start \in Nat /\ s.end \in Nat /\ s.type \in LockTypes
  BY LockConstants DEF Table, Records, Eof
<1>6. ASSUME NEW p \in Owners, NEW b \in lo .. hi, p # owner, SameNamespace(owner, p),
             Map!Excludes(mode, ModeAt(records, file, p, b))
      PROVE  FALSE
  <2>1. b \in Int /\ req.start <= b /\ b < req.end
    BY <1>2
  <2>2. ModeAt(records, file, p, b) # "None"
    BY <1>6 DEF Map!Excludes
  <2>3. PICK r \in records : Covers(r, file, p, b)
    BY <2>2 DEF ModeAt
  <2>4. ModeAt(records, file, p, b) = r.type
    BY <2>1, <2>3, ModeOfCover
  <2>5. type # "Unlock" /\ (type = "Write" \/ r.type = "Write")
    BY <1>6, <2>4 DEF Map!Excludes
  <2>6. Overlaps(r, req)
    BY <2>1, <2>3, <1>2, <1>5 DEF Covers, Overlaps
  <2>7. Blocks(r, file, owner, type, req)
    BY <2>3, <2>5, <2>6, <1>6 DEF Blocks, Covers, SameNamespace
  <2> QED BY <2>5, <2>7, <1>1 DEF Request, Blocked
<1>7. heldMap' = [g \in Files |-> [p \in Owners |-> [b \in 0 .. MaxOffset |->
                     IF g = file /\ p = owner /\ b \in lo .. hi THEN mode
                     ELSE heldMap[g][p][b]]]]
  BY <1>4 DEF heldMap
<1>8. ASSUME NEW f \in Files, NEW o \in Owners, NEW b \in 0 .. MaxOffset,
             Map!Weaker(ModeAt(records, f, o, b), ModeAt(records', f, o, b))
      PROVE  wake'
  <2>1. ModeAt(records', f, o, b) # ModeAt(records, f, o, b)
        /\ ModeAt(records, f, o, b) # "None"
    BY <1>8 DEF Map!Weaker
  <2>2. f = file /\ o = owner /\ b \in lo .. hi /\ mode # ModeAt(records, f, o, b)
    BY <2>1, <1>4
  <2>3. PICK r \in records : Covers(r, file, owner, b)
    BY <2>1, <2>2 DEF ModeAt
  <2>4. ModeAt(records, file, owner, b) = r.type
    BY <2>3, <1>2, ModeOfCover
  <2>5. r \in Own(records, file, owner) /\ Overlaps(r, req)
    BY <2>2, <2>3, <1>2, <1>5 DEF Covers, Own, Overlaps
  <2>6. ~ NoOp(records, file, owner, type, req)
    BY <2>1, <1>1, NoOpApplied
  <2>7. type # r.type
    BY <2>2, <2>4, <1>5 DEF LockTypes
  <2>8. SetLockMayUnblock(records, file, owner, type, req)
    BY <2>5, <2>6, <2>7 DEF SetLockMayUnblock
  <2> QED BY <2>8
<1>9. Map!Announce
  <2>1. wake' \in BOOLEAN /\ (wake => wake')
    BY DEF SetLockMayUnblock
  <2>2. Map!Weakened(heldMap, heldMap') => wake'
    BY <1>8 DEF Map!Weakened, Map!Bytes, heldMap
  <2> QED BY <2>1, <2>2 DEF Map!Announce
<1>10. Map!Change(file, owner, mode, lo, hi)
  <2>1. \A p \in Owners, b \in lo .. hi :
           p # owner /\ SameNamespace(owner, p) => ~ Map!Excludes(mode, heldMap[file][p][b])
    BY <1>6, <1>2 DEF heldMap
  <2> QED BY <2>1, <1>7, <1>9 DEF Map!Change, Map!Bytes
<1> QED BY <1>2, <1>3, <1>10 DEF Map!MapNext, Map!Bytes

(* Taking out all the records of some owners on some files is one Drop. *)
Without(recs, F, O) == {r \in recs : ~ (r.file \in F /\ r.owner \in O)}

LEMMA DropStep ==
    ASSUME NEW F \in SUBSET Files, NEW O \in SUBSET Owners,
           Table(records), wake \in BOOLEAN,
           records' = Without(records, F, O),
           wake' = (wake \/ records' # records)
    PROVE  Map!MapNext
<1> USE DEF Without
<1>1. Table(records')
  BY DEF Table, Normalized
<1>2. ASSUME NEW f \in Files, NEW o \in Owners, NEW b \in 0 .. MaxOffset
      PROVE  ModeAt(records', f, o, b) =
                 IF f \in F /\ o \in O THEN "None" ELSE ModeAt(records, f, o, b)
  <2>1. CASE f \in F /\ o \in O
    BY <2>1 DEF ModeAt, Covers
  <2>2. CASE ~ (f \in F /\ o \in O) /\ \E r \in records : Covers(r, f, o, b)
    <3>1. PICK r \in records : Covers(r, f, o, b)
      BY <2>2
    <3>2. r \in records'
      BY <2>2, <3>1 DEF Covers
    <3> QED BY <2>2, <3>1, <3>2, <1>1, ModeOfCover
  <2>3. CASE ~ (f \in F /\ o \in O) /\ ~ \E r \in records : Covers(r, f, o, b)
    BY <2>3 DEF ModeAt
  <2> QED BY <2>1, <2>2, <2>3
<1>3. heldMap' = [f \in Files |-> [o \in Owners |-> [b \in 0 .. MaxOffset |->
                     IF f \in F /\ o \in O THEN "None" ELSE heldMap[f][o][b]]]]
  BY <1>2 DEF heldMap
<1>4. ASSUME Map!Weakened(heldMap, heldMap') PROVE wake'
  <2>1. heldMap' # heldMap
    BY <1>4 DEF Map!Weakened, Map!Weaker
  <2> QED BY <2>1 DEF heldMap
<1>5. Map!Announce
  BY <1>4 DEF Map!Announce
<1>6. Map!Drop(F, O)
  BY <1>3, <1>5 DEF Map!Drop, Map!Bytes
<1> QED BY <1>6 DEF Map!MapNext

LEMMA MapStep ==
    ASSUME IInv, [Next]_vars
    PROVE  [Map!MapNext]_<<heldMap, wake>>
<1>0. Table(records) /\ wake \in BOOLEAN
  BY DEF IInv, GoodTable
<1>1. ASSUME NEW file \in Files, NEW owner \in ByteRangeOwners, NEW type \in RequestTypes,
             NEW start \in Offsets, NEW len \in Lengths, Fcntl(file, owner, type, start, len)
      PROVE  Map!MapNext
  <2> DEFINE req == Normalize(start, len)
  <2>1. req \in Ranges
    BY <1>1, NormalizeInRange, LockConstants DEF Fcntl, Offsets, Lengths
  <2> HIDE DEF req
  <2>2. /\ SetLockError(records, file, owner, type, req) = "OK"
        /\ records' = Applied(records, file, owner, type, req)
        /\ wake' = (wake \/ SetLockMayUnblock(records, file, owner, type, req))
    BY <1>1 DEF Fcntl, SetLockRecords, req
  <2> QED BY <1>0, <2>1, <2>2, OwnerKinds, ChangeStep
<1>2. ASSUME NEW file \in Files, NEW ofd \in Ofds, NEW type \in LockTypes,
             FlockConvert(file, ofd, type)
      PROVE  Map!MapNext
  <2> DEFINE owner == FlockOwner(ofd)
             dropped == RemoveFileOwner(records, file, owner)
             new == Applied(dropped, file, owner, type, WholeFile)
  <2>0. owner \in Owners
    BY OwnerKinds
  <2>1. dropped = Without(records, {file}, {owner})
    BY DEF RemoveFileOwner, Own, Without
  <2>2. CASE SetLockError(dropped, file, owner, type, WholeFile) # "OK"
    <3>1. records' = dropped /\ wake' = (wake \/ dropped # records)
      BY <1>2, <2>2 DEF FlockConvert, SetLockRecords
    <3> QED BY <3>1, <2>0, <2>1, <1>0, DropStep
  <2>3. CASE SetLockError(dropped, file, owner, type, WholeFile) = "OK"
    <3>1. records' = new /\ wake' = (wake \/ dropped # records)
      BY <1>2, <2>3 DEF FlockConvert, SetLockRecords
    <3>2. Table(dropped)
      BY <1>0, <2>1 DEF Table, Normalized, Without
    <3>3. Request(dropped, file, owner, type, WholeFile)
      BY <2>0, <2>3, WholeFileInRanges DEF SetLockError, Request
    <3> HIDE DEF owner, dropped
    <3>4. \A f, o : \A b \in 0 .. MaxOffset :
             ModeAt(records', f, o, b) =
                 IF f = file /\ o = owner /\ b \in 0 .. MaxOffset THEN type
                 ELSE ModeAt(dropped, f, o, b)
      BY <3>1, <3>2, <3>3, AppliedMode, LockConstants DEF WholeFile, Eof, LockTypes
    <3>5. ASSUME NEW f \in Files, NEW o \in Owners, NEW b \in 0 .. MaxOffset,
                 ~ (f = file /\ o = owner)
          PROVE  ModeAt(dropped, f, o, b) = ModeAt(records, f, o, b)
      <4>1. CASE \E r \in records : Covers(r, f, o, b)
        <5>1. PICK r \in records : Covers(r, f, o, b)
          BY <4>1
        <5>2. r \in dropped
          BY <5>1, <3>5, <2>1 DEF Covers, Without
        <5> QED BY <5>1, <5>2, <3>2, <1>0, ModeOfCover
      <4>2. CASE ~ \E r \in records : Covers(r, f, o, b)
        BY <4>2, <2>1 DEF ModeAt, Without
      <4> QED BY <4>1, <4>2
    <3>6. heldMap' = [f \in Files |-> [o \in Owners |-> [b \in 0 .. MaxOffset |->
                         IF f = file /\ o = owner /\ b \in 0 .. MaxOffset THEN type
                         ELSE heldMap[f][o][b]]]]
      BY <3>4, <3>5 DEF heldMap
    <3>7. ASSUME NEW p \in Owners, NEW b \in 0 .. MaxOffset, p # owner,
                 SameNamespace(owner, p), Map!Excludes(type, heldMap[file][p][b])
          PROVE  FALSE
      <4>1. heldMap[file][p][b] = ModeAt(dropped, file, p, b)
        BY <3>5, <3>7 DEF heldMap
      <4>2. PICK r \in dropped : Covers(r, file, p, b)
        BY <4>1, <3>7 DEF Map!Excludes, ModeAt
      <4>3. ModeAt(dropped, file, p, b) = r.type
        BY <4>2, <3>2, ModeOfCover
      <4>4. type = "Write" \/ r.type = "Write"
        BY <3>7, <4>1, <4>3 DEF Map!Excludes
      <4>5. r.start \in Nat /\ r.end \in Nat /\ MaxOffset \in Nat
        BY <3>2, LockConstants DEF Table, Records, Eof
      <4>6. Blocks(r, file, owner, type, WholeFile)
        BY <4>2, <4>4, <4>5, <3>7 DEF Blocks, Covers, SameNamespace, Overlaps, WholeFile, Eof
      <4>7. type # "Unlock"
        BY DEF LockTypes
      <4> QED BY <4>6, <4>7, <3>3 DEF Request, Blocked
    <3>8. ASSUME Map!Weakened(heldMap, heldMap') PROVE wake'
      <4>1. PICK f \in Files, o \in Owners, b \in 0 .. MaxOffset :
               Map!Weaker(heldMap[f][o][b], heldMap'[f][o][b])
        BY <3>8 DEF Map!Weakened, Map!Bytes
      <4>2. f = file /\ o = owner
        BY <4>1, <3>6 DEF Map!Weaker
      <4>3. ModeAt(records, file, owner, b) # "None"
        BY <4>1, <4>2 DEF Map!Weaker, heldMap
      <4>4. PICK r \in records : Covers(r, file, owner, b)
        BY <4>3 DEF ModeAt
      <4>5. r \notin dropped
        BY <4>4, <2>1 DEF Covers, Without
      <4> QED BY <4>5, <3>1
    <3>9. Map!Announce
      BY <3>1, <3>8, <1>0 DEF Map!Announce
    <3>10. Map!Change(file, owner, type, 0, MaxOffset)
      BY <3>6, <3>7, <3>9 DEF Map!Change, Map!Bytes
    <3>11. type \in Map!Modes /\ 0 \in Map!Bytes /\ MaxOffset \in Map!Bytes
      BY LockConstants DEF LockTypes, Map!Modes, Map!Bytes
    <3> QED BY <2>0, <3>10, <3>11 DEF Map!MapNext
  <2> QED BY <2>2, <2>3
<1>3. ASSUME NEW file \in Files, NEW ofd \in Ofds, FlockUnlock(file, ofd)
      PROVE  [Map!MapNext]_<<heldMap, wake>>
  <2> DEFINE owner == FlockOwner(ofd)
  <2>0. owner \in Owners
    BY OwnerKinds
  <2>1. CASE SetLockError(records, file, owner, "Unlock", WholeFile) = "OK"
    <3>1. /\ records' = Applied(records, file, owner, "Unlock", WholeFile)
          /\ wake' = (wake \/ SetLockMayUnblock(records, file, owner, "Unlock", WholeFile))
      BY <1>3, <2>1 DEF FlockUnlock, SetLockRecords
    <3> QED BY <1>0, <2>0, <2>1, <3>1, ChangeStep, WholeFileInRanges DEF RequestTypes
  <2>2. CASE SetLockError(records, file, owner, "Unlock", WholeFile) # "OK"
    <3>1. records' = records /\ wake' = wake
      BY <1>3, <2>2, <1>0 DEF FlockUnlock, SetLockRecords, SetLockMayUnblock
    <3> QED BY <3>1 DEF heldMap
  <2> QED BY <2>1, <2>2
<1>4. ASSUME NEW pid \in Procs, NEW file \in Files, CloseFile(pid, file)
      PROVE  Map!MapNext
  <2>1. records' = Without(records, {file}, {ProcessOwner(pid)})
    BY <1>4 DEF Without, CloseFile, RemoveTo, RemoveFileOwner, Own
  <2>2. wake' = (wake \/ records' # records)
    BY <1>4 DEF CloseFile, RemoveTo
  <2>3. ProcessOwner(pid) \in Owners
    BY DEF Owners
  <2> QED BY <2>1, <2>2, <2>3, <1>0, DropStep
<1>5. ASSUME NEW pid \in Procs, ExitProcess(pid) PROVE Map!MapNext
  <2>1. records' = Without(records, Files, {ProcessOwner(pid)})
    BY <1>5, <1>0 DEF Without, ExitProcess, RemoveTo, RemoveProcess, Table, Records
  <2>2. wake' = (wake \/ records' # records)
    BY <1>5 DEF ExitProcess, RemoveTo
  <2>3. ProcessOwner(pid) \in Owners
    BY DEF Owners
  <2> QED BY <2>1, <2>2, <2>3, <1>0, DropStep
<1>6. ASSUME NEW ofd \in Ofds, FinalClose(ofd) PROVE Map!MapNext
  <2>1. records' = Without(records, Files, {OfdOwner(ofd), FlockOwner(ofd)})
    BY <1>6, <1>0 DEF Without, FinalClose, RemoveTo, RemoveOfd, Table, Records
  <2>2. wake' = (wake \/ records' # records)
    BY <1>6 DEF FinalClose, RemoveTo
  <2>3. OfdOwner(ofd) \in Owners /\ FlockOwner(ofd) \in Owners
    BY DEF Owners
  <2> QED BY <2>1, <2>2, <2>3, <1>0, DropStep
<1>7. CASE DrainWake
  BY <1>7 DEF DrainWake, Map!MapNext, Map!Deliver, heldMap
<1>8. CASE UNCHANGED vars
  BY <1>8 DEF vars, heldMap
<1> QED BY <1>1, <1>2, <1>3, <1>4, <1>5, <1>6, <1>7, <1>8 DEF Next

(* Splitting and merging records implements the byte-by-byte lock map. *)
THEOREM Refinement == Spec => ImplementsMap
<1>1. Init => Map!MapInit
  BY DEF Init, Map!MapInit, Map!Bytes, heldMap, ModeAt
<1>2. IInv /\ [Next]_vars => [Map!MapNext]_Map!mapVars
  BY MapStep DEF Map!mapVars
<1> QED BY <1>1, <1>2, Inductive, PTL DEF Spec, ImplementsMap, Map!MapSpec
=============================================================================
