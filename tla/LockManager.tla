---------------------------- MODULE LockManager ----------------------------
(***************************************************************************)
(* The advisory-lock record algebra of crates/kernel/src/lock.rs: ranges,   *)
(* conflicts, and what one call of AdvisoryLockManager does to the record   *)
(* table.  Only constant-level operators live here; the modules that own a  *)
(* record table (AdvisoryLock, FileLocks) apply them to their state.        *)
(*                                                                          *)
(* The sorted Vec of the code is a set: records of one owner on one file    *)
(* never overlap (Normalized below), so no two entries are equal and the    *)
(* order only serves the binary search.                                     *)
(***************************************************************************)
EXTENDS Integers, FiniteSets

CONSTANTS
    Files,          \* FileId
    Procs,          \* pids that may own Process locks
    Ofds,           \* OfdId of open file descriptions
    MaxOffset,      \* i64::MAX
    MaxRecords      \* MAX_ADVISORY_LOCK_RECORDS

ASSUME LockConstants ==
    /\ MaxOffset \in Nat \ {0}
    /\ MaxRecords \in Nat

-----------------------------------------------------------------------------
(* Owners.  A Process owner and an OpenFileDescription owner share the byte- *)
(* range namespace; a Flock owner only meets other Flock owners.             *)

ProcessOwner(p) == [kind |-> "Process", id |-> p]
OfdOwner(d)     == [kind |-> "Ofd", id |-> d]
FlockOwner(d)   == [kind |-> "Flock", id |-> d]

Owners == {ProcessOwner(p) : p \in Procs} \cup {OfdOwner(d) : d \in Ofds}
            \cup {FlockOwner(d) : d \in Ofds}

SameNamespace(o1, o2) == (o1.kind = "Flock") <=> (o2.kind = "Flock")

LockTypes == {"Read", "Write"}

-----------------------------------------------------------------------------
(* Ranges: half open, non-empty.  LockRangeEnd::Eof sorts after every offset *)
(* and is the end MaxOffset + 1, so the derived Ord of the enum is <.        *)

Eof == MaxOffset + 1

Ranges == {r \in [start : 0 .. MaxOffset, end : 1 .. Eof] : r.start < r.end}

WholeFile == [start |-> 0, end |-> Eof]

(* LockRange::normalize rejects a negative start (EINVAL), a sum beyond      *)
(* i64::MAX (EOVERFLOW) and a sum below zero (EINVAL).                       *)
NormalizeOk(start, len) == start >= 0 /\ start + len \in 0 .. MaxOffset

Normalize(start, len) ==
    IF len = 0 THEN [start |-> start, end |-> Eof]
    ELSE IF len > 0 THEN [start |-> start, end |-> start + len]
    ELSE [start |-> start + len, end |-> start]

Overlaps(a, b) == a.end > b.start /\ a.start < b.end

TouchesOrOverlaps(a, b) == a.start <= b.end /\ b.start <= a.end

Contains(a, b) == a.start <= b.start /\ b.end <= a.end

-----------------------------------------------------------------------------
(* Records *)

Records == {r \in [file : Files, owner : Owners, type : LockTypes,
                   start : 0 .. MaxOffset, end : 1 .. Eof] : r.start < r.end}

(* As if only a held write lock could conflict. *)
BlocksWriteHeld(r, file, owner, type, range) ==
    /\ r.file = file
    /\ r.owner # owner
    /\ SameNamespace(r.owner, owner)
    /\ Overlaps(r, range)
    /\ r.type = "Write"

(* get_blocking_lock, and the conflict test of set_lock. *)
Blocks(r, file, owner, type, range) ==
    /\ r.file = file
    /\ r.owner # owner
    /\ SameNamespace(r.owner, owner)
    /\ Overlaps(r, range)
    /\ r.type = "Write" \/ type = "Write"

Blocked(recs, file, owner, type, range) ==
    \E r \in recs : Blocks(r, file, owner, type, range)

Own(recs, file, owner) == {r \in recs : r.file = file /\ r.owner = owner}

(* flock_type *)
FlockType(recs, file, ofd) ==
    IF Own(recs, file, FlockOwner(ofd)) = {} THEN "None"
    ELSE (CHOOSE r \in Own(recs, file, FlockOwner(ofd)) : TRUE).type

-----------------------------------------------------------------------------
(* set_lock.  The type "Unlock" is the code's None.  own is the slice of the *)
(* owner's records on the file, req the requested range.                     *)

(* What is left of an overlapped record before and after the request when    *)
(* it is not of the requested type (one of the same type merges instead).    *)
LeftFragments(own, type, req) ==
    {[r EXCEPT !.end = req.start] :
        r \in {s \in own : Overlaps(s, req) /\ s.start < req.start /\ s.type # type}}

(* As if the part of a record after the request were forgotten. *)
RightFragmentsLost(own, type, req) == {}

RightFragments(own, type, req) ==
    {[r EXCEPT !.start = req.end] :
        r \in {s \in own : Overlaps(s, req) /\ req.end < s.end /\ s.type # type}}

(* The coalescing loop runs until no record of the requested type touches    *)
(* the merged range without lying inside it: it computes the least range     *)
(* that contains the request and has that closure property.                  *)
Coalesced(own, type, req, m) ==
    /\ Contains(m, req)
    /\ \A r \in own : r.type = type /\ TouchesOrOverlaps(r, m) => Contains(m, r)

MergedRange(own, type, req) ==
    CHOOSE m \in Ranges :
        /\ Coalesced(own, type, req, m)
        /\ \A n \in Ranges : Coalesced(own, type, req, n) => Contains(n, m)

(* As if a touching neighbour of the same type were left in place. *)
RemovedOverlapping(own, type, req) == {r \in own : Overlaps(r, req)}

(* should_remove *)
Removed(own, type, req) ==
    {r \in own : \/ Overlaps(r, req)
                 \/ /\ r.type = type
                    /\ TouchesOrOverlaps(r, MergedRange(own, type, req))}

Replacement(own, file, owner, type, req) ==
    IF type = "Unlock" THEN {}
    ELSE LET m == MergedRange(own, type, req)
         IN  {[file |-> file, owner |-> owner, type |-> type,
               start |-> m.start, end |-> m.end]}

Pieces(own, file, owner, type, req) ==
    LeftFragments(own, type, req) \cup Replacement(own, file, owner, type, req)
        \cup RightFragments(own, type, req)

(* The table after an accepted request. *)
Applied(recs, file, owner, type, req) ==
    LET own == Own(recs, file, owner)
    IN  (recs \ Removed(own, type, req)) \cup Pieces(own, file, owner, type, req)

(* Two early returns leave the table as it is: nothing to unlock, and a      *)
(* request already covered by one record of its type.                        *)
NoOp(recs, file, owner, type, req) ==
    LET own == Own(recs, file, owner)
        removed == Removed(own, type, req)
    IN  \/ type = "Unlock" /\ removed = {}
        \/ type # "Unlock" /\ removed = Replacement(own, file, owner, type, req)

(* The error of set_lock: a conflict comes before exhaustion of the table.   *)
SetLockError(recs, file, owner, type, req) ==
    IF type # "Unlock" /\ Blocked(recs, file, owner, type, req) THEN "EAGAIN"
    ELSE IF /\ ~ NoOp(recs, file, owner, type, req)
            /\ Cardinality(Applied(recs, file, owner, type, req)) > MaxRecords
         THEN "ENOLCK"
    ELSE "OK"

SetLockRecords(recs, file, owner, type, req) ==
    IF SetLockError(recs, file, owner, type, req) = "OK"
    THEN Applied(recs, file, owner, type, req)
    ELSE recs

(* As if only an unlock could let somebody in, and not a downgrade. *)
SetLockMayUnblockOnUnlock(recs, file, owner, type, req) ==
    type = "Unlock" /\ ~ NoOp(recs, file, owner, type, req)

(* LockMutation.may_unblock: an unlock that removed something, or a record   *)
(* whose type changed.                                                       *)
SetLockMayUnblock(recs, file, owner, type, req) ==
    LET own == Own(recs, file, owner)
    IN  /\ SetLockError(recs, file, owner, type, req) = "OK"
        /\ ~ NoOp(recs, file, owner, type, req)
        /\ \/ type = "Unlock"
           \/ \E r \in own : Overlaps(r, req) /\ r.type # type

-----------------------------------------------------------------------------
(* Removal: remove_file_owner, remove_process, remove_ofd.  Each reports     *)
(* may_unblock exactly when it removed a record.                             *)

RemoveFileOwner(recs, file, owner) == recs \ Own(recs, file, owner)

RemoveProcess(recs, pid) == {r \in recs : r.owner # ProcessOwner(pid)}

RemoveOfd(recs, ofd) ==
    {r \in recs : r.owner # OfdOwner(ofd) /\ r.owner # FlockOwner(ofd)}

(* The lock an owner holds on byte b. *)
Covers(r, file, owner, b) ==
    r.file = file /\ r.owner = owner /\ r.start <= b /\ b < r.end

ModeAt(recs, file, owner, b) ==
    IF \E r \in recs : Covers(r, file, owner, b)
    THEN (CHOOSE r \in recs : Covers(r, file, owner, b)).type
    ELSE "None"

-----------------------------------------------------------------------------
(* Shape of a record table that the manager keeps. *)

(* The records of one owner on one file are disjoint, and two of the same    *)
(* type never touch.                                                         *)
Normalized(recs) ==
    \A r, s \in recs :
        r.file = s.file /\ r.owner = s.owner /\ r # s =>
            /\ ~ Overlaps(r, s)
            /\ r.type = s.type => ~ TouchesOrOverlaps(r, s)

(* No two owners of one namespace hold conflicting locks on a byte. *)
Exclusive(recs) ==
    \A r, s \in recs :
        r.file = s.file /\ r.owner # s.owner /\ SameNamespace(r.owner, s.owner)
            /\ Overlaps(r, s) => r.type = "Read" /\ s.type = "Read"
=============================================================================
