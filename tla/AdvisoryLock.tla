---------------------------- MODULE AdvisoryLock ----------------------------
(***************************************************************************)
(* The machine-wide advisory lock table as a state machine: one action per  *)
(* kernel operation that changes it (fcntl, flock, close, exit, last close  *)
(* of an open file description) and the host's drain of the wake-up that    *)
(* those operations publish.  The callers are unconstrained here: any       *)
(* process or description may ask for anything at any time.  FileLocks      *)
(* adds the descriptors and the parked waiters.                             *)
(***************************************************************************)
EXTENDS LockManager

VARIABLES
    records,        \* AdvisoryLockManager.records
    wake            \* an ADVISORY_LOCK event is queued in wakeup.rs

vars == <<records, wake>>

Init == records = {} /\ wake = FALSE

(* Values an l_start or l_len may take: every boundary of a range of the     *)
(* instance and one beyond it on both sides.                                 *)
Offsets == -1 .. MaxOffset
Lengths == (-(MaxOffset + 1)) .. MaxOffset

RequestTypes == LockTypes \cup {"Unlock"}

ByteRangeOwners == {o \in Owners : o.kind # "Flock"}

(* sys_fcntl_lock_with_owner for F_SETLK and F_SETLKW.  A request that fails *)
(* (bad range, conflict, full table) changes nothing.                        *)
Fcntl(file, owner, type, start, len) ==
    LET req == Normalize(start, len)
    IN  /\ NormalizeOk(start, len)
        /\ SetLockError(records, file, owner, type, req) = "OK"
        /\ records' = SetLockRecords(records, file, owner, type, req)
        /\ wake' = (wake \/ SetLockMayUnblock(records, file, owner, type, req))

(* sys_flock.  Asking for the mode already held returns at once.  A          *)
(* conversion first gives up the old mode and announces it, then tries for   *)
(* the new one, and stays without a lock when that conflicts.                *)
FlockConvert(file, ofd, type) ==
    LET owner   == FlockOwner(ofd)
        dropped == RemoveFileOwner(records, file, owner)
    IN  /\ FlockType(records, file, ofd) # type
        /\ records' = SetLockRecords(dropped, file, owner, type, WholeFile)
        /\ wake' = (wake \/ dropped # records)

FlockUnlock(file, ofd) ==
    /\ records' = SetLockRecords(records, file, FlockOwner(ofd), "Unlock", WholeFile)
    /\ wake' = (wake \/ SetLockMayUnblock(records, file, FlockOwner(ofd),
                                          "Unlock", WholeFile))

(* Publish the removal of some records. *)
RemoveTo(recs) == records' = recs /\ wake' = (wake \/ recs # records)

(* close() of any descriptor of the file by the process. *)
CloseFile(pid, file) == RemoveTo(RemoveFileOwner(records, file, ProcessOwner(pid)))

(* Exit or crash of the process. *)
ExitProcess(pid) == RemoveTo(RemoveProcess(records, pid))

(* The last reference to the open file description goes away. *)
FinalClose(ofd) == RemoveTo(RemoveOfd(records, ofd))

(* The host drains the wake-up buffer and retries the parked requests. *)
DrainWake == wake /\ wake' = FALSE /\ UNCHANGED records

Next ==
    \/ \E file \in Files, owner \in ByteRangeOwners, type \in RequestTypes,
          start \in Offsets, len \in Lengths : Fcntl(file, owner, type, start, len)
    \/ \E file \in Files, ofd \in Ofds, type \in LockTypes :
          FlockConvert(file, ofd, type)
    \/ \E file \in Files, ofd \in Ofds : FlockUnlock(file, ofd)
    \/ \E pid \in Procs, file \in Files : CloseFile(pid, file)
    \/ \E pid \in Procs : ExitProcess(pid)
    \/ \E ofd \in Ofds : FinalClose(ofd)
    \/ DrainWake

Spec == Init /\ [][Next]_vars

-----------------------------------------------------------------------------
(* Properties *)

(* Every stored record names a real file, owner and type and a non-empty     *)
(* range.                                                                    *)
TypeOK ==
    /\ records \subseteq Records
    /\ IsFiniteSet(records)
    /\ wake \in BOOLEAN

(* set_lock's "records belonging to one owner never overlap" (lock.rs:281),  *)
(* which its fragment logic relies on: after any sequence of splits, merges  *)
(* and removals the records of one owner on one file are disjoint, and       *)
(* neighbours of one type have been merged.                                  *)
TableNormalized == Normalized(records)

(* Mutual exclusion: no byte is write-locked by one owner and locked by      *)
(* another of the same namespace.                                            *)
MutualExclusion == Exclusive(records)

(* The flock mode of a description on a file is unambiguous: one record over *)
(* the whole file (the claim in flock_type's comment).                       *)
FlockWholeFile ==
    \A r \in records : r.owner.kind = "Flock" =>
        /\ r.start = 0 /\ r.end = Eof
        /\ \A s \in records : s.file = r.file /\ s.owner = r.owner => s = r

(* The table never grows past MAX_ADVISORY_LOCK_RECORDS, although one        *)
(* request can turn one record into three.                                   *)
WithinCapacity == Cardinality(records) <= MaxRecords

(* What every operation of lock.rs may rely on when it finds the table. *)
TableSound == TypeOK /\ TableNormalized /\ FlockWholeFile /\ WithinCapacity

(* No wake-up is lost at the source: a step that turns a request somebody    *)
(* could be parked on from blocked to grantable leaves an event queued.      *)
UnblockAnnounced ==
    [][\A file \in Files, owner \in Owners, type \in LockTypes, req \in Ranges :
          /\ Blocked(records, file, owner, type, req)
          /\ ~ Blocked(records', file, owner, type, req)
          => wake']_vars

-----------------------------------------------------------------------------
(* The record table implements the byte map. *)

heldMap == [f \in Files |-> [o \in Owners |-> [b \in 0 .. MaxOffset |->
               ModeAt(records, f, o, b)]]]

Map == INSTANCE LockMap WITH held <- heldMap, SameSpace <- SameNamespace

(* Splitting, merging and coalescing records changes exactly the requested   *)
(* bytes of the requesting owner, is only granted without a conflicting      *)
(* byte, and announces every weakening.                                      *)
ImplementsMap == Map!MapSpec
=============================================================================
