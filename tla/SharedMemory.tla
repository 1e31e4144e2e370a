---------------------------- MODULE SharedMemory ----------------------------
(***************************************************************************)
(* One shared object, an anonymous MAP_SHARED backing or a System V         *)
(* segment, and the processes that map it (host/src/kernel-worker.ts, with  *)
(* the segment's bytes and attach count in crates/kernel/src/ipc.rs).       *)
(* Processes have separate memories: each has a private copy and a snapshot *)
(* of what it last saw.  At every system call the host publishes the bytes  *)
(* that differ from the snapshot and imports the backing if another mapping *)
(* published since.                                                         *)
(*                                                                          *)
(* Programs are assumed to lock: a process stores to a cell only while it   *)
(* holds the cell's lock, and taking and giving up a lock are system calls. *)
(* The host's handlers run one at a time; programs' stores run in parallel  *)
(* with them.  Versions only grow and are only compared with a mapping's    *)
(* seenVersion, so that a mapping records whether the two are equal.        *)
(***************************************************************************)
EXTENDS Integers, FiniteSets

CONSTANTS
    Procs, First,   \* processes, and the one that runs at the start
    NoProc,
    Cells, Values,  \* offsets of the object, and what can be stored there
    Kinds           \* kinds of object considered: "anonymous", "sysv"

ASSUME SharedMemoryConstants ==
    /\ IsFiniteSet(Procs) /\ First \in Procs /\ NoProc \notin Procs /\ 0 \in Values
    /\ Kinds \subseteq {"anonymous", "sysv"}

VARIABLES
    kind,           \* which of the two the object is
    state,          \* "none", "there", or "removed" (IPC_RMID, last unmap)
    bytes,          \* the authoritative bytes
    count,          \* refCount of the backing, nattch of the segment
    map,            \* process -> its mapping, or Unmapped
    proc,           \* process -> "none", "live", "dead"
    shmat,          \* the shmat call whose refresh of its peers is under way
    killed,         \* history: processes that a signal killed inside a shmat
    lock,           \* cell -> the process that holds its lock
    truth,          \* history: cell -> the value stored last
    spoilt          \* history: a step that is known to lose a store was taken

object == <<state, bytes, count>>
vars == <<kind, object, map, proc, shmat, killed, lock, truth, spoilt>>

Zero == [c \in Cells |-> 0]
Unmapped == [mapped |-> FALSE]
Mapping(ro) ==
    [mapped |-> TRUE, readOnly |-> ro, mem |-> bytes, snapshot |-> bytes, seen |-> TRUE]
NoShmat == [p |-> NoProc, ro |-> FALSE, todo |-> {}, torn |-> {}]

Mapped(p) == map[p].mapped
Mappers == {p \in Procs : Mapped(p)}
Peers(p) == Mappers \ {p}
Calls(p) == proc[p] = "live" /\ shmat = NoShmat

-----------------------------------------------------------------------------
(* Publishing and importing.  A view is what the    *)
(* host works on: the backing's bytes, all mappings, and the processes whose *)
(* memory it has overwritten.                                                *)

Changed(m, c) == ~ m.readOnly /\ m.mem[c] # m.snapshot[c]
Dirty(m) == \E c \in Cells : Changed(m, c)

Merged(b, m) == [c \in Cells |-> IF Changed(m, c) THEN m.mem[c] ELSE b[c]]

(* Peers that have not seen what p publishes. *)
Overtaken(v, p) ==
    [q \in Procs |-> IF q # p /\ v.map[q].mapped /\ Dirty(v.map[p])
                     THEN [v.map[q] EXCEPT !.seen = FALSE] ELSE v.map[q]]

(* As if a publisher took the new version without importing what it had not  *)
(* seen.                                                                     *)
PublishedOnly(v, p) ==
    LET m == v.map[p]
    IN  [v EXCEPT !.bytes = Merged(v.bytes, m),
                  !.map = [Overtaken(v, p) EXCEPT
                             ![p].snapshot = m.mem, ![p].seen = TRUE]]

(* Publish what p changed, then import all of the backing. *)
MergedAndRefreshed(v, p) ==
    LET latest == Merged(v.bytes, v.map[p])
    IN  IF ~ Dirty(v.map[p]) /\ v.map[p].seen THEN v
        ELSE [bytes |-> latest, refreshed |-> v.refreshed \cup {p},
              map |-> [Overtaken(v, p) EXCEPT
                         ![p].mem = latest, ![p].snapshot = latest, ![p].seen = TRUE]]

(* As if a mapping without peers was never synchronised, stale or not. *)
SharedOnly(p) == count > 1

(* An ordinary boundary skips a mapping nobody else has: an anonymous one    *)
(* only if it is current, a segment's always.                                *)
Scanned(p) ==
    CASE kind = "anonymous" -> count > 1 \/ ~ map[p].seen
      [] kind = "sysv" -> Peers(p) # {}

View == [bytes |-> bytes, map |-> map, refreshed |-> {}]

(* Merging fails only when the segment was removed, and then does nothing. *)
Forced(p) == IF Mapped(p) /\ state = "there" THEN MergedAndRefreshed(View, p) ELSE View
Boundary(p) == IF Mapped(p) /\ Scanned(p) THEN Forced(p) ELSE View

(* EIO: what is to be merged or imported cannot be. *)
Fails(p) == Mapped(p) /\ state = "removed" /\ (Dirty(map[p]) \/ ~ map[p].seen)

-----------------------------------------------------------------------------
(* Programs *)

(* The value stored last is of interest until a store is lost. *)
Spoils(lost, latest) ==
    /\ spoilt' = (spoilt \/ lost)
    /\ truth' = IF spoilt \/ lost THEN Zero ELSE latest

(* A store to private memory; it may fall between the scan and the refresh   *)
(* that another process's shmat does of this memory.                         *)
Store(p, c, v) ==
    /\ proc[p] = "live" /\ Mapped(p) /\ ~ map[p].readOnly
    /\ lock[c] = p /\ shmat.p # p
    /\ map' = [map EXCEPT ![p].mem[c] = v]
    /\ Spoils(p \in shmat.torn, [truth EXCEPT ![c] = v])
    /\ UNCHANGED <<kind, object, proc, shmat, killed, lock>>

(* A segment's only mapping is not refreshed: what its last peer published   *)
(* is not seen.                                                              *)
Blind(p) == kind = "sysv" /\ Mapped(p) /\ ~ map[p].seen /\ Peers(p) = {}

SystemCall(p) ==
    /\ Calls(p)
    /\ bytes' = Boundary(p).bytes /\ map' = Boundary(p).map
    /\ UNCHANGED <<kind, state, count, proc, shmat, killed>>

Acquire(p, c) ==
    /\ SystemCall(p) /\ Mapped(p) /\ lock[c] = NoProc
    /\ lock' = [lock EXCEPT ![c] = p]
    /\ Spoils(Blind(p), truth)

Release(p, c) ==
    /\ SystemCall(p) /\ lock[c] = p
    /\ lock' = [lock EXCEPT ![c] = NoProc]
    /\ UNCHANGED <<truth, spoilt>>

(* Any other call, and each retry of a blocked one. *)
OtherCall(p) == SystemCall(p) /\ Boundary(p) # View /\ UNCHANGED <<lock, truth, spoilt>>

-----------------------------------------------------------------------------
(* Creating and mapping *)

(* mmap(MAP_SHARED | MAP_ANONYMOUS) *)
MmapShared(p) ==
    /\ Calls(p) /\ kind = "anonymous" /\ state = "none"
    /\ state' = "there" /\ count' = 1
    /\ map' = [map EXCEPT ![p] = Mapping(FALSE)]
    /\ UNCHANGED <<kind, bytes, proc, shmat, killed, lock, truth, spoilt>>

shmget(p) ==
    /\ Calls(p) /\ kind = "sysv" /\ state = "none"
    /\ state' = "there"
    /\ UNCHANGED <<kind, bytes, count, map, proc, shmat, killed, lock, truth, spoilt>>

(* Every process that has the segment attached is brought up to date before  *)
(* a new observer reads it, while all of them run.                           *)
ShmatBegin(p, ro) ==
    /\ Calls(p) /\ kind = "sysv" /\ ~ Mapped(p) /\ state = "there"
    /\ shmat' = [p |-> p, ro |-> ro, todo |-> Mappers, torn |-> {}]
    /\ UNCHANGED <<kind, object, map, proc, killed, lock, truth, spoilt>>

(* One of them, in the order of the host's map: its memory is compared and   *)
(* what it changed is published,                                             *)
ShmatScan(q) ==
    /\ q \in shmat.todo /\ shmat.torn = {}
    /\ LET v == MergedAndRefreshed(View, q)
       IN  /\ bytes' = v.bytes
           /\ map' = [v.map EXCEPT ![q].mem = map[q].mem]
           /\ shmat' = [shmat EXCEPT !.todo = @ \ {q}, !.torn = v.refreshed]
    /\ UNCHANGED <<kind, state, count, proc, killed, lock, truth, spoilt>>

(* and the memory is overwritten with the latest bytes. *)
ShmatRefresh(q) ==
    /\ q \in shmat.torn
    /\ map' = [map EXCEPT ![q].mem = map[q].snapshot]
    /\ shmat' = [shmat EXCEPT !.torn = {}]
    /\ UNCHANGED <<kind, object, proc, killed, lock, truth, spoilt>>

(* The kernel counts the attachment, and a private mapping is made by a      *)
(* system call in the process's name.  If that fails (no room, or not at the *)
(* address asked for) the attachment is undone.                              *)
ShmatEnd(ok) ==
    /\ shmat # NoShmat /\ shmat.todo = {} /\ shmat.torn = {}
    /\ map' = IF ok THEN [map EXCEPT ![shmat.p] = Mapping(shmat.ro)] ELSE map
    /\ count' = IF ok THEN count + 1 ELSE count
    /\ shmat' = NoShmat
    /\ UNCHANGED <<kind, state, bytes, proc, killed, lock, truth, spoilt>>

(* The same call may deliver a signal that ends the process, as may the      *)
(* unmapping that undoes it.  The handler then returns at once: nobody takes *)
(* back what the kernel counted, and there is no mapping to detach.          *)
ShmatKilled ==
    /\ shmat # NoShmat /\ shmat.todo = {} /\ shmat.torn = {}
    /\ count' = count + 1
    /\ proc' = [proc EXCEPT ![shmat.p] = "dead"]
    /\ killed' = killed \cup {shmat.p}
    /\ shmat' = NoShmat
    /\ UNCHANGED <<kind, state, bytes, map, lock, truth, spoilt>>

-----------------------------------------------------------------------------
(* Unmapping *)

NoLocks(p) == \A c \in Cells : lock[c] # p

(* shmdt publishes whether or not there are peers; munmap relies on its      *)
(* system-call boundary.                                                     *)
BeforeDetach(p) == IF kind = "sysv" THEN Forced(p) ELSE Boundary(p)

(* The mapping goes, and the object with the last mapping of a backing.      *)
Detached(p, v) ==
    /\ bytes' = v.bytes /\ map' = [v.map EXCEPT ![p] = Unmapped]
    /\ count' = IF Mapped(p) /\ state = "there" THEN count - 1 ELSE count
    /\ state' = IF kind = "anonymous" /\ Mapped(p) /\ count = 1 THEN "removed" ELSE state

(* EIO or EINVAL, and the mapping stays, once the segment was removed. *)
Unmap(p) ==
    /\ Calls(p) /\ Mapped(p) /\ NoLocks(p) /\ state = "there"
    /\ Detached(p, BeforeDetach(p))
    /\ UNCHANGED <<kind, proc, shmat, killed, lock, truth, spoilt>>

(* shmctl(IPC_RMID) removes the segment at once, attached or not. *)
shmctl_rmid(p) ==
    /\ Calls(p) /\ kind = "sysv" /\ state = "there"
    /\ state' = "removed"
    /\ UNCHANGED <<kind, bytes, count, map, proc, shmat, killed, lock, truth, spoilt>>

-----------------------------------------------------------------------------
(* Fork, exec and exit publish first, peers or not. *)

(* As if the child was counted by nobody. *)
UncountedChild(p) == count

ChildCount(p) == IF Mapped(p) THEN count + 1 ELSE count

(* The child maps what the parent maps, at its latest bytes.  Fork fails if  *)
(* the parent's segment was removed.                                         *)
Fork(p, child) ==
    /\ Calls(p) /\ proc[child] = "none"
    /\ Mapped(p) => state = "there"
    /\ LET v == Forced(p)
       IN  /\ bytes' = v.bytes
           /\ map' = [v.map EXCEPT ![child] =
                        IF Mapped(p)
                        THEN [v.map[p] EXCEPT !.mem = v.bytes, !.snapshot = v.bytes]
                        ELSE Unmapped]
    /\ count' = ChildCount(p)
    /\ proc' = [proc EXCEPT ![child] = "live"]
    /\ UNCHANGED <<kind, state, shmat, killed, lock, truth, spoilt>>

(* EIO before anything changed if publishing fails; a detach that fails      *)
(* after the new image is committed ends the process.                        *)
Exec(p) ==
    /\ Calls(p) /\ Mapped(p) /\ NoLocks(p) /\ ~ Fails(p)
    /\ Detached(p, Forced(p))
    /\ proc' = IF state = "removed" THEN [proc EXCEPT ![p] = "dead"] ELSE proc
    /\ UNCHANGED <<kind, shmat, killed, lock, truth, spoilt>>

Exit(p) ==
    /\ Calls(p)
    /\ Detached(p, Forced(p))
    /\ proc' = [proc EXCEPT ![p] = "dead"]
    /\ lock' = [c \in Cells |-> IF lock[c] = p THEN NoProc ELSE lock[c]]
    /\ UNCHANGED <<kind, shmat, killed, truth, spoilt>>

-----------------------------------------------------------------------------
Init ==
    /\ kind \in Kinds /\ state = "none" /\ bytes = Zero /\ count = 0
    /\ map = [p \in Procs |-> Unmapped]
    /\ proc = [p \in Procs |-> IF p = First THEN "live" ELSE "none"]
    /\ shmat = NoShmat /\ killed = {} /\ lock = [c \in Cells |-> NoProc]
    /\ truth = Zero /\ spoilt = FALSE

Next ==
    \/ \E p \in Procs :
          \/ MmapShared(p) \/ shmget(p) \/ \E ro \in BOOLEAN : ShmatBegin(p, ro)
          \/ Unmap(p) \/ shmctl_rmid(p) \/ OtherCall(p)
          \/ \E c \in Cells : \/ Acquire(p, c) \/ Release(p, c)
                              \/ \E v \in Values : Store(p, c, v)
          \/ \E child \in Procs : Fork(p, child)
          \/ Exec(p) \/ Exit(p)
          \/ ShmatScan(p) \/ ShmatRefresh(p)
    \/ \E ok \in BOOLEAN : ShmatEnd(ok)
    \/ ShmatKilled

Spec == Init /\ [][Next]_vars

-----------------------------------------------------------------------------
MappingType ==
    [mapped : {TRUE}, readOnly : BOOLEAN, mem : [Cells -> Values],
     snapshot : [Cells -> Values], seen : BOOLEAN]

(* Types; a mapping belongs to a live process. *)
TypeOK ==
    /\ kind \in Kinds /\ state \in {"none", "there", "removed"}
    /\ bytes \in [Cells -> Values] /\ count \in 0 .. Cardinality(Procs)
    /\ \A p \in Procs : map[p] = Unmapped \/ (map[p] \in MappingType /\ proc[p] = "live")
    /\ proc \in [Procs -> {"none", "live", "dead"}] /\ killed \subseteq Procs
    /\ shmat.todo \cup shmat.torn \subseteq Mappers /\ lock \in [Cells -> Procs \cup {NoProc}]

(* A process that holds a cell's lock sees the value stored there last,      *)
(* whoever stored it and whatever was mapped, unmapped, forked or ended in   *)
(* between.  Two known steps are excluded (spoilt): a store that falls into  *)
(* another process's shmat, and a lock taken by the only attacher left of a  *)
(* segment.                                                                  *)
Coherent ==
    (state = "there" /\ ~ spoilt) =>
        \A p \in Mappers, c \in Cells : lock[c] = p => map[p].mem[c] = truth[c]

(* The skipped comparison is safe: a mapping whose seenVersion is the        *)
(* version of the backing has seen every byte of it, even if it published    *)
(* while it was stale.                                                       *)
SeenMeansSeen ==
    state = "there" => \A p \in Mappers : map[p].seen => map[p].snapshot = bytes

(* The count is that of the mappings and of the attachments that a signal    *)
(* cut off, through fork, exec, exit and attachments that fail half-way and  *)
(* are undone.                                                               *)
CountExact == state = "there" => count = Cardinality(Mappers \cup killed)

(* Mappings belong to live processes; each is counted, and nothing else but  *)
(* the attachments of processes killed inside shmat.                         *)
AttachmentsExact == TypeOK /\ CountExact

(* "... fork inheritance, and exact attach/detach accounting": the count is  *)
(* that of the mappings.  It is not once a signal has killed a process       *)
(* inside its shmat.                                                         *)
CountsMappings == state = "there" => count = Cardinality(Mappers)

(* "... then imports peer updates into every stale alias in the calling      *)
(* process": after taking a lock the caller sees the last store, also when   *)
(* the process that made it has detached.                                    *)
SeesDetachedPeer ==
    [][\A p \in Procs, c \in Cells :
         (lock[c] = NoProc /\ lock'[c] = p /\ state = "there" /\ ~ spoilt)
           => map'[p].mem[c] = truth[c]]_vars
=============================================================================
