----------------------------- MODULE FileLocks -----------------------------
(***************************************************************************)
(* Descriptors, open file descriptions and the advisory locks that hang on  *)
(* them, for every process of the machine: fd tables (fd.rs), per-process   *)
(* OFD tables and the machine-wide host handle counts (ofd.rs), descriptors *)
(* in flight in SCM_RIGHTS messages (pipe.rs), fork, exec, exit and crash   *)
(* (syscalls.rs, fork.rs, process_table.rs), and the lock requests parked   *)
(* by the host until a wake-up (kernel-worker.ts).                          *)
(*                                                                          *)
(* Every file here is a host file: an OFD owns one host handle, named by    *)
(* the OFD's machine-wide id, because dup, fork and SCM_RIGHTS keep both.   *)
(***************************************************************************)
EXTENDS LockManager, Functions, FiniteSetsExt

CONSTANTS
    Fds,            \* descriptor numbers below max_fds
    FdFlags,        \* sets of flags a descriptor may be opened with
    LockKinds,      \* lock calls the processes use: Process, Ofd, Flock
    MaxInFlight,    \* bound: references to one OFD queued in SCM_RIGHTS messages
    MaxFailedOpens, \* bound: opens that run into a full fd table
    MaxParked       \* bound: lock requests parked at one time

ASSUME FileLocksConstants ==
    /\ Fds \subseteq Nat /\ IsFiniteSet(Fds) /\ IsFiniteSet(Procs)
    /\ FdFlags \subseteq SUBSET {"CLOEXEC", "CLOFORK"}
    /\ LockKinds \subseteq {"Process", "Ofd", "Flock"}
    /\ {MaxInFlight, MaxFailedOpens, MaxParked} \subseteq Nat

VARIABLES
    proc,           \* Procs -> unborn, live, zombie or gone
    fdt,            \* fd_table: per process, open fd -> [slot, flags]
    ofdt,           \* ofd_table: per process, used slot -> [ofd, refs]
    fileOf,         \* allocated OFD id -> file
    hostRefs,       \* HOST_HANDLE_REFS, 0 when the handle is not listed
    hostCloses,     \* how often host_close was called on the handle
    inFlight,       \* IN_FLIGHT_OFD_REFS
    records,        \* AdvisoryLockManager.records
    wake,           \* an ADVISORY_LOCK event is queued in wakeup.rs
    parked,         \* pendingAdvisoryLockRetries
    retrying,       \* parked requests the host is about to run again
    failedOpens     \* opens that ran into a full fd table so far

tables == <<proc, fdt, ofdt, fileOf>>
handles == <<hostRefs, hostCloses, inFlight>>
waiters == <<parked, retrying>>
vars == <<tables, handles, records, wake, waiters, failedOpens>>

(* Every used slot has a descriptor or was left behind by a failed open. *)
Slots == 0 .. (Cardinality(Fds) + MaxFailedOpens)

Live == {p \in Procs : proc[p] = "live"}

With(f, k, v) == [x \in DOMAIN f \cup {k} |-> IF x = k THEN v ELSE f[x]]

OfdAt(p, fd) == ofdt[p][fdt[p][fd].slot].ofd

FdsOn(p, slot) == {fd \in DOMAIN fdt[p] : fdt[p][fd].slot = slot}

SlotsOf(p, ofd) == {s \in DOMAIN ofdt[p] : ofdt[p][s].ofd = ofd}

-----------------------------------------------------------------------------
(* Host handle counts.  A handle that is not listed has one owner.           *)

Owners1(ofd) == IF hostRefs[ofd] = 0 THEN 1 ELSE hostRefs[ofd]

(* As if the first share forgot the owner that was there already. *)
RefsPlusFromZero(adds) == [d \in Ofds |-> hostRefs[d] + adds[d]]

(* host_handle_fork_ref, adds[d] times. *)
RefsPlus(adds) ==
    [d \in Ofds |-> IF adds[d] = 0 THEN hostRefs[d] ELSE Owners1(d) + adds[d]]

(* host_handle_close_ref, drops[d] times.  It asks for a host_close when the *)
(* count reaches zero, and every time for a handle that is not listed.       *)
RefsMinus(drops) ==
    [d \in Ofds |-> IF drops[d] = 0 THEN hostRefs[d]
                    ELSE IF drops[d] >= Owners1(d) THEN 0
                    ELSE Owners1(d) - drops[d]]

ClosesPlus(drops) ==
    [d \in Ofds |-> IF drops[d] < Owners1(d) THEN hostCloses[d]
                    ELSE hostCloses[d] + 1 + drops[d] - Owners1(d)]

FinalOfds(drops) == {d \in Ofds : drops[d] >= Owners1(d)}

One(ofd) == [d \in Ofds |-> IF d = ofd THEN 1 ELSE 0]

(* remove_ofd, for each OFD of the set. *)
RemoveOfds(recs, ofds) ==
    {r \in recs : r.owner.kind # "Process" => r.owner.id \notin ofds}

(* The handle count falls, the last reference takes the locks of the OFD     *)
(* with it, and any removal is announced.  kept is the table the process     *)
(* locks have been removed from.                                             *)
Release(drops, kept) ==
    /\ hostRefs' = RefsMinus(drops)
    /\ hostCloses' = ClosesPlus(drops)
    /\ records' = RemoveOfds(kept, FinalOfds(drops))
    /\ wake' = (wake \/ records' # records)

-----------------------------------------------------------------------------
(* sys_close_with_locks on each descriptor of the set, in any order.         *)

ClosedOn(p, gone, slot) == FdsOn(p, slot) \cap gone

FreedSlots(p, gone) ==
    {s \in DOMAIN ofdt[p] :
        /\ ClosedOn(p, gone, s) # {}
        /\ ofdt[p][s].refs = Cardinality(ClosedOn(p, gone, s))}

FdsLeft(p, gone) == Restrict(fdt[p], DOMAIN fdt[p] \ gone)

SlotsLeft(p, gone) ==
    [s \in DOMAIN ofdt[p] \ FreedSlots(p, gone) |->
        [ofdt[p][s] EXCEPT !.refs = @ - Cardinality(ClosedOn(p, gone, s))]]

Drops(p, freed) == [d \in Ofds |-> Cardinality(SlotsOf(p, d) \cap freed)]

(* As if close did not release process locks. *)
KeptOnCloseAll(p, gone) == records

(* Closing any descriptor of a file drops all process locks on the file. *)
KeptOnClose(p, gone) ==
    {r \in records : ~ (/\ r.owner = ProcessOwner(p)
                        /\ r.file \in {fileOf[OfdAt(p, fd)] : fd \in gone})}

CloseAll(p, gone) == Release(Drops(p, FreedSlots(p, gone)), KeptOnClose(p, gone))

-----------------------------------------------------------------------------
(* System calls on descriptors *)

Idle == retrying = {}     \* the host's retry loop runs to its end first

FreeFds(p) == Fds \ DOMAIN fdt[p]
FreeSlot(p) == Min(Slots \ DOMAIN ofdt[p])

(* sys_open of a host file.  A full fd table is noticed only after the host  *)
(* handle and the OFD slot exist, and neither is given back.                 *)
Open(p, ofd, file, flags) ==
    /\ Idle /\ p \in Live
    /\ ofd \notin DOMAIN fileOf
    /\ fileOf' = With(fileOf, ofd, file)
    /\ ofdt' = [ofdt EXCEPT ![p] = With(@, FreeSlot(p), [ofd |-> ofd, refs |-> 1])]
    /\ \/ /\ FreeFds(p) # {}
          /\ fdt' = [fdt EXCEPT ![p] =
                        With(@, Min(FreeFds(p)), [slot |-> FreeSlot(p), flags |-> flags])]
          /\ UNCHANGED failedOpens
       \/ /\ FreeFds(p) = {}
          /\ failedOpens < MaxFailedOpens
          /\ failedOpens' = failedOpens + 1
          /\ UNCHANGED fdt
    /\ UNCHANGED <<proc, handles, records, wake, waiters>>

(* sys_open of /dev/fd/N: another descriptor on the same slot.  The          *)
(* reference is not given back when there is no free descriptor.             *)
OpenDevFd(p, fd, flags) ==
    /\ Idle /\ p \in Live
    /\ fd \in DOMAIN fdt[p]
    /\ ofdt' = [ofdt EXCEPT ![p][fdt[p][fd].slot].refs = @ + 1]
    /\ \/ /\ FreeFds(p) # {}
          /\ fdt' = [fdt EXCEPT ![p] =
                        With(@, Min(FreeFds(p)), [slot |-> fdt[p][fd].slot, flags |-> flags])]
          /\ UNCHANGED failedOpens
       \/ /\ FreeFds(p) = {}
          /\ failedOpens < MaxFailedOpens
          /\ failedOpens' = failedOpens + 1
          /\ UNCHANGED fdt
    /\ UNCHANGED <<proc, fileOf, handles, records, wake, waiters>>

(* As if dup did not count its reference. *)
DupUncounted(p, fd) ==
    /\ Idle /\ p \in Live
    /\ fd \in DOMAIN fdt[p] /\ FreeFds(p) # {}
    /\ fdt' = [fdt EXCEPT ![p] =
                  With(@, Min(FreeFds(p)), [slot |-> fdt[p][fd].slot, flags |-> {}])]
    /\ UNCHANGED <<proc, ofdt, fileOf, handles, records, wake, waiters, failedOpens>>

(* sys_dup; EMFILE gives the reference back. *)
Dup(p, fd) ==
    /\ Idle /\ p \in Live
    /\ fd \in DOMAIN fdt[p] /\ FreeFds(p) # {}
    /\ ofdt' = [ofdt EXCEPT ![p][fdt[p][fd].slot].refs = @ + 1]
    /\ fdt' = [fdt EXCEPT ![p] =
                  With(@, Min(FreeFds(p)), [slot |-> fdt[p][fd].slot, flags |-> {}])]
    /\ UNCHANGED <<proc, fileOf, handles, records, wake, waiters, failedOpens>>

Close(p, fd) ==
    /\ Idle /\ p \in Live
    /\ fd \in DOMAIN fdt[p]
    /\ fdt' = [fdt EXCEPT ![p] = FdsLeft(p, {fd})]
    /\ ofdt' = [ofdt EXCEPT ![p] = SlotsLeft(p, {fd})]
    /\ CloseAll(p, {fd})
    /\ UNCHANGED <<proc, fileOf, inFlight, waiters, failedOpens>>

(* sys_dup3 (and sys_dup2, with no flags): newfd is closed first, with all   *)
(* that a close does, and then takes a reference on oldfd's slot.            *)
Dup3(p, old, new, flags) ==
    /\ Idle /\ p \in Live
    /\ old \in DOMAIN fdt[p] /\ new \in Fds \ {old}
    /\ LET slot == fdt[p][old].slot
           gone == {new} \cap DOMAIN fdt[p]
       IN  /\ fdt' = [fdt EXCEPT ![p] =
                         With(FdsLeft(p, gone), new, [slot |-> slot, flags |-> flags])]
           /\ ofdt' = [ofdt EXCEPT ![p] =
                         [SlotsLeft(p, gone) EXCEPT ![slot].refs = @ + 1]]
           /\ CloseAll(p, gone)
    /\ UNCHANGED <<proc, fileOf, inFlight, waiters, failedOpens>>

-----------------------------------------------------------------------------
(* Processes *)

InheritedFds(p) == {fd \in DOMAIN fdt[p] : "CLOFORK" \notin fdt[p][fd].flags}

InheritedSlots(p) == {fdt[p][fd].slot : fd \in InheritedFds(p)}

(* fork_process: the descriptors without FD_CLOFORK and the slots they use,  *)
(* with the counts recomputed, are copied; each copied slot is one more      *)
(* owner of its host handle.  Locks of the parent process stay the parent's. *)
Fork(p, child) ==
    /\ Idle /\ p \in Live /\ proc[child] = "unborn"
    /\ proc' = [proc EXCEPT ![child] = "live"]
    /\ fdt' = [fdt EXCEPT ![child] = Restrict(fdt[p], InheritedFds(p))]
    /\ ofdt' = [ofdt EXCEPT ![child] =
                   [s \in InheritedSlots(p) |->
                       [ofd |-> ofdt[p][s].ofd,
                        refs |-> Cardinality(FdsOn(p, s) \cap InheritedFds(p))]]]
    /\ hostRefs' = RefsPlus(Drops(p, InheritedSlots(p)))
    /\ UNCHANGED <<fileOf, hostCloses, inFlight, records, wake, waiters, failedOpens>>

ParkedBy(p) == {r \in parked : r.proc = p}

(* commit_exec_state_impl: the FD_CLOEXEC descriptors are closed; the other  *)
(* threads of the process, and what they waited for, disappear.              *)
Exec(p) ==
    LET gone == {fd \in DOMAIN fdt[p] : "CLOEXEC" \in fdt[p][fd].flags}
    IN  /\ Idle /\ p \in Live
        /\ gone # {} \/ ParkedBy(p) # {}
        /\ fdt' = [fdt EXCEPT ![p] = FdsLeft(p, gone)]
        /\ ofdt' = [ofdt EXCEPT ![p] = SlotsLeft(p, gone)]
        /\ CloseAll(p, gone)
        /\ parked' = parked \ ParkedBy(p)
        /\ UNCHANGED <<proc, fileOf, inFlight, retrying, failedOpens>>

(* cleanup_process_for_exit: every descriptor is closed, then every process  *)
(* lock goes.  Slots that no descriptor reaches stay with the zombie.        *)
Exit(p) ==
    LET gone == DOMAIN fdt[p]
    IN  /\ Idle /\ p \in Live
        /\ proc' = [proc EXCEPT ![p] = "zombie"]
        /\ fdt' = [fdt EXCEPT ![p] = FdsLeft(p, gone)]
        /\ ofdt' = [ofdt EXCEPT ![p] = SlotsLeft(p, gone)]
        /\ Release(Drops(p, FreedSlots(p, gone)), RemoveProcess(records, p))
        /\ parked' = parked \ ParkedBy(p)
        /\ UNCHANGED <<fileOf, inFlight, retrying, failedOpens>>

(* As if the scan did not look at messages in flight. *)
UnreferencedByProcs(p) ==
    {d \in Ofds : SlotsOf(p, d) # {} /\ \A q \in Procs \ {p} : SlotsOf(q, d) = {}}

(* The OFDs of p that no other process and no message in flight refers to. *)
Unreferenced(p) ==
    {d \in Ofds : /\ SlotsOf(p, d) # {}
                  /\ \A q \in Procs \ {p} : SlotsOf(q, d) = {}
                  /\ inFlight[d] = 0}

(* remove_process_inner, for a crashed process or to reap a zombie.  Host    *)
(* handles are counted down per slot; the locks of an OFD go when a scan of  *)
(* the other processes and the messages in flight does not find it.          *)
Remove(p) ==
    LET drops == Drops(p, DOMAIN ofdt[p])
    IN  /\ Idle /\ proc[p] \in {"live", "zombie"}
        /\ proc' = [proc EXCEPT ![p] = "gone"]
        /\ fdt' = [fdt EXCEPT ![p] = << >>]
        /\ ofdt' = [ofdt EXCEPT ![p] = << >>]
        /\ hostRefs' = RefsMinus(drops)
        /\ hostCloses' = ClosesPlus(drops)
        /\ records' = RemoveOfds(RemoveProcess(records, p), Unreferenced(p))
        /\ wake' = (wake \/ records' # records)
        /\ parked' = parked \ ParkedBy(p)
        /\ UNCHANGED <<fileOf, inFlight, retrying, failedOpens>>

-----------------------------------------------------------------------------
(* Descriptors in SCM_RIGHTS messages.  The socket that carries them is      *)
(* reduced to the bag of queued references: any process may be at its other  *)
(* end.                                                                      *)

(* InFlightFd::retain_reference *)
Send(p, fd) ==
    /\ Idle /\ p \in Live
    /\ fd \in DOMAIN fdt[p]
    /\ inFlight[OfdAt(p, fd)] < MaxInFlight
    /\ inFlight' = [inFlight EXCEPT ![OfdAt(p, fd)] = @ + 1]
    /\ hostRefs' = RefsPlus(One(OfdAt(p, fd)))
    /\ UNCHANGED <<tables, hostCloses, records, wake, waiters, failedOpens>>

(* install_scm_rights_fds: the queued reference becomes a slot of its own in *)
(* the receiver, with the OFD's identity, and no count changes.              *)
Receive(p, ofd) ==
    /\ Idle /\ p \in Live
    /\ inFlight[ofd] > 0 /\ FreeFds(p) # {}
    /\ inFlight' = [inFlight EXCEPT ![ofd] = @ - 1]
    /\ ofdt' = [ofdt EXCEPT ![p] = With(@, FreeSlot(p), [ofd |-> ofd, refs |-> 1])]
    /\ fdt' = [fdt EXCEPT ![p] =
                  With(@, Min(FreeFds(p)), [slot |-> FreeSlot(p), flags |-> {}])]
    /\ UNCHANGED <<proc, fileOf, hostRefs, hostCloses, records, wake, waiters, failedOpens>>

(* A queued reference is dropped instead: the receiver had no descriptor     *)
(* left, or the socket was closed with the message unread.                   *)
Discard(ofd) ==
    /\ Idle
    /\ inFlight[ofd] > 0
    /\ inFlight' = [inFlight EXCEPT ![ofd] = @ - 1]
    /\ Release(One(ofd), records)
    /\ UNCHANGED <<tables, waiters, failedOpens>>

-----------------------------------------------------------------------------
(* Lock calls *)

OwnerOf(p, ofd, kind) ==
    IF kind = "Process" THEN ProcessOwner(p)
    ELSE IF kind = "Ofd" THEN OfdOwner(ofd) ELSE FlockOwner(ofd)

(* As if a flock conversion kept the old mode while it waits. *)
AfterDropNone(p, ofd, kind, type) == records

(* A flock conversion gives up the old mode before it asks for the new one.  *)
AfterDrop(p, ofd, kind, type) ==
    IF kind = "Flock" /\ type # "Unlock"
    THEN RemoveFileOwner(records, fileOf[ofd], FlockOwner(ofd))
    ELSE records

AlreadyHeld(ofd, kind, type) ==
    kind = "Flock" /\ FlockType(records, fileOf[ofd], ofd) = type

(* sys_fcntl_lock_with_owner on a whole file. *)
Error(p, ofd, kind, type) ==
    IF AlreadyHeld(ofd, kind, type) THEN "OK"
    ELSE SetLockError(AfterDrop(p, ofd, kind, type), fileOf[ofd],
                      OwnerOf(p, ofd, kind), type, WholeFile)

Attempt(p, ofd, kind, type) ==
    LET owner == OwnerOf(p, ofd, kind)
        base  == AfterDrop(p, ofd, kind, type)
    IN  \/ /\ AlreadyHeld(ofd, kind, type)
           /\ UNCHANGED <<records, wake>>
        \/ /\ ~ AlreadyHeld(ofd, kind, type)
           /\ records' = SetLockRecords(base, fileOf[ofd], owner, type, WholeFile)
           /\ wake' = \/ wake
                      \/ base # records
                      \/ SetLockMayUnblock(base, fileOf[ofd], owner, type, WholeFile)

(* A call that fails, or does not have to wait, returns. *)
Lock(p, fd, kind, type) ==
    /\ Idle /\ p \in Live
    /\ fd \in DOMAIN fdt[p]
    /\ Attempt(p, OfdAt(p, fd), kind, type)
    /\ UNCHANGED <<tables, handles, waiters, failedOpens>>

(* A blocking call (F_SETLKW, F_OFD_SETLKW, flock without LOCK_NB) that      *)
(* meets a conflict is parked by the host.                                   *)
Park(p, fd, kind, type) ==
    /\ Idle /\ p \in Live
    /\ fd \in DOMAIN fdt[p]
    /\ ParkedBy(p) = {} /\ Cardinality(parked) < MaxParked
    /\ Error(p, OfdAt(p, fd), kind, type) = "EAGAIN"
    /\ Attempt(p, OfdAt(p, fd), kind, type)
    /\ parked' = parked \cup {[proc |-> p, fd |-> fd, kind |-> kind, type |-> type,
                               ofd |-> OfdAt(p, fd)]}
    /\ UNCHANGED <<tables, handles, retrying, failedOpens>>

(* As if the drain consumed the event and retried nobody. *)
DrainWakeForgets ==
    /\ wake
    /\ wake' = FALSE
    /\ UNCHANGED <<tables, handles, records, waiters, failedOpens>>

(* The host drains the wake-up buffer: wakeBlockedAdvisoryLockRetries takes  *)
(* a snapshot of everything parked.                                          *)
DrainWake ==
    /\ wake
    /\ wake' = FALSE
    /\ retrying' = parked
    /\ UNCHANGED <<tables, handles, records, parked, failedOpens>>

(* The 10 ms timer, or a signal, has one request run again. *)
Nudge(r) ==
    /\ Idle
    /\ retrying' = {r}
    /\ UNCHANGED <<tables, handles, records, wake, parked, failedOpens>>

(* retrySyscall runs the call from the start: the descriptor is looked up    *)
(* again.  On a conflict it is parked anew, or ends in EINTR when a signal   *)
(* was delivered.                                                            *)
Retry(r) ==
    /\ r \in retrying
    /\ retrying' = retrying \ {r}
    /\ \/ /\ r.fd \notin DOMAIN fdt[r.proc]
          /\ parked' = parked \ {r}
          /\ UNCHANGED <<records, wake>>
       \/ /\ r.fd \in DOMAIN fdt[r.proc]
          /\ Attempt(r.proc, OfdAt(r.proc, r.fd), r.kind, r.type)
          /\ \/ parked' = parked \ {r}
             \/ /\ Error(r.proc, OfdAt(r.proc, r.fd), r.kind, r.type) = "EAGAIN"
                /\ parked' = (parked \ {r})
                                \cup {[r EXCEPT !.ofd = OfdAt(r.proc, r.fd)]}
    /\ UNCHANGED <<tables, handles, failedOpens>>

-----------------------------------------------------------------------------
(* kernel_create_process: a process with no host file open. *)
Create(p) ==
    /\ Idle /\ proc[p] = "unborn"
    /\ proc' = [proc EXCEPT ![p] = "live"]
    /\ UNCHANGED <<fdt, ofdt, fileOf, handles, records, wake, waiters, failedOpens>>

Init ==
    /\ proc = [p \in Procs |-> "unborn"]
    /\ fdt = [p \in Procs |-> << >>]
    /\ ofdt = [p \in Procs |-> << >>]
    /\ fileOf = << >>
    /\ hostRefs = [d \in Ofds |-> 0]
    /\ hostCloses = [d \in Ofds |-> 0]
    /\ inFlight = [d \in Ofds |-> 0]
    /\ records = {}
    /\ wake = FALSE
    /\ parked = {}
    /\ retrying = {}
    /\ failedOpens = 0

DescriptorStep ==
    \/ \E p \in Procs, ofd \in Ofds, file \in Files, flags \in FdFlags :
          Open(p, ofd, file, flags)
    \/ \E p \in Procs, fd \in Fds, flags \in FdFlags : OpenDevFd(p, fd, flags)
    \/ \E p \in Procs, fd \in Fds : Dup(p, fd) \/ Close(p, fd) \/ Send(p, fd)
    \/ \E p \in Procs, old, new \in Fds, flags \in FdFlags : Dup3(p, old, new, flags)
    \/ \E p \in Procs, ofd \in Ofds : Receive(p, ofd)
    \/ \E ofd \in Ofds : Discard(ofd)

ProcessStep ==
    \/ \E p, child \in Procs : Fork(p, child)
    \/ \E p \in Procs : Create(p) \/ Exec(p) \/ Exit(p) \/ Remove(p)

LockStep ==
    \/ \E p \in Procs, fd \in Fds, kind \in LockKinds, type \in LockTypes \cup {"Unlock"} :
          Lock(p, fd, kind, type)
    \/ \E p \in Procs, fd \in Fds, kind \in LockKinds, type \in LockTypes :
          Park(p, fd, kind, type)

WakeStep ==
    \/ DrainWake
    \/ \E r \in parked : Nudge(r)
    \/ \E r \in retrying : Retry(r)

Next == DescriptorStep \/ ProcessStep \/ LockStep \/ WakeStep

Spec == Init /\ [][Next]_vars

(* The host drains the wake-ups after every kernel call and finishes the     *)
(* retry loop it started.  Nothing is assumed of the processes, and nothing  *)
(* of the timer: no request may depend on it.                                *)
RetryOf(p) == \E r \in retrying : r.proc = p /\ Retry(r)
FairSpec == Spec /\ WF_vars(DrainWake) /\ \A p \in Procs : WF_vars(RetryOf(p))

-----------------------------------------------------------------------------
(* Properties *)

TypeOK ==
    /\ proc \in [Procs -> {"unborn", "live", "zombie", "gone"}]
    /\ \A p \in Procs :
          /\ DOMAIN fdt[p] \subseteq Fds
          /\ \A fd \in DOMAIN fdt[p] :
                fdt[p][fd].slot \in DOMAIN ofdt[p] /\ fdt[p][fd].flags \in FdFlags \cup {{}}
          /\ DOMAIN ofdt[p] \subseteq Slots
          /\ \A s \in DOMAIN ofdt[p] :
                ofdt[p][s].ofd \in DOMAIN fileOf /\ ofdt[p][s].refs \in Nat \ {0}
    /\ DOMAIN fileOf \subseteq Ofds /\ Range(fileOf) \subseteq Files
    /\ hostRefs \in [Ofds -> Nat] /\ hostCloses \in [Ofds -> Nat]
    /\ inFlight \in [Ofds -> 0 .. MaxInFlight]
    /\ records \subseteq Records /\ wake \in BOOLEAN
    /\ parked \subseteq [proc : Live, fd : Fds, kind : LockKinds, type : LockTypes, ofd : Ofds]
    /\ retrying \subseteq parked
    /\ failedOpens \in 0 .. MaxFailedOpens

(* The count of a slot never falls below the number of descriptors on it, so *)
(* close, dup2, exec or exit never free an OFD that a descriptor still uses; *)
(* without failed opens it is exact, so none outlives its last descriptor.   *)
SlotRefs ==
    \A p \in Procs, s \in Slots : s \in DOMAIN ofdt[p] =>
        /\ ofdt[p][s].refs >= Cardinality(FdsOn(p, s))
        /\ failedOpens = 0 => ofdt[p][s].refs = Cardinality(FdsOn(p, s))

(* The tables of a process fit together: every descriptor has its slot, and  *)
(* every slot its count.                                                     *)
TablesSound == TypeOK /\ SlotRefs

(* The slots of all processes that share the OFD, and the messages that carry it *)
Holders(d) == {h \in Procs \X Slots : h[2] \in SlotsOf(h[1], d)}
References(d) == inFlight[d] + Cardinality(Holders(d))

(* HOST_HANDLE_REFS counts exactly the slots of all processes and the queued *)
(* messages that share a host handle ("not listed" standing for one), and    *)
(* the handle is closed exactly once, when the last of them goes: never      *)
(* under somebody, never twice, never forgotten.                             *)
HandleAccounting ==
    \A d \in DOMAIN fileOf :
        IF References(d) = 0 THEN hostCloses[d] = 1 /\ hostRefs[d] = 0
        ELSE /\ hostCloses[d] = 0
             /\ hostRefs[d] = References(d) \/ (hostRefs[d] = 0 /\ References(d) = 1)

(* No lock survives its owner, whichever way the owner went: a process lock  *)
(* belongs to a live process with a descriptor of the file, and an OFD or    *)
(* flock lock to an OFD that is still referenced.  Close counts handles and  *)
(* crash scans tables: both must agree.                                      *)
LocksHaveOwner ==
    \A r \in records :
        IF r.owner.kind = "Process"
        THEN LET p == r.owner.id
             IN  /\ p \in Live
                 /\ \E fd \in DOMAIN fdt[p] : fileOf[OfdAt(p, fd)] = r.file
        ELSE fileOf[r.owner.id] = r.file /\ References(r.owner.id) > 0

(* A lock of an OFD that somebody still refers to survives everything that   *)
(* happens to descriptors and processes: close, dup2, exec, exit or crash of *)
(* one holder takes no lock from the others, a message in flight included.   *)
SharedLockSurvives ==
    [][<<tables, handles>>' # <<tables, handles>> =>
          \A r \in records : r.owner.kind # "Process" /\ r \notin records' =>
              References(r.owner.id)' = 0]_vars

(* No request stays parked for ever on a lock that is free. *)
Answerable(p) ==
    \E r \in ParkedBy(p) :
        r.fd \in DOMAIN fdt[p] /\ OfdAt(p, r.fd) = r.ofd
            /\ Error(p, r.ofd, r.kind, r.type) # "EAGAIN"
NoStarvedWaiter == \A p \in Procs : []<>(~ Answerable(p))

(* Processes with one descriptor each on one file cannot all end up waiting  *)
(* for flock: a blocked conversion has given up its old mode.                *)
UpgradesProceed ==
    Live # {} /\ ~ wake /\ retrying = {} =>
        \E p \in Live : \A r \in ParkedBy(p) : r.kind # "Flock"

(* process_table.rs:427: "Normal exit closes every fd first, so these lists  *)
(* are empty on the zombie reaping path."                                    *)
ReapClosesNothing ==
    [][\A p \in Procs : proc[p] = "zombie" /\ proc'[p] = "gone" =>
          hostCloses' = hostCloses]_vars
=============================================================================
