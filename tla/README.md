# Kandelo: TLA+ models and proofs

Kandelo is a POSIX kernel written in Rust and compiled to WebAssembly. One
kernel instance serves a whole machine of guest processes. Each guest process
or thread is a Worker that writes a system call into a shared-memory channel;
the host (`host/src/kernel-worker.ts`) hands the channels to the kernel one at
a time, so a system call runs alone inside the kernel. The kernel cannot block:
a call that has to wait returns `EAGAIN`, the host parks it and runs **the same
handler again from the start** when a wake-up event or a timer says so.

That design decides what is hard here. There are no data races inside a
handler; there is everything that can happen *between* two runs of one handler:
other processes close, fork, lock, cancel, exec, crash and are reaped, and
whatever the first run left behind in a table must still be right.

This directory holds the models of the parts where that matters most, the
instances TLC checks and the theorems TLAPS proves. `PROJECT.json` is the index:
components, runs, mutants, the map from definitions to source lines, findings,
hazards and theorems.

## 1. Inventory

| Component | State it keeps | Operations | Talks to |
|---|---|---|---|
| Advisory lock table (`lock.rs`) | sorted records (file, owner, type, range) | get/set lock, flock type, remove by process, file, OFD | every close, exit, crash; wake-up buffer |
| Descriptors and OFDs (`fd.rs`, `ofd.rs`) | fd table, OFD slots with counts, machine-wide handle counts | open, dup, dup3, close, fork, exec | host file handles, locks, pipes |
| Lock calls (`syscalls.rs`, `kernel-worker.ts`) | parked requests | fcntl, flock, park, retry, wake | lock table, wake-up buffer |
| Process table (`process_table.rs`, `fork.rs`, `process.rs`, `spawn.rs`) | processes, zombies, limbo leaders, wait status | create, fork, spawn, exec, exit, remove, reap, wait | all of the above |
| SCM_RIGHTS (`pipe.rs`, `ofd.rs`) | references in flight, deferred releases | retain, transfer, drop, collect cycles | OFDs, pipes, sockets |
| Named pipes (`fifo.rs`, `pipe.rs`) | end counts, opening threads, hang-up cohort, names | open rendezvous, cancel, share, close, link, unlink | descriptors, wake-up buffer |
| Pipes (`pipe.rs`) | ring buffer, end counts, slots | read, write, close, free | poll, sockets |
| Process-shared synchronisation (`pshared.rs`) | mutexes, condition queues, barrier queues | init, lock, unlock, wait, signal, barrier, clean-up | host retry, process end |
| Wake-up buffer (`wakeup.rs`) | queued events | push, bounded drain | host |
| Host retry (`kernel-worker.ts`) | one registry per kind of wait, timers, deadlines | park, wake, time out, cancel | every blocking call |
| Signals (`signal.rs`) | pending sets, queues, masks | raise, deliver, stop, continue | host retry, process table |
| System V IPC (`ipc.rs`) | message queues, semaphore sets, segments, by id and key | get, semop, send, receive, attach, detach, remove | host retry, permissions |
| Shared memory (`kernel-worker.ts`, `ipc.rs`) | a backing, its version and attach count, a snapshot per mapping | publish, import, attach, detach, inherit | every system call boundary, fork, exec, exit |
| Message queues (`mqueue.rs`) | queues with priorities, registrations | send, receive, notify, unlink | host retry, signals |
| Sockets (`socket.rs`, `unix_socket.rs`) | listeners, backlogs, datagram queues, bind tables | bind, listen, accept, shutdown | pipes, wake-up buffer |
| Terminals (`terminal.rs`, `pty.rs`) | line buffers, pty pairs | line discipline, hang-up | signals, poll |
| Memory (`memory.rs`) | mappings, host reservations, program break, limits | mmap, munmap, mremap, brk, reserve | process start, threads, exec |
| Thread slots (`thread-allocator.ts`) | slots of the process memory | allocate, release | memory, thread exit |
| Shared pipe buffer (`shared-pipe-buffer.ts`) | ring on Atomics | read, write, close | other hosts |
| Paths, devfs, procfs, devices, ABI, loaders, instrumentation | formatted views, device state, generated code | | |

The behaviours that are hard to test, each with the line where it bites and the
properties aimed at it, are the `hazards` of `PROJECT.json`. The main families:

* a blocking call that keeps a reservation or a queue entry between its runs
  (FIFO open, condition wait, barrier) while its thread is cancelled or killed,
  or the peer comes back first;
* a resource counted in several tables at once (slot count, machine-wide handle
  count, message in flight), released by close, exec, exit, crash and reap in
  different code;
* a step that fails half way (no descriptor left, table full, bad id) after it
  already changed something;
* a wake-up that is not sent because nothing was "unlocked", or that finds the
  waiter not parked yet, or that arrives while the host is deep inside the
  completion of another call;
* memory that is only made to look shared: a copy per process, merged at system
  calls, where one stale "I have seen this version" loses somebody's store;
* interval arithmetic at the ends of an address space.

## 2. Modules

| Module | Models | Kind |
|---|---|---|
| `LockManager` | the algebra of `lock.rs`: ranges, conflicts, `set_lock` on a set of records | operators only |
| `AdvisoryLock` | the lock table as a state machine, with its wake-up flag | specification |
| `LockMap` | what locking promises: a lock mode per byte, file and owner | abstract specification |
| `FileLocks` | descriptors, OFDs, handle counts, messages, processes, lock calls, parked requests; composes `LockManager` with the rest | specification |
| `NamedFifo` | one FIFO: counts, blocking open, cancellation, hang-up, names | specification |
| `PShared` | process-shared mutexes, conditions and barriers with the threads that use them | specification |
| `SysvIpc` | System V semaphore sets and message queues, and parked callers | specification |
| `SharedMemory` | one anonymous shared backing or System V segment with the private copies of the processes that map it | specification |
| `Memory` | the address space of one process: mappings, thread slots, heap | specification |
| `ProcessLife` | fork, stop, continue, death, wait; process groups, limbo leaders, Worker launch and teardown | specification |
| `Pipes` | pipes and stream sockets, the wake-up buffer, and the host that parks and wakes | specification |
| `AdvisoryLockProofs`, `FileLocksProofs`, `PSharedProofs`, `MemoryProofs`, `NamedFifoProofs`, `SysvIpcProofs`, `SharedMemoryProofs`, `PipesProofs` | theorems | proofs |
| `MCAdvisoryLock`, `MCFileLocks`, `MCNamedFifo`, `MCPShared`, `MCSysvIpc`, `MCSharedMemory`, `MCMemory`, `MCProcessLife`, `MCPipes` | symmetry sets and constant values for TLC | instances |

### Correspondence with the code

**LockManager / AdvisoryLock.** `records` is `AdvisoryLockManager.records`; the
sorted `Vec` is a set because no two records of one owner on one file overlap
(which is proved). `Normalize` is `LockRange::normalize`, including negative
lengths and the end-of-file end. `SetLockRecords` is the success path of
`set_lock`: `LeftFragments`, `RightFragments` and `Coalesced` are the three
loops, `Replacement` and `Pieces` what is inserted, `NoOp` the shortcut,
`SetLockError` the conflict test followed by the capacity test, and
`SetLockMayUnblock` the verdict that decides about the wake-up. `FlockConvert`
is `sys_flock`'s conversion, which gives up the old lock and publishes that
before it asks for the new one. `wake` is "an advisory-lock event is queued".

**FileLocks.** `fdt`, `ofdt`, `hostRefs`, `hostCloses`, `inFlight` are the fd
tables, the OFD tables, `HOST_HANDLE_REFS`, the calls of `host_close` and
`IN_FLIGHT_OFD_REFS`. An OFD owns one host handle, named by the OFD's machine-wide
id. Each operation is one action: `Open`, `OpenDevFd`, `Dup`, `Dup3`, `Close`,
`Fork`, `Exec`, `Exit`, `Remove` (crash and reap), `Send`, `Receive`, `Discard`,
`Lock`, `Park`, and the host's `DrainWake`, `Nudge` (safety-net timer) and
`Retry`. A handle that is not listed in `HOST_HANDLE_REFS` has one owner, as in
the code. `Exit` closes through the counts, `Remove` decides by scanning the
tables, as the code does.
Abstracted: all files are host files whose `fstat` succeeds; lock requests cover
the whole file with read-write access (ranges are `AdvisoryLock`'s business);
one parked request per process, whose other threads go on; the socket that
carries descriptors is a bag; pids and OFD ids are not reused. Left out:
`F_GETLK`, stopped processes, limbo leaders, spawn's file actions.

**NamedFifo.** `pipe` is the `PipeBuffer` (fill level for the ring), `desc[t]`
the one descriptor of thread `t`, from nothing through "opening" to a reference
of some kind; a descriptor passed on by dup, fork or a message is a further
holder. `Open`, `OpenWaits`, `Resume`, `Cancel`, `OpenEmfile` and `OpenPath` are
the outcomes of `try_open_fifo`, `resume_fifo_open` and `install_fifo_open`.
`sawWriter` (the readers, open or opening, that met an open writer), `metEnd` (the
reader cohort met a write end, open or only reserved by a waiting open) and
`writerOpened` are history variables, read by properties only.

**PShared.** `kind` says in which of the three maps an id is a key; ids are
given out once. Blocking handlers are enabled for an idle thread (the call) and
for a parked one (the host's retry of the same call). `pthread_cond_wait` is its
two system calls, `CondWaitBegin` and `CondWaitCheck`, and `CondWaitAbort`
after any error. `ThreadCancel` is the host completing a parked call with
`EINTR`. `Exit` leaves the table alone, as `cleanup_process_for_exit` does;
`Cleanup` is `cleanup_process`, run by reaping, crash removal and exec. `held` is
what the program was granted; `arrivals` and `serials` are history. Programs
are assumed to unlock only what they were granted, to wait on a condition with
the mutex locked once, and, unless `Careless`, not to wait on a destroyed one.
The `is_serial` flag is omitted: the serial caller never leaves an entry behind,
so no entry with the flag is ever read.

**SysvIpc.** `msg_queues`, `sem_sets` and `next_id` are the fields of `IpcTable`;
an id is never given out twice. `semop` and `msgsnd` answer `EAGAIN` when they
cannot proceed, with or without `IPC_NOWAIT`, and the host parks the caller on its
default 10 ms timer: `pc[p]` is that parked call and `Retry(p)` runs the handler
again from the start, permission and existence checks included. `Interrupt(p)` is
a cancellation, or a signal caught while the process was stopped. `held` counts, for
each semaphore, the tokens that programs took and did not give back, `supply` what it
was given (programs give back only what was taken, though not always by themselves), `outbox` the messages accepted
and not delivered; they are history. There is no `SEM_UNDO` in the code and none
here.

**SharedMemory.** `bytes`, `count` and `state` are the backing (or segment), its
`refCount` (or `nattch`) and whether it still has a name; `map[p]` is a
`SharedMapping` with its snapshot, and `map[p].mem` the process's own memory.
`MergedAndRefreshed` is a process's own boundary (publish what differs from the
snapshot, import what is new; `Merged` and `Overtaken` are its bytes), `Forced` and
`Boundary` the loops that call it. `shmat` is `ShmatBegin`, `ShmatScan`, one
`ShmatRefresh` for each process already attached and `ShmatEnd`, because programs go
on storing meanwhile. `ShmatKilled` ends it instead when the mmap that the host makes
in the process's name delivers a terminating signal: the handler returns without
undoing what the kernel counted. `killed` is the history of these processes. Programs follow a lock discipline:
without one the host's merge promises nothing. `spoilt` marks behaviours that take
one of the steps known to lose a store (section 6); the invariants are claimed of
the others. File-backed mappings and two mappings of one object in one process are
left out.

**Memory.** `mappings`, `reserved`, `brk` and `data_limit` are the fields of
`MemoryManager`. Addresses are counted in units, `Page` of them to a page, so that
an unaligned break is a state, and `Space` is the range of a `usize`, so that
sums overflow, saturate or wrap where the code's do (`Rounds`, `Saturated`,
`WrapUp`). Both layouts the host can choose are instances. `held` is what the
program was given and has not given back. Lowering `max_addr` after start, which
no host does any more, is left out.

**ProcessLife.** Each handler of the host runs to its end and nests others: a
death sends `SIGCHLD`, which may find another waiter, whose answer may be another
death. The operators take and return a `world`: the process table, the stop and
continue events, `waitingForChild`, `hostReaped`. Launch and teardown of Workers
are the asynchronous steps, and a launch may fail. What programs do is a constant
(`Programs`), so that one run covers a job-control shell, a pair that signals each
other, a parent with two waiting threads, and one that kills a group of children
while it waits. Left out: sessions, credentials,
exec, signal masks, `WNOHANG` (it never parks), status values.

**Pipes.** `pipe[i]` is a `PipeBuffer` with its ring, head and length; its ends
are sets of processes. Bytes are numbered, so that a lost, repeated or stale byte is
seen. `todo` is the JavaScript call stack: a completed call first drains the
wake-up events in batches of `MAX_EVENTS`, each event runs the parked calls of its
pipe, each of which completes and drains in turn, and only then is the first call
answered. New calls, timers and the deferred broad wake are taken when `todo` is
empty. Left out: signals and stops, exit of a process with parked threads, and
reuse of a descriptor number while a call on it is parked.

## 3. Runs

States are distinct states; all passing runs are exhaustive.

| Run | Instance | Shows |
|---|---|---|
| `lock_table` | 1 process, 2 OFDs, offsets 0..2, 3 records; 2 036 states | the table stays normalised, exclusive, within capacity; every unblocking is announced; it implements `LockMap` |
| `descriptors` | 2 processes, 2 OFDs, 2 fds, process and OFD locks, one failed open, one message per OFD; 220 946 states | slot and handle counts are exact, each handle is closed once; no lock outlives its owner; no holder's end takes a shared lock away |
| `lock_waiters` | 2 processes, 2 parked, fairness; 95 094 states | no lost wake-up, no waiter left on a free lock, flock conversions never all wait for each other |
| `fifo` | 4 threads, capacity 2, 2 names, fairness; 33 942 states | counts, rendezvous, hang-up, lifetime; a blocked open returns while the other side is there |
| `pshared` | 3 processes, 3 objects, 2 nested locks, 3 arrivals; 533 431 states | exclusion, nesting counts, queue entries |
| `pshared_threads` | 2 processes, 3 threads, cancellation, destroyed conditions; 174 378 states | signal order, barriers never jam, nothing is left of a process that is gone |
| `sysv_ipc` | 2 processes of 2 users, 1 key, 2 ids, sets of 2 semaphores, 2 sends, queue limit 2, 1 parked, fairness; 64 700 states | `semop` takes all its tokens or none; messages are neither lost nor overtaken within what a receiver asks for; limits hold; a parked call never acts on an object that took the place of the removed one; one that can be answered returns |
| `shared_memory` | 3 processes, 2 cells, 2 values, both kinds of object; 690 833 states | lock holders see the last store, a mapping that says it has seen the version has, attach counts are exact but for processes killed inside `shmat` |
| `memory` | pages of 2 units, 16 addresses, 3 regions, both layouts; 96 392 states | mappings, slots, heap and control pages stay apart, placement is first fit, nothing is recorded that was given back |
| `process_life` | 3 pids, programs Shell, Pair, Threaded and Grouped; 118 026 states | no wait parked although it can be answered, dead Workers retired unless a wait inside the scan took the exit (section 6), no status lost, each death told once, a termination signal is never dropped |
| `pipes` | 1 pipe or socket, 3 threads in 2 processes, capacity 2, batches of 1, fairness; 232 615 states | the ring is a queue; a parked call is really blocked; every broad wake comes; no answered call is run; a call whose peer is gone returns |
| `send_timeout` | 1 socket with send time-out | violation, see section 6 |

A run's properties are the deep ones by themselves, and conjunctions of named parts
for what belongs together: `TableSound`, `TablesSound`, `EndsCounted`,
`QueuesSound`, `AttachmentsExact`, `SpaceApart`, `StatusSound` and `RingSound` each
join the type invariant of their module to the structural invariants next to it;
`HangupRight`, `QueuesInOrder` and `NoMissedWake` join two halves of one promise.

**Why the bounds are enough.** Lock splitting needs three neighbouring bytes
(left fragment, middle, right fragment) and one more record than the table
holds; conflicts need two owners in one namespace. Reference-counting errors
need two holders and one message between them; two descriptors let one process
hold both the shared and the private case; one failed open leaves one leak.
`descriptors` keeps one record at a time: what it checks is said of each record
alone, and conflicts are the business of `lock_table` and `lock_waiters`.
Flock cycles need two processes. FIFO cohorts need a reader that stays, a reader that comes late, a writer
and a canceller. A condition queue needs a live waiter behind another one and a
signaller; a barrier of two needs a third arrival to mix two rounds. A partial
`semop` needs two semaphores; overtaking needs two messages of two types, and a
removed key that comes back needs two ids. A stale snapshot needs a publisher, a
mapping that missed it and a third process that forks, attaches or leaves; a lost
store needs a second cell in the same object. Three regions make a hole
between two neighbours, and a 16-unit space lets the longest request wrap. Three
processes are a parent with two children, of which one is auto-reaped and one
waited for. A ring of two wraps, is full and is half full; batches of one
event force the second drain; two threads of one process and a forked one give
every pair of reader, writer and closer. `MaxDepth`,
`MaxArrivals`, `MaxIds`, `MaxInFlight`, `MaxFailedOpens`, `MaxParked`, `MaxSends`,
`MaxSupply`, `MaxRegions`, `MaxPid` and `MaxNames` bound what is otherwise unbounded
and appear only in guards.

**Deadlock.** `CHECK_DEADLOCK FALSE` is set where the system may really stop:
all processes are gone, or every process waits for a lock, a token or a byte that
nobody will supply (the kernel has no deadlock detection for `F_SETLKW`,
`docs/posix-status.md`).

**Symmetry** is used only where no liveness property is checked.

**Fairness.** `FileLocks!FairSpec`: weak fairness of `DrainWake` and of each
process's `RetryOf`. The host drains the wake-up buffer after every kernel call
and runs its retry loop over the snapshot synchronously to its end. Nothing is
assumed about processes, and nothing about the timer, so no waiter may depend on
it. `NamedFifo!FairSpec`: weak fairness of `Resume(t)`: `handleBlockingRetry`
re-arms a 10 ms timer for every parked open. `SysvIpc!Spec`: weak fairness of
`Retry(p)`, the same timer. `Pipes!Spec`: weak fairness of the host's next step
(`HostStep`: JavaScript runs what it has begun), strong fairness of the deferred
broad wake and of listening to each thread's channel: the event loop gives every
queued callback its turn, however often others come in between. No timer that
would poll a parked read or write again is assumed, because there is none.

**Mutants.** Every property of a passing run has a mutant in `PROJECT.json`: a
definition of the model replaced by one with a plausible slip (a dropped guard,
a fragment lost, an entry kept). The replaced operators stand just before their
originals and their comments begin with "As if" or "Mutant".

## 4. Proofs

All proofs hold for every value of the constants allowed by the named
assumptions (`LockConstants`, `PSharedConstants`, `MemoryConstants`, ...):
any number of processes, threads, objects and offsets, any capacity and page size.
Two theorems of `PShared` speak of programs with one thread per process
(`OneThreadEach`), those of `SysvIpc` of systems in which fewer than 2^31 objects
were created (`FewObjects`: after that the code's `i32` counter comes around), one of
`FileLocks` of processes with one descriptor each (`OneEach`), and those of `Pipes` of systems without `SO_SNDTIMEO` (`UntimedWrites`). Each
proof follows the same plan: an inductive invariant, one step per action, and a
temporal step. Where a definition runs over a sequence or a set of regions it is a
recursive function, and what it computes is shown by looking at the least argument
for which it would be wrong (the library's theorem that a set of naturals has a
minimum), as induction itself cannot be instantiated.

**Lock table** (`AdvisoryLockProofs`). The invariant is
`TypeOK` with normal form, exclusion, whole-file flock records and the capacity
bound. None is inductive alone: the fragments of a split are disjoint only if
the records were, exclusion after a merge needs that the merged range is covered
by the request and by records that were already there (`MergedRangeShape`,
`AppliedPieces`), and capacity needs that the counted replacement is exactly what
is inserted. The first half of the module proves these facts once about `Applied`;
the second derives `TypeCorrect`, `AlwaysNormalized`,
`AlwaysExclusive`, `FlockUnambiguous`, `CapacityBound` and their conjunction
`AlwaysSound`, the action property
`NoSilentUnblock` (nobody is unblocked without an event) and `Refinement`: the
table implements `LockMap`, byte by byte (`AppliedMode`, `ChangeStep`,
`DropStep`).

**Descriptors, handles and file locks** (`FileLocksProofs`). `TablesAreSound`,
`HandlesAreCounted`, `LocksAreOwned`, `SharedLocksSurvive`, `ParkedIsBlocked` and
`UpgradesAlwaysProceed`, for any number of processes, files, descriptors, OFDs,
messages and failed opens. The inductive invariant `IInv` has four parts.

* `TablesInv`: in each process every descriptor has its slot, every slot an OFD that
  was opened and a count not below its descriptors, and no more slots are over-counted
  than opens have failed. The last clause is what makes the counts exact when none
  failed, and it is not inductive without the others: a fork recounts from the
  descriptors that are inherited, so a child starts without over-counted slots.
* `HandlesInv`: `HOST_HANDLE_REFS` agrees with the references (slots of all processes
  and messages), "not listed" standing for one, and a handle was closed once if the
  references are none and not at all otherwise. `RefsAt` says how the references change
  when one process's slots do, `ClosingHandles` what a loop over several closed slots
  leaves; both are used by close, dup3, exec, exit and crash alike, though the code
  counts in the first four and scans the tables in the last.
* `LocksInv`: records cover the whole file, the OFD that owns one has a reference, and
  a process that owns one has a descriptor on the file.
* `WaitersInv`: unless a wake-up is queued, a parked request that is not about to be
  retried conflicts with somebody's lock. `ParkedIsBlocked` is read off it: the safety half
  of `NoStarvedWaiter`.

`UpgradesAlwaysProceed` needs the order of granting. `ChainInv` says that any set of
flock records has a member, the one granted first, whose holders, if they are parked,
wait for a record outside of the set; of the set of all records that leaves a record
whose holders are not parked for flock. It holds because a conversion gives its lock up
before it waits, so nobody waits while it keeps a lock that others wait for. The
hypotheses (one descriptor each, no descriptor in a message, no failed open) are each
needed: a process with a second descriptor may wait for its own lock, and a lock in an
unread message, or on a slot that a failed open left behind, is released by nobody.

**Process-shared mutexes** (`PSharedProofs`). `OwnershipAgrees` and `Exclusive`
say that for programs with one thread per process, which do not wait on destroyed
conditions (`OneThreadEach`), the kernel's owner and nesting count are what the
owner was granted, and no two processes hold one mutex. Mutual exclusion alone is
not inductive: a lock is granted on the word of the kernel's `owner` field, so
the invariant ties that field to the programs' view (`HoldersAgree`), and adds
that unused ids are free, that only recursive mutexes nest (an unlock of another
kind gives up all), and that a thread of a dead process holds nothing. The
hypothesis cannot be dropped: with two threads exclusion fails (section 6,
`ReacquireWaits`).

**Process-shared queues** (`PSharedProofs`). `QueuesNeverJam` (signalled entries stand
before unsignalled ones, and a barrier has room for one more arrival) and
`RemovedMeansRemoved` (nothing is left of a process that is gone) hold of all
programs, several threads, cancelled waits and careless ones included. Their invariant
`QInv` adds that ids not handed out yet, and ids of another kind, have empty queues, so
that a new object starts empty, and that the mutex an entry names was created.
`WaitersAreKnown` says that with one thread per process an entry and a wait belong
together; `WInv` adds that a waiting call names an object created before, so that a
new barrier is never one somebody waits at.

**Memory** (`MemoryProofs`). `SpaceStaysApart`, `ScanIsFirstFit` and
`NothingEverLeaks`. `SpaceApart` is inductive as it stands, once the arithmetic that
wraps and saturates is known to stay inside the space (`Rounds`, `WrapUp`); the scan
over regions in order of address is shown to return the lowest hole through what its
cursor says after each region.

**Named pipes** (`NamedFifoProofs`). `EndsStayCounted`, `OpensMeet`, `FreedExactly`
and `HangupIsRight`. The invariant `Good` counts, for each end, the descriptors and
the blocked opens that reserved it, and says which blocked opens were made ready: a
waiter that is not ready has no peer, and one that is ready has met one, which is what
makes the hang-up cohort right when the peer has gone again before the waiter resumes.
`IInv` ties the code's `everOpened` to what the readers met: it is set only of a cohort
that met a write end (`metEnd`), and it is set once one of them met an open writer
(`sawWriter`). `HangupIsRight` requires the hang-up in the second case and forbids it
outside the first; between the two lies the cancelled writer of section 6.

**System V IPC** (`SysvIpcProofs`). `NeverAnotherObject`, `QueuesHoldWhatWasSent`,
`OldestOfItsTypeFirst` and `TokensAreConserved`. The invariant ties an object's id to the count of creations
(`next_id = born`) and each queue to the messages accepted and not delivered, without
repetition and in the order of sending; removal from the middle keeps both. `TokensAreConserved`
speaks of arrays that name no semaphore twice (with others the code loses tokens,
section 6) and of supplies that fit in a `u16`. Its invariant says of each semaphore
that value and tokens held add up to the supply, and of ids not handed out that nothing
is held; `ApplyAt` and `TakesAt` show that the loop over the array changes a semaphore
by what the array takes from it, by looking at the first element where they would part
(`Stretch`).

**Shared memory** (`SharedMemoryProofs`). `HolderReadsLastStore`, `SkippingIsSafe` and
`CountsStayExact`. That a lock holder reads the last store is not inductive: the
invariant `ViewOK` says of each cell where the last store is, namely in the memory of
the process that holds or stored last and has not published (`HolderCurrent`,
`StoresKept`), or in the backing (`BytesCurrent`); that a read-only mapping has nothing
to publish (`ReadOnlyClean`); and that a mapping which says it has seen the current
version has its bytes (`SeenIsSeen`), in particular while a `shmat` is half way
through the processes it refreshes (`ShmatOK`). The count is that of the mappings and
of the processes killed inside `shmat`, which never had one; `CountsStayExact` says that
nothing else is ever counted too much or too little.

**Pipes** (`PipesProofs`). `ServedIsUnanswered`, `RingIsAQueue` and `NoWakeIsMissed`,
for any number of pipes, threads and processes, any capacity, lengths and batch size.
The inductive invariant `IInv` has three parts.

* `HostInv`: a thread that is on the stack or in a list of parked calls waits for the
  host, is in one of those places only, and its list is that of its call's kind and
  pipe (`PlacesOK`); no call is twice on the stack (`Once`). `RunOnlyUnanswered` is
  a part of it, and not inductive alone: a list that named a call answered before
  would put it on the stack.
* `RingInv`: for each pipe the tail is `head + len` around the ring, cell `head + k`
  holds byte `got + k`, `got + len` is `sent`, and a pipe without readers is empty
  (`RingOK`), so that a slot used again starts clean.
* `WakeInv`: for each parked call that could proceed, its event is on the stack or in
  the buffer, and in the second case a drain is on the stack (`ComingInv`; a fork's
  events wait in the buffer for the next call to complete, and none of them is what a
  parked call waits for); and a broad wake is scheduled, or the frames on the stack
  will schedule it (`BroadInv`). A wake-up is thus followed through nested drains in
  which calls park again, complete and push new events.

The hypothesis `UntimedWrites` cannot be dropped: a write that timed out stays
registered (run `send_timeout`, section 6) and the host later runs a channel that
holds no call, of which nothing can be said.

Proving corrected the models in three places, each compared with the code again and
its runs repeated: the order in which a moving `mremap` records and removes ranges,
`RegionsApart` for a mapping and a slot with the same bounds (a set of records had
hidden the overlap), and `shmat`, which refreshes attached processes one at a time.

Proving also showed where a definition could not be reasoned about, and these were
stated again: `References` counts pairs of process and slot instead of adding sums, the
bound on messages is per OFD, and the tokens of a semaphore are counted per semaphore.

**Only model-checked.** `ProcessLife` (`NoLostWait`, `WorkersRetired`, `StatusSound`,
`DeathTold`, `TermKept`): the host's handlers nest to any depth, the model says so with
mutually recursive operators, and the prover loses its SMT backend in a module that has
them. What the nesting computes would need induction as well. All liveness
(`NoStarvedWaiter`, `OpenReturns`, `AnsweredCallsReturn`, `OrphansReturn`) needs
fairness and `ENABLED`, and stays with TLC. Every other property that a passing run
checks is a theorem.

## 5. What is not modelled, and why

* Paths, devfs, procfs, the ABI layer: string processing and marshalling without
  state of their own.
* Devices, graphics, audio, host kernels, VFS images, dynamic linking: platform
  I/O and loaders.
* Fork instrumentation: a WebAssembly compiler pass, outside TLC's reach.
* The rest of the table in section 1 without a module is planned, see section 7.

Seen while reading, and not stated as properties. Of calls that fail half way:

* `sys_open` loses the host handle if `host_chown` fails after it; `sys_pipe`
  loses the pipe slot when no descriptor is left. `open("/dev/fd/N")` on a full
  table keeps its slot reference (`OpenDevFd`), so a flock lock may outlive the
  last descriptor.
* `pthread_cond_wait` on a destroyed condition gives the mutex up and enqueues
  nothing (`CondWaitBegin`).

Of blocking calls:

* The host retries `semop` and `msgsnd` with `IPC_NOWAIT` as well. A caught signal
  does not interrupt a parked call of a running process that waits on the default
  timer: the host parks it again. There is no `SEM_UNDO`, and nothing a process did
  to a semaphore is undone when it ends. A negative message type takes the first
  message that qualifies, not the one of the lowest type. A receive that truncates
  (`MSG_NOERROR`) takes the truncated length off the queue's byte count, so that
  the rest stays counted.
* `poll` says a pipe is writable when a write of at most `PIPE_BUF` would block. A
  `pthread_cancel` between the submission of a pipe read and its parking is not
  remembered by the host. A blocked FIFO open pushes events that are drained with
  the next call only.

Of processes:

* A waiter whose mask does not take exits stays parked when another waiter reaps the
  last child; a wait that is answered directly does not look at parked ones again.
  A failed launch removes the child without waking a sibling thread in `wait`, and
  a launching child that is killed and reaped meanwhile sends no `SIGCHLD`.
* `setpgid` and `setsid` of the caller do not release a limbo leader they leave
  without members, and `setpgid` accepts a limbo child. Children of a dead process
  are not given a new parent. `kill(0)` and a kill of the caller's own group reach
  the caller only. A stop that becomes deliverable while a wait is parked takes
  effect at the next drain.

Of memory: `mremap` rounds its new length without an overflow check; a hint above an
unaligned break may give an unaligned address; a forked child has its parent's
resource limits but not its `data_limit`.

## 6. Disagreements between the code and its comments

`send_timeout` is a run that TLC must find violated: a stream socket's write that
timed out has been answered, but its entry stays among the parked writers, so a
later wake-up runs the same write again; its bytes may go out although the program
was told they had not.

The others have no run of their own. The definition named exists in the module;
checked as an invariant or property with the constants given, TLC violates it.

| Property | Instance | What happens |
|---|---|---|
| `FileLocks!ReapClosesNothing` | as `descriptors` | `open` creates handle and OFD slot before it asks for a descriptor; on `EMFILE` both stay, so reaping a zombie closes a handle, which the comment in `remove_process_inner` rules out |
| `NamedFifo!HangupAfterWriter` | as `fifo` | a reader gets `POLLHUP` although no open for writing ever succeeded: it met the reservation of a writer that was cancelled |
| `PShared!BarrierRounds` | as `pshared` | `barrier_wait` counts entries of the last round that were released and not collected: the party that returns first and comes back at once passes the next round alone, and its peer is stuck |
| `PShared!SignalReachesLive` | as `pshared` | exit leaves the queues alone; until the zombie is reaped a signal may go to it and not to a live waiter |
| `PShared!ReacquireWaits` | as `pshared_threads` | mutex owners are pids: a signaled waiter re-enters while another thread of its process holds the mutex |
| `SharedMemory!SeesDetachedPeer` | as `shared_memory` | with a single mapping left the host skips the import, so it never sees what the peer published when it left, though `docs/architecture.md` promises the merge at every call |
| `Memory!HeldStaysMapped` | `Layouts <- OnlyCompact` | `MAP_FIXED` over part of the program's mappings removes whole mappings, where `docs/posix-status.md` speaks of "the complete rounded page range" |
| `SharedMemory!CountsMappings` | as `shared_memory` | a terminating signal delivered in the mmap that `handleIpcShmat` makes returns before `kernelShmdt`: `nattch` stays one too high for ever, where `docs/posix-status.md` speaks of "exact attach/detach accounting" |
| `SysvIpc!TokensConserved` | `SopArrays <- Doubled` | a `semop` that names one semaphore twice checks each operation against the old value and applies both: the value wraps below zero |
| `ProcessLife!SignalDeathRetires` | as `process_life` | one signal kills two children; telling the parent of the first death wakes a wait that takes the second's exit, so the scan no longer finds it and its Worker is never retired, where the comment before the scan says "Retire a newly exited worker before considering any blocking-channel wakeup" |

## 7. Plan

Done: all modules of section 2; the proofs of `LockManager`, `AdvisoryLock`,
`FileLocks`, `PShared`, `Memory`, `NamedFifo`, `SysvIpc`, `SharedMemory` and `Pipes`.
Next:

1. `Ancillary`: the collector of unreachable descriptor cycles against
   reachability. `Sockets`: backlog, accept, shutdown, datagram queues.
2. `MessageQueue`, `Pty`; `ThreadSlots` and `SharedPipeBuffer` (the Atomics ring
   between two hosts).

Each new module gets one passing run that checks all of its properties, and a
second one only where fairness, symmetry or the number of threads must differ.
