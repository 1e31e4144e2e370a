---------------------------- MODULE ProcessLife ----------------------------
(***************************************************************************)
(* The life of a process: fork, stop, continue, death, wait.  The kernel's  *)
(* process table (crates/kernel/src/process_table.rs, process.rs,           *)
(* signal.rs, wasm_api.rs) records states and one wait status per process;  *)
(* the host (host/src/kernel-worker.ts) parks wait4/waitid calls, retires   *)
(* the Worker of a dead process and tells its parent, exactly once.         *)
(*                                                                          *)
(* Each call of the host runs to its end on one JavaScript thread, so each  *)
(* is one action; what happens inside it nests (a death sends SIGCHLD,      *)
(* which finds further deaths, which ...), and the operators below nest the *)
(* same way.  They take and return a world: the part of the state that      *)
(* these nested calls change.  Worker launches and teardowns are the        *)
(* asynchronous steps.                                                      *)
(*                                                                          *)
(* Signals: SIGKILL, SIGTERM (always default), SIGSTOP, SIGCONT, and        *)
(* SIGCHLD with a disposition.  Nothing is blocked; sessions, credentials,  *)
(* exec and the values of statuses are left out.                            *)
(***************************************************************************)
EXTENDS Integers, FiniteSets, Sequences, SequencesExt, FiniteSetsExt

CONSTANTS
    MaxPid,         \* process ids are 1 .. MaxPid, never reused
    Programs        \* kinds of program, one of which runs: see Program

Pids == 1 .. MaxPid
Root == 1
Nobody == 0
Signals == {"KILL", "TERM", "STOP", "CONT"}
Statuses == {"stopped", "continued", "exited"}
Dispositions == {"default", "caught", "nocldstop", "ignored"}
\* Target of a wait: one child, any child, the caller's group, a group
Targets == [kind : {"pid", "pgid"}, id : Pids] \cup [kind : {"any", "own"}]

\* What a program does (a process whose threads make no calls only exits or
\* crashes; groups are those it signals and puts processes in), and whether the
\* host can fail to launch a Worker
Program ==
    [threads : [Pids -> SUBSET {1, 2}], disps : SUBSET Dispositions,
     signals : SUBSET Signals, groups : SUBSET Pids,
     processes : Pids, targets : SUBSET Targets, masks : SUBSET SUBSET Statuses,
     peeks : BOOLEAN, launchFails : BOOLEAN]

ASSUME LifeConstants == MaxPid \in Nat \ {0} /\ Programs \subseteq Program

VARIABLES
    program,        \* the kind of program that runs
    next,           \* the next process id
    worker,         \* worker[p]: "none", "launching", "up" (registered), "down"
    forker,         \* forker[c]: thread that waits for the launch of c
    world           \* kernel table and host queues: see World

vars == <<program, next, worker, forker, world>>

States == {"absent", "running", "stopped", "exited", "limbo"}

Process ==
    [state : States, ppid : Pids \cup {Nobody}, pgid : Pids,
     event : Statuses \cup {"none"}, bysig : BOOLEAN, disp : Dispositions,
     pending : SUBSET {"TERM", "STOP", "CHLD"}]

Waiter == [proc : Pids, thread : {1, 2}, target : Targets,
           mask : SUBSET Statuses, peek : BOOLEAN]

World ==
    [tab : [Pids -> Process],                   \* ProcessTable.processes
     events : Seq(Pids),                        \* stop and continue wake-ups
     waiters : Seq(Waiter),                     \* waitingForChild
     reaped : SUBSET Pids,                      \* hostReaped
     fate : [Pids -> {"none", "waited", "auto", "removed"}],  \* history
     told : [Pids -> Nat]]                      \* history: parent told

\* One type for every variable; a running or stopped child has no exit status
TypeOK ==
    /\ program \in Programs
    /\ next \in 2 .. MaxPid + 1
    /\ worker \in [Pids -> {"none", "launching", "up", "down"}]
    /\ forker \in [Pids -> {0, 1, 2}]
    /\ world \in World
    /\ \A p \in Pids :
          world.tab[p].event = "exited" => world.tab[p].state = "exited"

----------------------------------------------------------------------------
(* Kernel: states and signals of one process *)

Alive(r) == r.state \in {"running", "stopped"}

NoProcess ==
    [state |-> "absent", ppid |-> Nobody, pgid |-> Root, event |-> "none",
     bysig |-> FALSE, disp |-> "default", pending |-> {}]

\* record_normal_exit, record_signal_exit
Exited(r, bysig) ==
    IF Alive(r)
    THEN [r EXCEPT !.state = "exited", !.event = "exited", !.bysig = bysig,
                   !.pending = {}]
    ELSE r

\* record_stop
Stopped(r) == [r EXCEPT !.state = "stopped", !.event = "stopped"]

\* record_continue
Continued(r) ==
    IF r.state = "stopped"
    THEN [r EXCEPT !.state = "running", !.event = "continued"]
    ELSE r

Caught(r) == r.disp \in {"caught", "nocldstop"}

\* Mutant: SIGCONT discards whatever the stopped process had kept
GeneratedFresh(r, sig) ==
    CASE sig = "CONT" -> Continued([r EXCEPT !.pending = {}])
      [] sig = "CHLD" /\ ~ Caught(r) -> r
      [] OTHER -> [r EXCEPT !.pending = @ \cup {sig}]

\* prepare_signal_generation, then the signal is pending
Generated(r, sig) ==
    CASE sig = "CONT" -> Continued([r EXCEPT !.pending = @ \ {"STOP"}])
      [] sig = "CHLD" /\ ~ Caught(r) -> r
      [] OTHER -> [r EXCEPT !.pending = @ \cup {sig}]

\* deliver_pending_signals: lowest number first (SIGTERM, SIGCHLD, SIGSTOP).
\* A stopped process keeps all but SIGKILL; a caught signal ends the loop.
Delivered(r) ==
    CASE r.state # "running" -> r
      [] r.state = "running" /\ "TERM" \in r.pending -> Exited(r, TRUE)
      [] r.state = "running" /\ r.pending = {"STOP"} ->
            Stopped([r EXCEPT !.pending = {}])
      [] OTHER -> r

\* raise_signal and deliver_pending_signals on one process, as kill() does
Raised(r, sig) ==
    IF ~ Alive(r) THEN r
    ELSE IF sig = "KILL" THEN Exited(r, TRUE)
    ELSE Delivered(Generated(r, sig))

\* Raise sig on every process of ps; stops and continues push wake-ups
Raise(w, ps, sig) ==
    LET after == [p \in Pids |->
                    IF p \in ps THEN Raised(w.tab[p], sig) ELSE w.tab[p]]
        pushed(p) == Alive(w.tab[p]) /\ w.tab[p].state # after[p].state
                     /\ \/ after[p].state = "stopped"
                        \/ sig = "CONT" /\ w.tab[p].state = "stopped"
    IN  [w EXCEPT !.tab = after,
                  !.events = @ \o SetToSortSeq({p \in Pids : pushed(p)}, <)]

\* kernel_dequeue_signal at a boundary of p: hand over a caught SIGCHLD, or
\* apply the pending stop
Dequeue(w, p) ==
    IF w.tab[p].state = "running" /\ "CHLD" \in w.tab[p].pending
    THEN [w EXCEPT !.tab[p].pending = @ \ {"CHLD"}]
    ELSE [w EXCEPT !.tab[p] = Delivered(@),
                   !.events = IF Delivered(w.tab[p]).state # w.tab[p].state
                              THEN Append(@, p) ELSE @]

----------------------------------------------------------------------------
(* Kernel: removal and wait *)

\* group_has_member
GroupHasMember(tab, g) ==
    \E p \in Pids \ {g} :
        tab[p].pgid = g /\ tab[p].state \notin {"absent", "limbo"}

\* prune_empty_limbo_groups
Pruned(tab) ==
    [p \in Pids |->
        IF tab[p].state = "limbo" /\ tab[p].pgid = p /\ ~ GroupHasMember(tab, p)
        THEN NoProcess ELSE tab[p]]

\* remove_process
Removed(tab, p) == Pruned([tab EXCEPT ![p] = NoProcess])

\* reap_process: the leader of a group that has members stays in limbo
Reaped(tab, p) ==
    IF tab[p].pgid = p /\ GroupHasMember(tab, p)
    THEN Pruned([tab EXCEPT ![p] = [@ EXCEPT !.state = "limbo",
                    !.event = "none", !.pending = {}, !.disp = "default"]])
    ELSE Removed(tab, p)

\* child_matches_wait_target
Matches(tab, p, c, target) ==
    CASE target.kind = "pid"  -> c = target.id
      [] target.kind = "any"  -> TRUE
      [] target.kind = "own"  -> tab[c].pgid = tab[p].pgid
      [] target.kind = "pgid" -> tab[c].pgid = target.id

Children(tab, p, target) ==
    {c \in Pids : /\ tab[c].ppid = p
                  /\ tab[c].state \notin {"absent", "limbo"}
                  /\ Matches(tab, p, c, target)}

\* Children whose status the request accepts
Ready(tab, r) ==
    {c \in Children(tab, r.proc, r.target) : tab[c].event \in r.mask}

\* poll_wait_event: "error" is ECHILD, or ESRCH when the caller is gone
Poll(tab, r) ==
    IF tab[r.proc].state = "absent" \/ Children(tab, r.proc, r.target) = {}
    THEN "error"
    ELSE IF Ready(tab, r) # {} THEN "event" ELSE "running"

\* kernel_wait_child_poll: take the first status; taking an exit reaps
Take(w, r) ==
    LET c == Min(Ready(w.tab, r))
    IN  IF r.peek \/ Poll(w.tab, r) # "event" THEN w
        ELSE IF w.tab[c].event = "exited"
             THEN [w EXCEPT !.tab = Reaped(@, c), !.fate[c] = "waited"]
             ELSE [w EXCEPT !.tab[c].event = "none"]

----------------------------------------------------------------------------
(* Host: waking, telling, retiring.  They nest, hence the recursion. *)

RECURSIVE Drain(_), Wake(_, _), Transition(_, _), SendChld(_, _),
          NotifyParent(_, _), Terminated(_, _), ReapKilled(_)

\* The end of a call of p: a signal goes with it, then wake-ups are drained
Completed(w, p) == Drain(Dequeue(w, p))

\* wakeWaitingParent: poll every waiter of p, then complete the resolved ones
Wake(w, p) ==
    LET step(acc, r) ==
            CASE r.proc # p ->
                    [acc EXCEPT !.w.waiters = Append(@, r)]
              [] r.proc = p /\ worker[p] # "up" -> acc
              [] OTHER ->
                    IF Poll(acc.w.tab, r) = "running"
                    THEN [acc EXCEPT !.w.waiters = Append(@, r)]
                    ELSE [w |-> Take(acc.w, r), done |-> acc.done + 1]
        polled == FoldLeft(step, [w |-> [w EXCEPT !.waiters = <<>>],
                                  done |-> 0], w.waiters)
    IN  FoldLeft(LAMBDA v, i : Completed(v, p), polled.w,
                 [i \in 1 .. polled.done |-> i])

\* interruptWaitingChildForSignal, after the wake: EINTR to the main thread
Interrupt(w, p) ==
    LET main == SelectSeq(w.waiters, LAMBDA r : r.proc = p /\ r.thread = 1)
    IN  IF main = <<>> \/ worker[p] # "up" \/ w.tab[p].state = "absent" THEN w
        ELSE IF w.tab[p].state = "running" /\ "CHLD" \in w.tab[p].pending
        THEN Drain([Dequeue(w, p) EXCEPT !.waiters = Remove(@, Head(main))])
        ELSE Dequeue(w, p)

WakeAndInterrupt(w, p) == Interrupt(Wake(w, p), p)

\* sendSignalToProcess(p, SIGCHLD)
SendChld(w, p) ==
    LET settled == ReapKilled(Drain(Raise(w, {p}, "CHLD")))
        r == settled.tab[p]
    IN  IF r.state = "exited" /\ r.bysig THEN settled
        ELSE WakeAndInterrupt(settled, p)

\* notifyParentOfChildStateTransition
Transition(w, p) ==
    LET parent == w.tab[p].ppid
    IN  CASE parent = Nobody -> w
          [] parent # Nobody /\ w.tab[parent].disp = "nocldstop" ->
                Wake(w, parent)
          [] OTHER -> SendChld(w, parent)

\* Mutant: nobody polls the parked waits after a child was reaped for a
\* parent that wants no zombies.
NotifySilently(w, p) ==
    LET parent == w.tab[p].ppid
        told   == [w EXCEPT !.told[p] = @ + 1]
    IN  CASE parent = Nobody -> w
          [] parent # Nobody /\ w.tab[parent].disp = "ignored" ->
                [told EXCEPT !.tab = Reaped(@, p), !.fate[p] = "auto"]
          [] OTHER -> SendChld(told, parent)

\* notifyParentOfExitedProcess
NotifyParent(w, p) ==
    LET parent == w.tab[p].ppid
        told   == [w EXCEPT !.told[p] = @ + 1]
    IN  CASE parent = Nobody -> w
          [] parent # Nobody /\ w.tab[parent].disp = "ignored" ->
                Wake(IF w.tab[p].state = "exited"
                     THEN [told EXCEPT !.tab = Reaped(@, p),
                                       !.fate[p] = "auto"]
                     ELSE told, parent)
          [] OTHER -> SendChld(told, parent)

\* handleProcessTerminated, finalizeExecHandoffTermination: once per process
Terminated(w, p) ==
    IF p \in w.reaped THEN w
    ELSE NotifyParent(Drain([w EXCEPT !.reaped = @ \cup {p}]), p)

DiedOfSignal(w, p) == w.tab[p].state = "exited" /\ w.tab[p].bysig

\* Mutant: the scan ends at the first process a signal has killed.
ReapKilledFirst(w) ==
    LET killed == {p \in Pids : worker[p] = "up" /\ DiedOfSignal(w, p)}
    IN  IF killed = {} THEN w ELSE Terminated(w, Min(killed))

\* reapKilledProcessesAfterSyscall: registered processes only
ReapKilled(w) ==
    FoldLeft(LAMBDA v, p : IF worker[p] = "up" /\ DiedOfSignal(v, p)
                           THEN Terminated(v, p) ELSE v,
             w, [p \in Pids |-> p])

\* resumeStoppedProcess: the main channel takes a SIGCHLD kept while stopped,
\* and with it EINTR if it was waiting
Resumed(w, p) ==
    IF worker[p] # "up" THEN w
    ELSE LET main == SelectSeq(w.waiters,
                               LAMBDA r : r.proc = p /\ r.thread = 1)
             taken == Dequeue(w, p)
         IN  IF main # <<>> /\ "CHLD" \in w.tab[p].pending
             THEN [taken EXCEPT !.waiters = Remove(@, Head(main))]
             ELSE taken

\* drainAndProcessWakeupEvents, its process events
Drain(w) ==
    LET process(v, p) ==
            CASE v.tab[p].state = "exited"  -> Terminated(v, p)
              [] v.tab[p].state = "stopped" -> Transition(v, p)
              [] v.tab[p].state = "running" -> Transition(Resumed(v, p), p)
              [] OTHER -> v
    IN  IF w.events = <<>> THEN w
        ELSE FoldLeft(process, [w EXCEPT !.events = <<>>], w.events)

\* interruptWaitingChildrenForGeneratedSignal: every process with a waiter
WakeAll(w) ==
    FoldLeft(LAMBDA v, p : IF \E i \in DOMAIN w.waiters : w.waiters[i].proc = p
                           THEN WakeAndInterrupt(v, p) ELSE v,
             w, [p \in Pids |-> p])

\* recheckDeferredWaitpids: waits on a group whose members changed
Recheck(w) ==
    LET onGroup(r) == r.target.kind \in {"own", "pgid"}
        step(v, r) ==
            IF onGroup(r) /\ Poll(v.tab, r) = "error"
            THEN Completed([v EXCEPT !.waiters = Remove(@, r)], r.proc)
            ELSE v
        kept == FoldLeft(step, w, Reverse(w.waiters))
        due  == {r.proc : r \in {x \in ToSet(w.waiters) :
                                    onGroup(x) /\ Poll(w.tab, x) = "event"}}
    IN  FoldLeft(LAMBDA v, p : IF p \in due THEN Wake(v, p) ELSE v,
                 kept, [p \in Pids |-> p])

----------------------------------------------------------------------------
(* Calls of the program, and what happens to Workers *)

Init ==
    /\ program \in Programs
    /\ next = 2
    /\ worker = [p \in Pids |-> IF p = Root THEN "up" ELSE "none"]
    /\ forker = [p \in Pids |-> 0]
    /\ world =
        [tab |-> [p \in Pids |-> IF p = Root
                    THEN [NoProcess EXCEPT !.state = "running"] ELSE NoProcess],
         events |-> <<>>, waiters |-> <<>>, reaped |-> {},
         fate |-> [p \in Pids |-> "none"], told |-> [p \in Pids |-> 0]]

\* Thread t of p can make a call: p runs, and t waits for nothing
Free(p, t) ==
    /\ worker[p] = "up" /\ world.tab[p].state = "running"
    /\ t \in program.threads[p]
    /\ \A i \in DOMAIN world.waiters :
          <<world.waiters[i].proc, world.waiters[i].thread>> # <<p, t>>
    /\ \A c \in Pids : ~ (worker[c] = "launching" /\ forker[c] = t
                          /\ world.tab[c].ppid = p)

\* handleWaitpid, handleWaitid
Wait(p, t) ==
    \E target \in program.targets, mask \in program.masks, peek \in BOOLEAN :
        LET r == [proc |-> p, thread |-> t, target |-> target, mask |-> mask,
                  peek |-> peek]
        IN  /\ Free(p, t)
            /\ peek => program.peeks
            /\ world' =
                IF Poll(world.tab, r) # "running"
                THEN Completed(Take(world, r), p)
                ELSE IF "CHLD" \in world.tab[p].pending
                THEN Completed(world, p)
                ELSE [Dequeue(world, p) EXCEPT !.waiters = Append(@, r)]
            /\ UNCHANGED <<program, next, worker, forker>>

\* fork_process, handleFork up to the launch
Fork(p, t) ==
    /\ Free(p, t)
    /\ next <= program.processes
    /\ world' = [world EXCEPT !.tab[next] =
                    [@ EXCEPT !.state = "running", !.ppid = p,
                              !.pgid = world.tab[p].pgid,
                              !.disp = world.tab[p].disp]]
    /\ worker' = [worker EXCEPT ![next] = "launching"]
    /\ forker' = [forker EXCEPT ![next] = t]
    /\ next' = next + 1
    /\ UNCHANGED program

\* Processes a kill reaches: the caller's own group means the caller alone
Reached(p, target) ==
    CASE target.kind = "pid" -> {target.id}
      [] target.kind = "pgid" /\ world.tab[p].pgid = target.id -> {p}
      [] OTHER -> {q \in Pids : world.tab[q].pgid = target.id
                                /\ world.tab[q].state \notin {"absent", "limbo"}}

\* kernel_kill and what the host does after it
Kill(p, t) ==
    \E sig \in program.signals, target \in [kind : {"pid", "pgid"}, id : Pids] :
        LET ps == Reached(p, target)
        IN  /\ Free(p, t)
            /\ target.kind = "pgid" => target.id \in program.groups
            /\ \E q \in ps : world.tab[q].state # "absent"
            /\ world' = WakeAll(ReapKilled(Drain(
                            Dequeue(Raise(world, ps, sig), p))))
            /\ UNCHANGED <<program, next, worker, forker>>

\* rt_sigaction on SIGCHLD; not catching it discards the pending one
Sigaction(p, t) ==
    \E d \in program.disps :
        /\ Free(p, t)
        /\ d # world.tab[p].disp
        /\ world' = LET set == [world EXCEPT !.tab[p].disp = d]
                    IN  Completed([set EXCEPT !.tab[p].pending =
                            IF Caught(set.tab[p]) THEN @ ELSE @ \ {"CHLD"}], p)
        /\ UNCHANGED <<program, next, worker, forker>>

\* setpgid on the caller or a child of it, to a group of its own or one that
\* is in use; only a change of a child prunes
Setpgid(p, t) ==
    \E q \in Pids : \E g \in {q} \cup {world.tab[x].pgid : x \in Pids} :
        LET moved == [world.tab EXCEPT ![q].pgid = g]
        IN  /\ Free(p, t) /\ g \in program.groups
            /\ q = p \/ world.tab[q].ppid = p
            /\ g # world.tab[q].pgid
            /\ world' = Drain(Recheck(Dequeue([world EXCEPT !.tab =
                            IF q = p THEN moved ELSE Pruned(moved)], p)))
            /\ UNCHANGED <<program, next, worker, forker>>

\* Any other call of a process with signals pending
Boundary(p) ==
    /\ worker[p] = "up" /\ world.tab[p].state = "running"
    /\ world.tab[p].pending # {}
    /\ world' = Completed(world, p)
    /\ UNCHANGED <<program, next, worker, forker>>

\* handleExit; _Exit repeats the call until the Worker is terminated
Exit(p) ==
    /\ worker[p] = "up" /\ world.tab[p].state # "stopped"
    /\ world' = IF DiedOfSignal(world, p) THEN Terminated(world, p)
                ELSE Terminated([world EXCEPT !.tab[p] = Exited(@, FALSE)], p)
    /\ UNCHANGED <<program, next, worker, forker>>

\* Mutant: the teardown of the Worker also drops the process record.
DeactivatedWhole(w, p) ==
    [w EXCEPT !.waiters = SelectSeq(@, LAMBDA r : r.proc # p),
              !.reaped = @ \ {p}, !.tab = Removed(@, p)]

\* deactivateProcess: the registration, the parked waits and the mark go
Deactivated(w, p) ==
    [w EXCEPT !.waiters = SelectSeq(@, LAMBDA r : r.proc # p),
              !.reaped = @ \ {p}]

\* finalizeProcessWorker, notifyHostProcessCrashed: the Worker died by itself
Crash(p) ==
    /\ worker[p] = "up"
    /\ world' = Deactivated(
                    IF world.tab[p].state \in {"absent", "limbo"} THEN world
                    ELSE Terminated([world EXCEPT !.tab[p] = Exited(@, TRUE)],
                                    p), p)
    /\ worker' = [worker EXCEPT ![p] = "down"]
    /\ UNCHANGED <<program, next, forker>>

\* finishProcessExit: the Worker of a dead process is gone
Deactivate(p) ==
    /\ worker[p] = "up" /\ p \in world.reaped
    /\ world' = Deactivated(world, p)
    /\ worker' = [worker EXCEPT ![p] = "down"]
    /\ UNCHANGED <<program, next, forker>>

\* The caller of fork gets its answer if it is still there
Answered(w, c) ==
    LET p == world.tab[c].ppid
    IN  IF p # Nobody /\ worker[p] = "up" THEN Completed(w, p) ELSE w

\* Mutant: a child that died while it was launched is not looked at.
LaunchedBlindly(c) ==
    /\ worker[c] = "launching"
    /\ worker' = [worker EXCEPT ![c] = IF Alive(world.tab[c])
                                       THEN "up" ELSE "down"]
    /\ world' = Answered(world, c)
    /\ UNCHANGED <<program, next, forker>>

\* The launch of c ends: c runs, or died meanwhile (finalizePendingChild-
\* Termination)
Launched(c) ==
    /\ worker[c] = "launching"
    /\ worker' = [worker EXCEPT ![c] = IF Alive(world.tab[c])
                                       THEN "up" ELSE "down"]
    /\ world' = Answered(IF DiedOfSignal(world, c) THEN Terminated(world, c)
                         ELSE world, c)
    /\ UNCHANGED <<program, next, forker>>

\* The launch of c fails: rollbackFork removes it
LaunchFailed(c) ==
    /\ worker[c] = "launching" /\ program.launchFails
    /\ worker' = [worker EXCEPT ![c] = "down"]
    /\ world' = Answered([world EXCEPT !.tab = Removed(@, c),
                            !.fate[c] = IF @ = "none" THEN "removed" ELSE @], c)
    /\ UNCHANGED <<program, next, forker>>

Next ==
    \/ \E p \in Pids : \E t \in {1, 2} :
          \/ Wait(p, t) \/ Fork(p, t) \/ Kill(p, t) \/ Sigaction(p, t)
          \/ Setpgid(p, t)
    \/ \E p \in Pids :
          \/ Boundary(p) \/ Exit(p) \/ Crash(p) \/ Deactivate(p)
          \/ Launched(p) \/ LaunchFailed(p)

Spec == Init /\ [][Next]_vars

----------------------------------------------------------------------------
(* Properties *)

\* No parked wait of a live process has an answer it was not given: a child
\* with a status it accepts, or no child left (ECHILD).  Every path that
\* changes a child must poll the parked waits of the parent.  (A stop found
\* while a wait is parked is known to the host only at its next drain.)
NoLostWait ==
    \A i \in DOMAIN world.waiters :
        LET r == world.waiters[i]
        IN  Alive(world.tab[r.proc]) /\ world.events = <<>> =>
                Poll(world.tab, r) = "running"

\* The scan of reapKilledProcessesAfterSyscall tells deaths in the order of pids,
\* and telling one wakes the parent, whose wait may take the exit of a process
\* that the scan has still to come to: it then finds no exit signal there and
\* passes that process by.
Overlooked ==
    {p \in Pids : /\ world.fate[p] = "waited" /\ world.told[p] = 0
                  /\ \E q \in Pids : q < p /\ world.told[q] = 1}

\* A Worker that is still registered belongs to a live process, or the host
\* knows its process died and is retiring it, or the process was overlooked as
\* above: in no other way does a Worker outlive its process unnoticed, whether
\* it exits, crashes, is killed or is reaped without a zombie.
WorkersRetired ==
    \A p \in Pids :
        worker[p] = "up" /\ ~ Alive(world.tab[p]) =>
            p \in world.reaped \cup Overlooked

\* What the comment above the call of that scan says ("Retire a newly exited
\* worker before considering any blocking-channel wakeup; guest code must not
\* resume after signal death", kernel-worker.ts:11036): no process is overlooked.
\* The code breaks it when one signal kills a whole group.
SignalDeathRetires ==
    \A p \in Pids :
        worker[p] = "up" /\ ~ Alive(world.tab[p]) => p \in world.reaped

\* A process leaves the table in one way only: a wait took its exit status, its
\* parent had asked for no zombies, or its launch failed.  No status is lost to
\* a probe, a second poll or a teardown.
StatusDelivered ==
    \A p \in 1 .. next - 1 :
        world.tab[p].state \in {"absent", "limbo"} <=> world.fate[p] # "none"

\* The process table is well-formed, and nothing leaves it but as above.
StatusSound == TypeOK /\ StatusDelivered

\* A SIGTERM sent to a stopped process is not lost: it stays pending until the
\* process is dead (next_deliverable_signal, prepare_signal_generation)
TermKept ==
    [][\A p \in Pids :
          "TERM" \in world.tab[p].pending =>
             \/ "TERM" \in world'.tab[p].pending
             \/ world'.tab[p].state \in {"absent", "exited", "limbo"}]_vars

\* A death is told exactly once.  Never twice, however many of exit, kill, crash
\* and teardown race (hostReaped); and once the launch of a process is over, a
\* zombie is one its parent was told of, also when it was killed before it had a
\* Worker (finalizePendingChildTermination) or died with its Worker.
DeathTold ==
    /\ \A p \in Pids : world.told[p] <= 1
    /\ \A p \in Pids \ {Root} :
          world.tab[p].state = "exited" /\ worker[p] # "launching" =>
              world.told[p] = 1
=============================================================================
