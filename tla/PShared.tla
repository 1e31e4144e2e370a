------------------------------ MODULE PShared ------------------------------
(***************************************************************************)
(* PTHREAD_PROCESS_SHARED mutexes, condition variables and barriers: the    *)
(* kernel table of crates/kernel/src/pshared.rs, driven by threads that     *)
(* issue its system calls (pthread_*.c of the musl overlay).  A call that   *)
(* cannot proceed returns EAGAIN; the host parks it and runs the same       *)
(* handler again later, so every blocking handler is an action enabled for  *)
(* an idle caller (the call) and for a parked one (a retry).                *)
(*                                                                          *)
(* Calls that fail without changing anything and are not parked (EBUSY of   *)
(* trylock, EPERM, EDEADLK) are stuttering steps and have no action.        *)
(***************************************************************************)
EXTENDS Integers, Sequences, FiniteSets, TLC

CONSTANTS
    Procs,          \* pids
    Threads,        \* threads that make the calls
    ProcOf,         \* thread -> its pid
    NoPid,          \* owner 0: unlocked
    MTypes,         \* types of mutex the programs create
    Counts,         \* counts of the barriers the programs create
    Careless,       \* programs may wait on a condition that was destroyed
    MaxIds,         \* bound: objects ever created
    MaxDepth,       \* bound: nested locks of a recursive mutex
    MaxArrivals     \* bound: arrivals at a barrier

ASSUME PSharedConstants ==
    /\ ProcOf \in [Threads -> Procs] /\ NoPid \notin Procs
    /\ MTypes \subseteq {"normal", "recursive", "errorcheck"}
    /\ Counts \subseteq Nat \ {0} /\ Careless \in BOOLEAN
    /\ {MaxIds, MaxDepth, MaxArrivals} \subseteq Nat \ {0}

VARIABLES
    kind,           \* id -> which of the three maps it is a key of
    next_id,
    mutexes, conds, barriers,
    status,         \* process: "live", "zombie", or "gone" (reaped, or a new image)
    pc,             \* thread -> the pthread call it is inside
    held,           \* thread, mutex -> locks it was granted and has not given back
    arrivals,       \* history: calls that arrived at a barrier
    serials         \* history: PTHREAD_BARRIER_SERIAL_THREAD results of a barrier

table == <<kind, next_id, mutexes, conds, barriers>>
history == <<arrivals, serials>>
vars == <<table, status, pc, held, history>>

Ids == 1 .. MaxIds

Mutex == [owner : Procs \cup {NoPid}, recursive_count : Nat,
          mtype : {"normal", "recursive", "errorcheck"}]
CondWaiter == [pid : Procs, mutex_id : Ids, signaled : BOOLEAN]
(* is_serial is left out: the serial caller never leaves an entry behind. *)
BarrierWaiter == [pid : Procs, released : BOOLEAN]

NewMutex(mt) == [owner |-> NoPid, recursive_count |-> 0, mtype |-> mt]
FreeMutex(mx) == [mx EXCEPT !.owner = NoPid, !.recursive_count = 0]

Idle == [op |-> "idle", obj |-> 0, mutex |-> 0]
At(op, id, m) == [op |-> op, obj |-> id, mutex |-> m]

Live(t) == status[ProcOf[t]] = "live"
May(t, call) == Live(t) /\ pc[t] \in {Idle, call}
Return(t) == pc' = [pc EXCEPT ![t] = Idle]

EntriesOf(ws, p) == {i \in DOMAIN ws : ws[i].pid = p}

(* retain(|w| w.pid != pid), one entry after the other *)
RetainOne(kept, w, p) == IF w.pid = p THEN kept ELSE Append(kept, w)
Without(ws, p) ==
    LET kept[n \in 0 .. Len(ws)] ==
            IF n = 0 THEN <<>> ELSE RetainOne(kept[n - 1], ws[n], p)
    IN  kept[Len(ws)]

-----------------------------------------------------------------------------
(* Creation and destruction.  Ids are given out once, across the kinds. *)

AllocId(k) ==
    /\ next_id <= MaxIds
    /\ next_id' = next_id + 1
    /\ kind' = [kind EXCEPT ![next_id] = k]

MutexInit(mtype) ==
    /\ AllocId("mutex")
    /\ mutexes' = [mutexes EXCEPT ![next_id] = NewMutex(mtype)]
    /\ UNCHANGED <<conds, barriers, status, pc, held, history>>

CondInit ==
    /\ AllocId("cond")
    /\ UNCHANGED <<mutexes, conds, barriers, status, pc, held, history>>

BarrierInit(count) ==
    /\ AllocId("barrier")
    /\ barriers' = [barriers EXCEPT ![next_id].count = count]
    /\ UNCHANGED <<mutexes, conds, status, pc, held, history>>

(* EBUSY while a mutex is owned or a queue has entries. *)
InUse(id) ==
    \/ kind[id] = "mutex" /\ mutexes[id].owner # NoPid
    \/ kind[id] = "cond" /\ conds[id] # <<>>
    \/ kind[id] = "barrier" /\ barriers[id].waiters # <<>>

Destroy(id) ==
    /\ kind[id] # "free" /\ ~ InUse(id)
    /\ kind' = [kind EXCEPT ![id] = "free"]
    /\ UNCHANGED <<next_id, mutexes, conds, barriers, status, pc, held, history>>

-----------------------------------------------------------------------------
(* Mutexes *)

Grant(t, m) ==
    /\ mutexes' = [mutexes EXCEPT ![m] =
          [@ EXCEPT !.owner = ProcOf[t], !.recursive_count = 0]]
    /\ held' = [held EXCEPT ![t][m] = 1]

(* mutex_lock and mutex_trylock: they differ in that the first is parked     *)
(* where the second returns EBUSY.                                           *)
MutexLock(t, m) ==
    LET mx == mutexes[m]
        mine == mx.owner = ProcOf[t]
        call == At("lock", m, 0)
    IN  /\ May(t, call)
        /\ \/ /\ kind[m] = "mutex" /\ mx.owner = NoPid
              /\ Grant(t, m) /\ Return(t)
           \/ /\ kind[m] = "mutex" /\ mine /\ mx.mtype = "recursive"
              /\ mx.recursive_count < MaxDepth
              /\ mutexes' = [mutexes EXCEPT ![m].recursive_count = @ + 1]
              /\ held' = [held EXCEPT ![t][m] = @ + 1]
              /\ Return(t)
           \/ /\ kind[m] = "mutex" /\ mx.owner # NoPid
              /\ ~ (mine /\ mx.mtype \in {"recursive", "errorcheck"})
              /\ pc' = [pc EXCEPT ![t] = call]
              /\ UNCHANGED <<mutexes, held>>
           \/ /\ \/ kind[m] # "mutex"                            \* EINVAL
                 \/ mine /\ mx.mtype = "errorcheck"              \* EDEADLK
              /\ Return(t)
              /\ UNCHANGED <<mutexes, held>>
    /\ UNCHANGED <<kind, next_id, conds, barriers, status, history>>

(* As if one unlock gave up every nested lock. *)
UnlockedAtOnce(mx) == FreeMutex(mx)

Unlocked(mx) ==
    IF mx.mtype = "recursive" /\ mx.recursive_count > 0
    THEN [mx EXCEPT !.recursive_count = @ - 1] ELSE FreeMutex(mx)

(* A program gives back a lock it was granted; EPERM if the kernel names     *)
(* another owner.                                                            *)
MutexUnlock(t, m) ==
    /\ Live(t) /\ pc[t] = Idle /\ held[t][m] > 0
    /\ kind[m] = "mutex" /\ mutexes[m].owner = ProcOf[t]
    /\ held' = [held EXCEPT ![t][m] = @ - 1]
    /\ mutexes' = [mutexes EXCEPT ![m] = Unlocked(@)]
    /\ UNCHANGED <<kind, next_id, conds, barriers, status, pc, history>>

-----------------------------------------------------------------------------
(* Condition variables *)

(* As if a woken waiter took the mutex without looking. *)
ReacquirableAlways(m, p) == kind[m] = "mutex"

Reacquirable(m, p) == kind[m] = "mutex" /\ mutexes[m].owner \in {NoPid, p}

(* As if a woken waiter left its entry behind. *)
AwakeKept(ws, p) == ws

Awake(ws, p) == Without(ws, p)

(* The first call of pthread_cond_wait, with the mutex locked once.  The     *)
(* mutex is released before the condition is looked up.                      *)
CondWaitBegin(t, c, m) ==
    LET p == ProcOf[t]
        entry == [pid |-> p, mutex_id |-> m, signaled |-> FALSE]
    IN  /\ Live(t) /\ pc[t] = Idle /\ held[t][m] = 1
        /\ kind[m] = "mutex" /\ mutexes[m].owner = p
        /\ mutexes' = [mutexes EXCEPT ![m] = FreeMutex(@)]
        /\ \/ /\ kind[c] = "cond"
              /\ conds' = IF EntriesOf(conds[c], p) # {} THEN conds
                          ELSE [conds EXCEPT ![c] = Append(@, entry)]
              /\ held' = [held EXCEPT ![t][m] = 0]
              /\ pc' = [pc EXCEPT ![t] = At("check", c, m)]
           \/ /\ Careless /\ c < next_id /\ kind[c] # "cond"     \* EINVAL
              /\ UNCHANGED <<conds, held, pc>>
    /\ UNCHANGED <<kind, next_id, barriers, status, history>>

(* The second call: proceeds once signaled and with the mutex free.  Any     *)
(* error but EAGAIN makes pthread_cond_wait abort the wait.                  *)
CondWaitCheck(t) ==
    LET p == ProcOf[t]
        c == pc[t].obj
        m == pc[t].mutex
        mine == {conds[c][i] : i \in EntriesOf(conds[c], p)}
        matching == {w \in mine : kind[c] = "cond" /\ w.mutex_id = m}
        signaled == \E w \in matching : w.signaled
    IN  /\ Live(t) /\ pc[t].op = "check"
        /\ \/ /\ signaled /\ Reacquirable(m, p)
              /\ Grant(t, m)
              /\ conds' = [conds EXCEPT ![c] = Awake(@, p)]
              /\ Return(t)
           \/ /\ matching = {} \/ (signaled /\ kind[m] # "mutex")  \* EINVAL
              /\ pc' = [pc EXCEPT ![t] = At("abort", c, 0)]
              /\ UNCHANGED <<mutexes, conds, held>>
    /\ UNCHANGED <<kind, next_id, barriers, status, history>>

CondWaitAbort(t) ==
    /\ Live(t) /\ pc[t].op = "abort"
    /\ conds' = [conds EXCEPT ![pc[t].obj] = Without(@, ProcOf[t])]
    /\ Return(t)
    /\ UNCHANGED <<kind, next_id, mutexes, barriers, status, held, history>>

(* cond_signal marks the oldest waiter that is not yet marked. *)
NextToWake(ws) ==
    {i \in DOMAIN ws : ~ ws[i].signaled /\ \A j \in 1 .. i - 1 : ws[j].signaled}

CondSignal(c) ==
    /\ kind[c] = "cond"
    /\ \E i \in NextToWake(conds[c]) :
          conds' = [conds EXCEPT ![c][i].signaled = TRUE]
    /\ UNCHANGED <<kind, next_id, mutexes, barriers, status, pc, held, history>>

CondBroadcast(c) ==
    /\ kind[c] = "cond" /\ \E i \in DOMAIN conds[c] : ~ conds[c][i].signaled
    /\ conds' = [conds EXCEPT ![c] =
          [i \in DOMAIN @ |-> [@[i] EXCEPT !.signaled = TRUE]]]
    /\ UNCHANGED <<kind, next_id, mutexes, barriers, status, pc, held, history>>

-----------------------------------------------------------------------------
(* Barriers *)

(* As if the last arrival left its own entry behind. *)
ReleasedAll(ws, p) ==
    [i \in DOMAIN ws |-> [ws[i] EXCEPT !.released = TRUE]]
        \o <<[pid |-> p, released |-> TRUE]>>

(* All entries of the round; the last arrival consumes its own. *)
ReleasedRound(ws, p) == [i \in DOMAIN ws |-> [ws[i] EXCEPT !.released = TRUE]]

(* A pid with an entry is a retry; any other call is a new arrival, and the  *)
(* one that fills the barrier releases every entry and leaves at once.       *)
BarrierWait(t, b) ==
    LET p == ProcOf[t]
        ws == barriers[b].waiters
        mine == EntriesOf(ws, p)
        call == At("barrier", b, 0)
        entry == [pid |-> p, released |-> FALSE]
    IN  /\ May(t, call)
        /\ \/ /\ kind[b] = "barrier" /\ \E i \in mine : ws[i].released
              /\ barriers' = [barriers EXCEPT ![b].waiters = Without(@, p)]
              /\ Return(t) /\ UNCHANGED history
           \/ /\ kind[b] = "barrier" /\ \E i \in mine : ~ ws[i].released
              /\ pc' = [pc EXCEPT ![t] = call]
              /\ UNCHANGED <<barriers, history>>
           \/ /\ kind[b] = "barrier" /\ mine = {} /\ arrivals[b] < MaxArrivals
              /\ arrivals' = [arrivals EXCEPT ![b] = @ + 1]
              /\ IF Len(ws) + 1 = barriers[b].count
                 THEN /\ barriers' = [barriers EXCEPT ![b].waiters = ReleasedRound(@, p)]
                      /\ serials' = [serials EXCEPT ![b] = @ + 1]
                      /\ Return(t)
                 ELSE /\ barriers' = [barriers EXCEPT ![b].waiters = Append(@, entry)]
                      /\ pc' = [pc EXCEPT ![t] = call]
                      /\ UNCHANGED serials
           \/ /\ kind[b] # "barrier"                             \* EINVAL
              /\ Return(t) /\ UNCHANGED <<barriers, history>>
    /\ UNCHANGED <<kind, next_id, mutexes, conds, status, held>>

-----------------------------------------------------------------------------
(* Processes and threads come to an end *)

(* pthread_cancel by a sibling completes a parked call with EINTR; only      *)
(* pthread_cond_wait tidies up after it.                                     *)
ThreadCancel(t) ==
    /\ Live(t) /\ pc[t].op \in {"lock", "check", "barrier"}
    /\ \E u \in Threads \ {t} : ProcOf[u] = ProcOf[t] /\ pc[u] = Idle
    /\ pc' = [pc EXCEPT ![t] =
          IF @.op = "check" THEN At("abort", @.obj, 0) ELSE Idle]
    /\ UNCHANGED <<table, status, held, history>>

Vanish(p) ==
    /\ pc' = [t \in Threads |-> IF ProcOf[t] = p THEN Idle ELSE pc[t]]
    /\ held' = [t \in Threads |->
          IF ProcOf[t] = p THEN [m \in Ids |-> 0] ELSE held[t]]

(* exit and death by a signal leave the table alone until the zombie is      *)
(* reaped.                                                                   *)
Exit(p) ==
    /\ status[p] = "live"
    /\ status' = [status EXCEPT ![p] = "zombie"]
    /\ Vanish(p)
    /\ UNCHANGED <<table, history>>

(* As if cleanup_process forgot the barriers. *)
BarriersKept(p) == barriers

BarriersWithout(p) ==
    [b \in Ids |-> [barriers[b] EXCEPT !.waiters = Without(@, p)]]

(* cleanup_process: a zombie is reaped, a crashed process is removed, or     *)
(* exec replaces an image; the new one knows none of the ids.                *)
Cleanup(p) ==
    /\ status[p] # "gone"
    /\ status' = [status EXCEPT ![p] = "gone"]
    /\ mutexes' = [m \in Ids |->
          IF mutexes[m].owner = p THEN FreeMutex(mutexes[m]) ELSE mutexes[m]]
    /\ conds' = [c \in Ids |-> Without(conds[c], p)]
    /\ barriers' = BarriersWithout(p)
    /\ Vanish(p)
    /\ UNCHANGED <<kind, next_id, history>>

-----------------------------------------------------------------------------
Init ==
    /\ kind = [i \in Ids |-> "free"] /\ next_id = 1
    /\ mutexes = [i \in Ids |-> NewMutex("normal")]
    /\ conds = [i \in Ids |-> <<>>]
    /\ barriers = [i \in Ids |-> [count |-> 1, waiters |-> <<>>]]
    /\ status = [p \in Procs |-> "live"]
    /\ pc = [t \in Threads |-> Idle]
    /\ held = [t \in Threads |-> [m \in Ids |-> 0]]
    /\ arrivals = [i \in Ids |-> 0] /\ serials = [i \in Ids |-> 0]

(* Objects are made, destroyed and signaled by some running program. *)
Running == \E t \in Threads : Live(t) /\ pc[t] = Idle

Next ==
    \/ Running /\ \E mt \in MTypes : MutexInit(mt)
    \/ Running /\ CondInit
    \/ Running /\ \E n \in Counts : BarrierInit(n)
    \/ \E i \in Ids :
          Running /\ (Destroy(i) \/ CondSignal(i) \/ CondBroadcast(i))
    \/ \E t \in Threads :
          \/ \E i \in Ids : i < next_id
                /\ (MutexLock(t, i) \/ MutexUnlock(t, i) \/ BarrierWait(t, i))
          \/ \E c, m \in Ids : CondWaitBegin(t, c, m)
          \/ CondWaitCheck(t) \/ CondWaitAbort(t) \/ ThreadCancel(t)
    \/ \E p \in Procs : Exit(p) \/ Cleanup(p)

Spec == Init /\ [][Next]_vars

-----------------------------------------------------------------------------
(* Types: counters stay in range and every id in a queue or call exists. *)
TypeOK ==
    /\ kind \in [Ids -> {"free", "mutex", "cond", "barrier"}]
    /\ next_id \in 1 .. MaxIds + 1
    /\ mutexes \in [Ids -> Mutex]
    /\ conds \in [Ids -> Seq(CondWaiter)]
    /\ barriers \in [Ids -> [count : Nat \ {0}, waiters : Seq(BarrierWaiter)]]
    /\ status \in [Procs -> {"live", "zombie", "gone"}]
    /\ pc \in [Threads -> [op : {"idle", "lock", "check", "abort", "barrier"},
                           obj : 0 .. MaxIds, mutex : 0 .. MaxIds]]
    /\ held \in [Threads -> [Ids -> Nat]]
    /\ arrivals \in [Ids -> Nat] /\ serials \in [Ids -> Nat]

(* With one thread per process, no two threads have been granted the same    *)
(* mutex, whatever mix of lock, unlock, condition waits and deaths led here. *)
MutualExclusion ==
    \A t, u \in Threads, m \in Ids : held[t][m] > 0 /\ held[u][m] > 0 => t = u

(* With one thread per process, the owner and the nesting the kernel keeps   *)
(* are exactly what the owning program was granted and has not given back:   *)
(* its next unlock is neither refused nor premature.                         *)
HoldersAgree ==
    \A t \in Threads, m \in Ids : Live(t) =>
        held[t][m] = IF kind[m] = "mutex" /\ mutexes[m].owner = ProcOf[t]
                     THEN mutexes[m].recursive_count + 1 ELSE 0

(* With one thread per process, a live thread has an entry in a queue        *)
(* exactly while it is inside the call that made it: a wait is never        *)
(* forgotten (EINVAL on the next check) and none is left over to swallow a   *)
(* signal or to count at a barrier.                                          *)
WaitersKnown ==
    \A t \in Threads, i \in Ids : Live(t) =>
        /\ EntriesOf(conds[i], ProcOf[t]) # {}
              <=> pc[t].op \in {"check", "abort"} /\ pc[t].obj = i
        /\ EntriesOf(barriers[i].waiters, ProcOf[t]) # {}
              <=> pc[t].op = "barrier" /\ pc[t].obj = i /\ kind[i] = "barrier"

(* The tables are well-formed, and their queues hold those who wait. *)
QueuesSound == TypeOK /\ WaitersKnown

(* Nobody overtakes on a condition: whoever waits longer is signaled first,  *)
(* also after waits were aborted and processes died in between.              *)
SignaledFirst ==
    \A c \in Ids : \A j \in DOMAIN conds[c] :
        conds[c][j].signaled => \A i \in 1 .. j : conds[c][i].signaled

(* A barrier always has room for one more arrival: its entries, collected or *)
(* not, stay below the count, so the test len == count is not jumped over    *)
(* and later arrivals can still fill it.                                     *)
BarrierOpen ==
    \A b \in Ids : kind[b] = "barrier" =>
        Len(barriers[b].waiters) < barriers[b].count

(* Neither kind of queue ever jams: signals go by age, barriers can fill. *)
QueuesInOrder == SignaledFirst /\ BarrierOpen

(* What was reaped, removed or replaced by exec owns no mutex and waits in   *)
(* no queue.                                                                 *)
GoneLeavesNothing ==
    \A p \in Procs, i \in Ids : status[p] = "gone" =>
        /\ mutexes[i].owner # p
        /\ EntriesOf(conds[i], p) = {} /\ EntriesOf(barriers[i].waiters, p) = {}

(* pshared.rs:338: PTHREAD_BARRIER_SERIAL_THREAD "for exactly one caller per *)
(* round": count arrivals for every one of them.                             *)
BarrierRounds == \A b \in Ids : arrivals[b] >= barriers[b].count * serials[b]

(* process_table.rs:555: the entries of a process that ended are dropped "so *)
(* peers aren't wedged on mutexes or waiter queues": a signal goes to a live *)
(* waiter while there is one.                                                *)
LiveWaiter(c, i) == status[conds[c][i].pid] = "live" /\ ~ conds[c][i].signaled
SignalReachesLive ==
    [][\A c \in Ids : CondSignal(c) /\ (\E i \in DOMAIN conds[c] : LiveWaiter(c, i))
          => \E i \in DOMAIN conds[c] : LiveWaiter(c, i) /\ conds'[c][i].signaled]_vars

(* pshared.rs:237: cond_wait_check reacquires "if this pid has been signaled *)
(* and the mutex is available": no thread was granted it before.             *)
ReacquireWaits ==
    [][\A t \in Threads, m \in Ids :
          pc[t].op = "check" /\ held[t][m] = 0 /\ held'[t][m] > 0
              => \A u \in Threads : held[u][m] = 0]_vars
=============================================================================
