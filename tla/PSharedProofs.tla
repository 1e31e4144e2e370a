--------------------------- MODULE PSharedProofs ---------------------------
(***************************************************************************)
(* Proofs about PShared, for any number of processes, objects, nested locks *)
(* and arrivals.                                                            *)
(*                                                                          *)
(* Mutexes: mutual exclusion, as long as every process has one thread and   *)
(* no program waits on a destroyed condition (OneThreadEach).  That part    *)
(* never looks inside conds or barriers.                                    *)
(*                                                                          *)
(* Queues: signals go by age, barriers stay open and the removed leave      *)
(* nothing, whatever the programs do; with OneThreadEach an entry is there  *)
(* exactly while its call is.                                               *)
(***************************************************************************)
EXTENDS PShared, TLAPS, WellFoundedInduction

(* The programs the theorems are about. *)
OneThreadEach ==
    /\ \A t, u \in Threads : ProcOf[t] = ProcOf[u] => t = u
    /\ ~ Careless

(* The part of TypeOK that mutexes need. *)
MutexTypes ==
    /\ kind \in [Ids -> {"free", "mutex", "cond", "barrier"}]
    /\ next_id \in 1 .. MaxIds + 1
    /\ mutexes \in [Ids -> Mutex]
    /\ status \in [Procs -> {"live", "zombie", "gone"}]
    /\ pc \in [Threads -> [op : {"idle", "lock", "check", "abort", "barrier"},
                           obj : 0 .. MaxIds, mutex : 0 .. MaxIds]]
    /\ held \in [Threads -> [Ids -> Nat]]

(* Ids not given out yet are not in use, a parked waiter names a mutex, only *)
(* recursive mutexes nest, and the dead hold nothing.                        *)
Fresh == \A i \in Ids : i >= next_id => kind[i] = "free"
WaiterNamesMutex == \A t \in Threads : pc[t].op = "check" => pc[t].mutex \in Ids
NestingIsRecursive == \A m \in Ids :
    mutexes[m].mtype # "recursive" => mutexes[m].recursive_count = 0
DeadHoldNothing == \A t \in Threads, m \in Ids : ~ Live(t) => held[t][m] = 0

IInv ==
    /\ MutexTypes /\ Fresh /\ WaiterNamesMutex
    /\ NestingIsRecursive /\ DeadHoldNothing /\ HoldersAgree

(* The inductive invariant gives mutual exclusion: a holder is live, hence   *)
(* the owner, and an owner has one thread.                                   *)
LEMMA ExclusionFromAgreement ==
    ASSUME OneThreadEach, IInv PROVE MutualExclusion
<1> SUFFICES ASSUME NEW t \in Threads, NEW u \in Threads, NEW m \in Ids,
                    held[t][m] > 0, held[u][m] > 0
             PROVE  t = u
    BY DEF MutualExclusion
<1>1. Live(t) /\ Live(u)
    BY DEF IInv, DeadHoldNothing, MutexTypes
<1>2. mutexes[m].owner = ProcOf[t] /\ mutexes[m].owner = ProcOf[u]
    BY <1>1 DEF IInv, HoldersAgree, MutexTypes
<1> QED BY <1>2 DEF OneThreadEach

LEMMA InitEstablishes == Init => IInv
<1> SUFFICES ASSUME Init PROVE IInv
    OBVIOUS
<1>1. MutexTypes
    BY PSharedConstants DEF Init, MutexTypes, NewMutex, Mutex, Idle, Ids
<1>2. Fresh /\ WaiterNamesMutex /\ NestingIsRecursive /\ DeadHoldNothing
    BY DEF Init, Fresh, WaiterNamesMutex, NestingIsRecursive, DeadHoldNothing,
           NewMutex, Idle
<1>3. HoldersAgree
    BY DEF Init, HoldersAgree
<1> QED BY <1>1, <1>2, <1>3 DEF IInv

-----------------------------------------------------------------------------
(* A step that leaves the mutexes, the processes and the grants alone keeps  *)
(* the invariant if it moves at most one thread, and only to a call that     *)
(* names a mutex if it is a condition wait.                                  *)
Moved(t, new) == pc' = [pc EXCEPT ![t] = new]
Calls == [op : {"idle", "lock", "check", "abort", "barrier"},
          obj : 0 .. MaxIds, mutex : 0 .. MaxIds]

LEMMA MoveKeeps ==
    ASSUME IInv, NEW t \in Threads, NEW new \in Calls, Moved(t, new),
           new.op = "check" => new.mutex \in Ids,
           UNCHANGED <<kind, next_id, mutexes, status, held>>
    PROVE  IInv'
<1>1. MutexTypes' /\ WaiterNamesMutex'
    BY DEF IInv, MutexTypes, WaiterNamesMutex, Moved, Calls
<1>2. Fresh' /\ NestingIsRecursive' /\ DeadHoldNothing' /\ HoldersAgree'
    BY DEF IInv, Fresh, NestingIsRecursive, DeadHoldNothing, HoldersAgree, Live
<1> QED BY <1>1, <1>2 DEF IInv

LEMMA StillKeeps ==
    ASSUME IInv, UNCHANGED <<kind, next_id, mutexes, status, held, pc>> PROVE IInv'
    BY DEF IInv, MutexTypes, Fresh, WaiterNamesMutex, NestingIsRecursive,
           DeadHoldNothing, HoldersAgree, Live

(* The idle call and the calls of the model are calls. *)
LEMMA CallTypes ==
    /\ Idle \in Calls /\ Idle.op = "idle"
    /\ \A op \in {"lock", "check", "abort", "barrier"}, i \in 0 .. MaxIds, m \in 0 .. MaxIds :
          At(op, i, m) \in Calls /\ At(op, i, m).op = op /\ At(op, i, m).mutex = m
    BY PSharedConstants DEF Idle, At, Calls

(* alloc_id hands out an id that is in none of the three maps. *)
LEMMA AllocKeeps ==
    ASSUME IInv, NEW k \in {"mutex", "cond", "barrier"}, AllocId(k),
           NEW mt \in {"normal", "recursive", "errorcheck"},
           \/ mutexes' = mutexes /\ k # "mutex"
           \/ mutexes' = [mutexes EXCEPT ![next_id] = NewMutex(mt)],
           UNCHANGED <<status, pc, held>>
    PROVE  IInv'
<1>1. next_id \in Ids /\ kind[next_id] = "free"
    BY PSharedConstants DEF IInv, MutexTypes, Fresh, AllocId, Ids
<1>2. MutexTypes'
  <2>1. next_id' \in 1 .. MaxIds + 1
      BY <1>1, PSharedConstants DEF AllocId, Ids
  <2>2. kind' \in [Ids -> {"free", "mutex", "cond", "barrier"}]
      BY DEF AllocId, IInv, MutexTypes
  <2>3. NewMutex(mt) \in Mutex
      BY DEF NewMutex, Mutex
  <2>4. mutexes' \in [Ids -> Mutex]
      BY <2>3 DEF IInv, MutexTypes
  <2> QED BY <2>1, <2>2, <2>4 DEF IInv, MutexTypes
<1>3. Fresh' /\ WaiterNamesMutex' /\ DeadHoldNothing'
    BY <1>1 DEF IInv, MutexTypes, Fresh, WaiterNamesMutex, DeadHoldNothing,
                AllocId, Live, Ids
<1>4. NestingIsRecursive'
    BY <1>1 DEF IInv, MutexTypes, NestingIsRecursive, NewMutex
<1>5. HoldersAgree'
  <2> SUFFICES ASSUME NEW t \in Threads, NEW m \in Ids, Live(t)'
               PROVE  (held[t][m] = IF kind[m] = "mutex" /\ mutexes[m].owner = ProcOf[t]
                                    THEN mutexes[m].recursive_count + 1 ELSE 0)'
      BY DEF HoldersAgree
  <2>1. Live(t)
      BY DEF Live
  <2>2. CASE m = next_id
    <3>1. held[t][m] = 0
        BY <1>1, <2>1, <2>2 DEF IInv, HoldersAgree
    <3>2. kind'[m] = k
        BY <1>1, <2>2 DEF AllocId, IInv, MutexTypes
    <3>3. k = "mutex" => mutexes'[m].owner = NoPid
        BY <1>1, <2>2 DEF NewMutex, IInv, MutexTypes
    <3> QED BY <3>1, <3>2, <3>3, PSharedConstants
  <2>3. CASE m # next_id
    <3>1. kind'[m] = kind[m] /\ mutexes'[m] = mutexes[m]
        BY <1>1, <2>3 DEF AllocId, IInv, MutexTypes
    <3> QED BY <3>1, <2>1 DEF IInv, HoldersAgree
  <2> QED BY <2>2, <2>3
<1> QED BY <1>2, <1>3, <1>4, <1>5 DEF IInv

-----------------------------------------------------------------------------
(* A step of one thread that changes one mutex and that thread's grants of   *)
(* it, so that the two agree afterwards.                                     *)
Settled(t, m, mx, n) ==
    /\ mutexes' = [mutexes EXCEPT ![m] = mx]
    /\ held' = [held EXCEPT ![t][m] = n]
    /\ kind[m] = "mutex" /\ Live(t)
    /\ mutexes[m].owner \in {NoPid, ProcOf[t]}
    /\ mx.owner \in {NoPid, ProcOf[t]}
    /\ n = IF mx.owner = ProcOf[t] THEN mx.recursive_count + 1 ELSE 0
    /\ mx.mtype # "recursive" => mx.recursive_count = 0

LEMMA SettleKeeps ==
    ASSUME OneThreadEach, IInv, NEW t \in Threads, NEW m \in Ids,
           NEW mx \in Mutex, NEW n \in Nat, Settled(t, m, mx, n),
           NEW new \in Calls, Moved(t, new),
           new.op = "check" => new.mutex \in Ids,
           UNCHANGED <<kind, next_id, status>>
    PROVE  IInv'
<1>1. MutexTypes'
    BY DEF IInv, MutexTypes, Settled, Moved, Calls
<1>2. Fresh' /\ WaiterNamesMutex'
    BY DEF IInv, MutexTypes, Fresh, WaiterNamesMutex, Moved, Calls
<1>3. NestingIsRecursive'
    BY DEF IInv, MutexTypes, NestingIsRecursive, Settled
<1>4. DeadHoldNothing'
    BY DEF IInv, MutexTypes, DeadHoldNothing, Settled, Live
<1>5. HoldersAgree'
  <2> SUFFICES ASSUME NEW u \in Threads, NEW l \in Ids, Live(u)'
               PROVE  (held[u][l] = IF kind[l] = "mutex" /\ mutexes[l].owner = ProcOf[u]
                                    THEN mutexes[l].recursive_count + 1 ELSE 0)'
      BY DEF HoldersAgree
  <2>1. held[u][l] = IF kind[l] = "mutex" /\ mutexes[l].owner = ProcOf[u]
                     THEN mutexes[l].recursive_count + 1 ELSE 0
      BY DEF IInv, HoldersAgree, Live
  <2>2. CASE l # m
      BY <2>1, <2>2 DEF Settled, IInv, MutexTypes
  <2>3. CASE l = m /\ u = t
      BY <2>3 DEF Settled, IInv, MutexTypes
  <2>4. CASE l = m /\ u # t
    <3>1. ProcOf[u] # ProcOf[t] /\ ProcOf[u] # NoPid
        BY <2>4, PSharedConstants DEF OneThreadEach
    <3>2. held'[u][l] = held[u][l] /\ mutexes'[l] = mx
        BY <2>4 DEF Settled, IInv, MutexTypes
    <3> QED BY <2>1, <2>4, <3>1, <3>2 DEF Settled
  <2> QED BY <2>2, <2>3, <2>4
<1> QED BY <1>1, <1>2, <1>3, <1>4, <1>5 DEF IInv

(* What giving a mutex up leaves. *)
LEMMA FreeFields ==
    ASSUME NEW mx \in Mutex
    PROVE  /\ FreeMutex(mx) \in Mutex
           /\ FreeMutex(mx).owner = NoPid /\ FreeMutex(mx).recursive_count = 0
           /\ FreeMutex(mx).mtype = mx.mtype
    BY DEF FreeMutex, Mutex

(* The end of a process, with or without the clean-up. *)
LEMMA VanishKeeps ==
    ASSUME OneThreadEach, IInv, NEW p \in Procs, Vanish(p),
           NEW s \in {"zombie", "gone"}, status' = [status EXCEPT ![p] = s],
           \/ mutexes' = mutexes
           \/ mutexes' = [m \in Ids |-> IF mutexes[m].owner = p
                                        THEN FreeMutex(mutexes[m]) ELSE mutexes[m]],
           UNCHANGED <<kind, next_id>>
    PROVE  IInv'
<1>1. \A m \in Ids : FreeMutex(mutexes[m]) \in Mutex
    BY FreeFields DEF IInv, MutexTypes
<1>2. MutexTypes'
  <2>1. mutexes' \in [Ids -> Mutex]
      BY <1>1 DEF IInv, MutexTypes
  <2>2. pc' \in [Threads -> Calls] /\ held' \in [Threads -> [Ids -> Nat]]
      BY CallTypes DEF IInv, MutexTypes, Vanish, Calls
  <2> QED BY <2>1, <2>2 DEF IInv, MutexTypes, Calls
<1>3. Fresh'
    BY DEF IInv, Fresh
<1>4. WaiterNamesMutex'
    BY DEF IInv, WaiterNamesMutex, Vanish, Idle
<1>a. \A m \in Ids :
        /\ FreeMutex(mutexes[m]).owner = NoPid
        /\ FreeMutex(mutexes[m]).recursive_count = 0
    BY FreeFields DEF IInv, MutexTypes
<1>5. NestingIsRecursive'
  <2> SUFFICES ASSUME NEW m \in Ids, mutexes'[m].mtype # "recursive"
               PROVE  mutexes'[m].recursive_count = 0
      BY DEF NestingIsRecursive
  <2>1. mutexes'[m] = mutexes[m] \/ mutexes'[m] = FreeMutex(mutexes[m])
      OBVIOUS
  <2> QED BY <1>a, <2>1 DEF IInv, NestingIsRecursive
<1>6. DeadHoldNothing'
    BY PSharedConstants DEF IInv, MutexTypes, DeadHoldNothing, Vanish, Live
<1>7. HoldersAgree'
  <2> SUFFICES ASSUME NEW u \in Threads, NEW l \in Ids, Live(u)'
               PROVE  (held[u][l] = IF kind[l] = "mutex" /\ mutexes[l].owner = ProcOf[u]
                                    THEN mutexes[l].recursive_count + 1 ELSE 0)'
      BY DEF HoldersAgree
  <2>1. ProcOf[u] # p /\ Live(u)
      BY PSharedConstants DEF Live, IInv, MutexTypes
  <2>2. held'[u][l] = held[u][l]
      BY <2>1 DEF Vanish
  <2>3. mutexes'[l] = mutexes[l] \/
        (mutexes[l].owner = p /\ mutexes'[l].owner = NoPid)
      BY <1>a
  <2> QED BY <2>1, <2>2, <2>3, PSharedConstants DEF IInv, HoldersAgree
<1> QED BY <1>2, <1>3, <1>4, <1>5, <1>6, <1>7 DEF IInv

-----------------------------------------------------------------------------
(* What one unlock leaves of a mutex that has an owner. *)
LEMMA UnlockFields ==
    ASSUME NEW mx \in Mutex, mx.mtype # "recursive" => mx.recursive_count = 0
    PROVE  /\ Unlocked(mx) \in Mutex
           /\ Unlocked(mx).mtype = mx.mtype
           /\ mx.recursive_count > 0 => /\ Unlocked(mx).owner = mx.owner
                                        /\ Unlocked(mx).recursive_count = mx.recursive_count - 1
           /\ mx.recursive_count = 0 => /\ Unlocked(mx).owner = NoPid
                                        /\ Unlocked(mx).recursive_count = 0
<1>1. CASE mx.mtype = "recursive" /\ mx.recursive_count > 0
    BY <1>1 DEF Unlocked, Mutex
<1>2. CASE ~ (mx.mtype = "recursive" /\ mx.recursive_count > 0)
  <2>1. Unlocked(mx) = FreeMutex(mx) /\ mx.recursive_count = 0
      BY <1>2 DEF Unlocked, Mutex
  <2> QED BY <2>1, FreeFields
<1> QED BY <1>1, <1>2

(* mutex_lock, as a call and as a retry. *)
LEMMA LockKeeps ==
    ASSUME OneThreadEach, IInv, NEW t \in Threads, NEW m \in Ids, MutexLock(t, m)
    PROVE  IInv'
<1> DEFINE mx == mutexes[m]
           call == At("lock", m, 0)
<1>1. Live(t) /\ UNCHANGED <<kind, next_id, status>>
    BY DEF MutexLock, May
<1>2. mx \in Mutex /\ held[t][m] \in Nat
    BY DEF IInv, MutexTypes
<1>3. call \in Calls /\ call.op = "lock" /\ Idle \in Calls /\ Idle.op = "idle"
    BY CallTypes, PSharedConstants DEF Ids
<1>4. CASE kind[m] = "mutex" /\ mx.owner = NoPid /\ Grant(t, m) /\ Return(t)
  <2> DEFINE new == [mx EXCEPT !.owner = ProcOf[t], !.recursive_count = 0]
  <2>1. new \in Mutex /\ new.owner = ProcOf[t] /\ new.recursive_count = 0
      BY <1>2, PSharedConstants DEF Mutex
  <2>2. mutexes' = [mutexes EXCEPT ![m] = new]
      BY <1>4 DEF Grant, IInv, MutexTypes
  <2>3. Settled(t, m, new, 1)
      BY <1>1, <1>4, <2>1, <2>2 DEF Settled, Grant
  <2> QED BY <1>1, <1>3, <1>4, <2>1, <2>3, SettleKeeps DEF Return, Moved
<1>5. CASE /\ kind[m] = "mutex" /\ mx.owner = ProcOf[t] /\ mx.mtype = "recursive"
           /\ mutexes' = [mutexes EXCEPT ![m].recursive_count = @ + 1]
           /\ held' = [held EXCEPT ![t][m] = @ + 1]
           /\ Return(t)
  <2> DEFINE new == [mx EXCEPT !.recursive_count = @ + 1]
  <2>1. /\ new \in Mutex /\ new.owner = ProcOf[t] /\ new.mtype = "recursive"
        /\ new.recursive_count = mx.recursive_count + 1
      BY <1>2, <1>5 DEF Mutex
  <2>2. mutexes' = [mutexes EXCEPT ![m] = new]
      BY <1>5 DEF IInv, MutexTypes
  <2>3. held[t][m] = mx.recursive_count + 1 /\ mx.recursive_count \in Nat
      BY <1>1, <1>2, <1>5 DEF IInv, HoldersAgree, Mutex
  <2>4. held' = [held EXCEPT ![t][m] = held[t][m] + 1]
      BY <1>5 DEF IInv, MutexTypes
  <2>5. Settled(t, m, new, held[t][m] + 1)
      BY <1>1, <1>5, <2>1, <2>2, <2>3, <2>4 DEF Settled
  <2>6. held[t][m] + 1 \in Nat
      BY <1>2
  <2> QED BY <1>1, <1>3, <1>5, <2>1, <2>5, <2>6, SettleKeeps DEF Return, Moved
<1>6. CASE UNCHANGED <<mutexes, held>> /\ (Moved(t, call) \/ Return(t))
    BY <1>1, <1>3, <1>6, MoveKeeps DEF Return, Moved
<1> QED BY <1>4, <1>5, <1>6 DEF MutexLock, Moved

(* mutex_unlock gives back one lock. *)
LEMMA UnlockKeeps ==
    ASSUME OneThreadEach, IInv, NEW t \in Threads, NEW m \in Ids, MutexUnlock(t, m)
    PROVE  IInv'
<1> DEFINE mx == mutexes[m]
           new == Unlocked(mx)
<1>1. /\ Live(t) /\ pc[t] = Idle /\ kind[m] = "mutex" /\ mx.owner = ProcOf[t]
      /\ UNCHANGED <<kind, next_id, status, pc>>
    BY DEF MutexUnlock
<1>2. mx \in Mutex /\ mx.recursive_count \in Nat /\ held[t][m] = mx.recursive_count + 1
    BY <1>1 DEF IInv, MutexTypes, HoldersAgree, Mutex
<1>3. /\ new \in Mutex /\ new.mtype = mx.mtype
      /\ mx.recursive_count > 0 => /\ new.owner = mx.owner
                                   /\ new.recursive_count = mx.recursive_count - 1
      /\ mx.recursive_count = 0 => new.owner = NoPid /\ new.recursive_count = 0
    BY <1>2, UnlockFields DEF IInv, NestingIsRecursive
<1>4. mutexes' = [mutexes EXCEPT ![m] = new]
    BY DEF MutexUnlock, IInv, MutexTypes
<1>5. held' = [held EXCEPT ![t][m] = mx.recursive_count]
  <2>1. held' = [held EXCEPT ![t][m] = held[t][m] - 1]
      BY DEF MutexUnlock, IInv, MutexTypes
  <2>2. held[t][m] - 1 = mx.recursive_count
      BY <1>2
  <2> QED BY <2>1, <2>2
<1>6. Settled(t, m, new, mx.recursive_count)
  <2>1. NoPid # ProcOf[t]
      BY PSharedConstants
  <2>2. mx.mtype # "recursive" => mx.recursive_count = 0
      BY DEF IInv, NestingIsRecursive
  <2>3. CASE mx.recursive_count = 0
      BY <1>1, <1>2, <1>3, <1>4, <1>5, <2>1, <2>3 DEF Settled
  <2>4. CASE mx.recursive_count > 0
      BY <1>1, <1>2, <1>3, <1>4, <1>5, <2>1, <2>2, <2>4 DEF Settled
  <2> QED BY <1>2, <2>3, <2>4
<1>7. Moved(t, Idle)
    BY <1>1 DEF Moved, IInv, MutexTypes
<1> HIDE DEF new
<1> QED BY <1>1, <1>2, <1>3, <1>6, <1>7, CallTypes, SettleKeeps

(* cond_wait_begin releases the mutex; its caller is then inside the wait.   *)
LEMMA BeginKeeps ==
    ASSUME OneThreadEach, IInv, NEW t \in Threads, NEW c \in Ids, NEW m \in Ids,
           CondWaitBegin(t, c, m)
    PROVE  IInv'
<1> DEFINE new == FreeMutex(mutexes[m])
           call == At("check", c, m)
<1>1. /\ Live(t) /\ kind[m] = "mutex" /\ mutexes[m].owner = ProcOf[t]
      /\ mutexes' = [mutexes EXCEPT ![m] = new]
      /\ held' = [held EXCEPT ![t][m] = 0]
      /\ Moved(t, call)
      /\ UNCHANGED <<kind, next_id, status>>
    BY DEF CondWaitBegin, OneThreadEach, Moved, IInv, MutexTypes
<1>2. new \in Mutex /\ new.owner = NoPid /\ new.recursive_count = 0
    BY FreeFields DEF IInv, MutexTypes
<1>3. NoPid # ProcOf[t]
    BY PSharedConstants
<1>4. Settled(t, m, new, 0)
    BY <1>1, <1>2, <1>3 DEF Settled
<1>5. call \in Calls /\ call.mutex \in Ids
    BY CallTypes, PSharedConstants DEF Ids
<1> HIDE DEF new, call
<1> QED BY <1>1, <1>2, <1>4, <1>5, SettleKeeps

(* cond_wait_check takes the mutex only from nobody or from its own process. *)
LEMMA CheckKeeps ==
    ASSUME OneThreadEach, IInv, NEW t \in Threads, CondWaitCheck(t)
    PROVE  IInv'
<1> DEFINE m == pc[t].mutex
           new == [mutexes[m] EXCEPT !.owner = ProcOf[t], !.recursive_count = 0]
           abort == At("abort", pc[t].obj, 0)
<1>1. Live(t) /\ pc[t].op = "check" /\ UNCHANGED <<kind, next_id, status>>
    BY DEF CondWaitCheck
<1>2. m \in Ids /\ pc[t].obj \in 0 .. MaxIds
    BY <1>1 DEF IInv, WaiterNamesMutex, MutexTypes
<1>3. CASE Reacquirable(m, ProcOf[t]) /\ Grant(t, m) /\ Return(t)
  <2>0. mutexes[m] \in Mutex /\ ProcOf[t] \in Procs
      BY <1>2, PSharedConstants DEF IInv, MutexTypes
  <2>1. new \in Mutex /\ new.owner = ProcOf[t] /\ new.recursive_count = 0
    <3> HIDE DEF m
    <3> QED BY <2>0 DEF Mutex
  <2>a. mutexes' = [mutexes EXCEPT ![m] = new] /\ held' = [held EXCEPT ![t][m] = 1]
      BY <1>3, Zenon DEF Grant
  <2>b. kind[m] = "mutex" /\ mutexes[m].owner \in {NoPid, ProcOf[t]} /\ Moved(t, Idle)
      BY <1>3, Zenon DEF Reacquirable, Return, Moved
  <2>2. /\ mutexes' = [mutexes EXCEPT ![m] = new]
        /\ held' = [held EXCEPT ![t][m] = 1]
        /\ kind[m] = "mutex" /\ mutexes[m].owner \in {NoPid, ProcOf[t]}
        /\ Moved(t, Idle)
      BY <2>a, <2>b
  <2> HIDE DEF new, m
  <2>3. Settled(t, m, new, 1)
      BY <1>1, <2>1, <2>2 DEF Settled
  <2> QED BY <1>1, <1>2, <2>1, <2>2, <2>3, CallTypes, SettleKeeps
<1>4. CASE UNCHANGED <<mutexes, held>> /\ Moved(t, abort)
    BY <1>1, <1>2, <1>4, MoveKeeps, CallTypes, PSharedConstants
<1> QED BY <1>3, <1>4 DEF CondWaitCheck, Moved

-----------------------------------------------------------------------------
(* Every step preserves the invariant: one step per action of Next. *)
LEMMA NextKeeps ==
    ASSUME OneThreadEach, IInv, [Next]_vars PROVE IInv'
<1>1. CASE UNCHANGED vars
    BY <1>1, StillKeeps DEF vars, table
<1>2. ASSUME NEW mt \in MTypes, MutexInit(mt) PROVE IInv'
    BY <1>2, AllocKeeps, PSharedConstants DEF MutexInit
<1>3. CASE CondInit
    BY <1>3, AllocKeeps DEF CondInit
<1>4. ASSUME NEW n \in Counts, BarrierInit(n) PROVE IInv'
    BY <1>4, AllocKeeps DEF BarrierInit
<1>5. ASSUME NEW i \in Ids, Destroy(i) PROVE IInv'
  <2>1. kind' = [kind EXCEPT ![i] = "free"] /\ UNCHANGED <<next_id, mutexes, status, pc, held>>
      BY <1>5 DEF Destroy
  <2>2. kind[i] = "mutex" => mutexes[i].owner = NoPid
      BY <1>5 DEF Destroy, InUse
  <2>3. MutexTypes' /\ Fresh' /\ WaiterNamesMutex' /\ NestingIsRecursive' /\ DeadHoldNothing'
      BY <2>1 DEF IInv, MutexTypes, Fresh, WaiterNamesMutex, NestingIsRecursive,
                  DeadHoldNothing, Live
  <2>4. HoldersAgree'
      BY <2>1, <2>2, PSharedConstants DEF IInv, MutexTypes, HoldersAgree, Live
  <2> QED BY <2>3, <2>4 DEF IInv
<1>6. ASSUME NEW i \in Ids, CondSignal(i) \/ CondBroadcast(i) PROVE IInv'
    BY <1>6, StillKeeps DEF CondSignal, CondBroadcast
<1>7. ASSUME NEW t \in Threads, NEW i \in Ids, MutexLock(t, i) PROVE IInv'
    BY <1>7, LockKeeps
<1>8. ASSUME NEW t \in Threads, NEW i \in Ids, MutexUnlock(t, i) PROVE IInv'
    BY <1>8, UnlockKeeps
<1>9. ASSUME NEW t \in Threads, NEW b \in Ids, BarrierWait(t, b) PROVE IInv'
  <2>1. /\ UNCHANGED <<kind, next_id, mutexes, status, held>>
        /\ Moved(t, Idle) \/ Moved(t, At("barrier", b, 0))
      BY <1>9 DEF BarrierWait, Return, Moved
  <2>2. At("barrier", b, 0) \in Calls /\ At("barrier", b, 0).op = "barrier"
      BY CallTypes, PSharedConstants DEF Ids
  <2> QED BY <2>1, <2>2, MoveKeeps, CallTypes
<1>10. ASSUME NEW t \in Threads, NEW c \in Ids, NEW m \in Ids, CondWaitBegin(t, c, m)
       PROVE  IInv'
    BY <1>10, BeginKeeps
<1>11. ASSUME NEW t \in Threads, CondWaitCheck(t) PROVE IInv'
    BY <1>11, CheckKeeps
<1>12. ASSUME NEW t \in Threads, CondWaitAbort(t) PROVE IInv'
    BY <1>12, MoveKeeps, CallTypes DEF CondWaitAbort, Return, Moved
<1>13. ASSUME NEW t \in Threads, ThreadCancel(t) PROVE IInv'
    BY <1>13 DEF ThreadCancel, OneThreadEach
<1>14. ASSUME NEW p \in Procs, Exit(p) PROVE IInv'
    BY <1>14, VanishKeeps DEF Exit, table
<1>15. ASSUME NEW p \in Procs, Cleanup(p) PROVE IInv'
    BY <1>15, VanishKeeps DEF Cleanup
<1> QED BY <1>1, <1>2, <1>3, <1>4, <1>5, <1>6, <1>7, <1>8, <1>9, <1>10, <1>11,
           <1>12, <1>13, <1>14, <1>15 DEF Next

(* The kernel's owner and nesting count of a process-shared mutex are what   *)
(* its owner was granted (PSharedTable::mutex_lock, mutex_unlock,            *)
(* cond_wait_begin, cond_wait_check, cleanup_process).                       *)
THEOREM OwnershipAgrees ==
    ASSUME OneThreadEach PROVE Spec => []HoldersAgree
<1>1. Init => IInv
    BY InitEstablishes
<1>2. IInv /\ [Next]_vars => IInv'
    BY NextKeeps
<1>3. IInv => HoldersAgree
    BY DEF IInv
<1> QED BY <1>1, <1>2, <1>3, PTL DEF Spec

(* No two processes are granted the same process-shared mutex. *)
THEOREM Exclusive ==
    ASSUME OneThreadEach PROVE Spec => []MutualExclusion
<1>1. Init => IInv
    BY InitEstablishes
<1>2. IInv /\ [Next]_vars => IInv'
    BY NextKeeps
<1>3. IInv => MutualExclusion
    BY ExclusionFromAgreement
<1> QED BY <1>1, <1>2, <1>3, PTL DEF Spec
-----------------------------------------------------------------------------
(* The least element of a set of naturals: what stands in for induction. *)
LEMMA NatHasMin ==
    ASSUME NEW T \in SUBSET Nat, T # {}
    PROVE  \E x \in T : \A y \in T : x <= y
<1> DEFINE R == {ss \in Nat \X Nat : ss[1] < ss[2]}
<1>1. IsWellFoundedOn(R, Nat)
    BY NatLessThanWellFounded, Zenon DEF OpToRel
<1>2. \A x, y \in Nat : ~ (<<y, x>> \in R) => x <= y
    OBVIOUS
<1> HIDE DEF R
<1>3. \E x \in T : \A y \in T : ~ (<<y, x>> \in R)
    BY <1>1, WFMin
<1> QED BY <1>2, <1>3

(* f is what retain keeps of the first n entries, for every n up to k. *)
Retains(ws, p, f, k) ==
    f = [n \in 0 .. k |-> IF n = 0 THEN <<>> ELSE RetainOne(f[n - 1], ws[n], p)]

LEMMA RetainsExist ==
    ASSUME NEW S, NEW ws \in Seq(S), NEW p
    PROVE  \A k \in 0 .. Len(ws) : \E f : Retains(ws, p, f, k)
<1> DEFINE T == {k \in 0 .. Len(ws) : ~ \E f : Retains(ws, p, f, k)}
<1> SUFFICES ASSUME T # {} PROVE FALSE
    OBVIOUS
<1>1. PICK k \in T : \A j \in T : k <= j
  <2>1. T \subseteq Nat
    OBVIOUS
  <2> HIDE DEF T
  <2> QED BY <2>1, NatHasMin
<1>2. k \in 0 .. Len(ws)
    OBVIOUS
<1>3. k # 0
  <2> SUFFICES ASSUME k = 0 PROVE FALSE
    OBVIOUS
  <2> DEFINE f == [n \in 0 .. 0 |-> <<>>]
  <2>1. f = [n \in 0 .. 0 |-> f[n]] /\ \A n \in 0 .. 0 : n = 0 /\ f[n] = <<>>
    OBVIOUS
  <2> HIDE DEF f
  <2>2. Retains(ws, p, f, 0)
    BY <2>1 DEF Retains
  <2> QED BY <2>2
<1>4. k - 1 \in 0 .. Len(ws) /\ k - 1 \notin T
  <2> HIDE DEF T
  <2> QED BY <1>1, <1>2, <1>3
<1>5. PICK f : Retains(ws, p, f, k - 1)
    BY <1>4
<1> DEFINE v == RetainOne(f[k - 1], ws[k], p)
           g == [n \in 0 .. k |-> IF n = k THEN v ELSE f[n]]
<1>6. \A n \in 0 .. k - 1 : f[n] = IF n = 0 THEN <<>> ELSE RetainOne(f[n - 1], ws[n], p)
    BY <1>5 DEF Retains
<1>7. /\ g = [n \in 0 .. k |-> g[n]] /\ g[k] = v
      /\ \A n \in 0 .. k - 1 : g[n] = f[n]
    BY <1>2
<1>8. v = RetainOne(g[k - 1], ws[k], p)
  <2>1. k - 1 \in 0 .. k - 1
    BY <1>2, <1>3
  <2> QED BY <1>7, <2>1
<1> HIDE DEF g, v
<1>9. ASSUME NEW n \in 0 .. k
      PROVE  g[n] = IF n = 0 THEN <<>> ELSE RetainOne(g[n - 1], ws[n], p)
  <2>1. CASE n = k
    BY <1>3, <1>7, <1>8, <2>1
  <2>2. CASE n # k
    <3>1. n \in 0 .. k - 1 /\ (n # 0 => n - 1 \in 0 .. k - 1)
        BY <1>2, <2>2
    <3> QED BY <1>6, <1>7, <3>1
  <2> QED BY <2>1, <2>2
<1>10. Retains(ws, p, g, k)
    BY <1>7, <1>9 DEF Retains
<1> QED BY <1>10

(* s is the first k entries of ws without those of p, in their order. *)
Kept(S, ws, p, k, s) ==
    /\ s \in Seq(S) /\ Len(s) <= k
    /\ \A i \in 1 .. Len(s) : s[i].pid # p /\ \E j \in 1 .. k : s[i] = ws[j]
    /\ \A j \in 1 .. k : ws[j].pid # p => \E i \in 1 .. Len(s) : s[i] = ws[j]
    /\ \A i, j \in 1 .. Len(s) : i < j =>
          \E x, y \in 1 .. k : x < y /\ s[i] = ws[x] /\ s[j] = ws[y]

LEMMA KeepOne ==
    ASSUME NEW S, NEW ws \in Seq(S), NEW p, NEW k \in 1 .. Len(ws),
           NEW s, Kept(S, ws, p, k - 1, s)
    PROVE  Kept(S, ws, p, k, RetainOne(s, ws[k], p))
<1>1. /\ ws[k] \in S /\ s \in Seq(S) /\ Len(s) \in Nat /\ Len(s) <= k - 1
      /\ k \in Nat /\ k - 1 \in Nat
      /\ \A j \in 1 .. k : j = k \/ j \in 1 .. k - 1
      /\ \A j \in 1 .. k - 1 : j \in 1 .. k /\ j < k
    BY DEF Kept
<1>2. CASE ws[k].pid = p
    BY <1>1, <1>2 DEF RetainOne, Kept
<1>3. CASE ws[k].pid # p
  <2> DEFINE r == Append(s, ws[k])
             n == Len(s)
  <2>1. /\ r \in Seq(S) /\ Len(r) = n + 1 /\ r[n + 1] = ws[k]
        /\ \A i \in 1 .. n : r[i] = s[i]
    BY <1>1
  <2>2. \A i \in 1 .. Len(r) : i = n + 1 \/ i \in 1 .. n
    BY <1>1, <2>1
  <2>3. n + 1 \in 1 .. Len(r) /\ \A i \in 1 .. n : i \in 1 .. Len(r)
    BY <1>1, <2>1
  <2> HIDE DEF r, n
  <2>4. \A i \in 1 .. n : s[i].pid # p /\ \E j \in 1 .. k - 1 : s[i] = ws[j]
    BY DEF Kept, n
  <2>5. \A j \in 1 .. k - 1 : ws[j].pid # p => \E i \in 1 .. n : s[i] = ws[j]
    BY DEF Kept, n
  <2>6. \A i, j \in 1 .. n : i < j =>
           \E x, y \in 1 .. k - 1 : x < y /\ s[i] = ws[x] /\ s[j] = ws[y]
    BY DEF Kept, n
  <2>7. Len(r) <= k
    BY <1>1, <2>1 DEF n
  <2>8. \A i \in 1 .. Len(r) : r[i].pid # p /\ \E j \in 1 .. k : r[i] = ws[j]
    <3> SUFFICES ASSUME NEW i \in 1 .. Len(r)
                 PROVE  r[i].pid # p /\ \E j \in 1 .. k : r[i] = ws[j]
        OBVIOUS
    <3>1. k \in 1 .. k
        BY <1>1
    <3>2. CASE i = n + 1
        BY <3>1, <3>2, <2>1, <1>3
    <3>3. CASE i \in 1 .. n
        BY <3>3, <2>1, <2>4, <1>1
    <3> QED BY <3>2, <3>3, <2>2
  <2>9. \A j \in 1 .. k : ws[j].pid # p => \E i \in 1 .. Len(r) : r[i] = ws[j]
    BY <1>1, <2>1, <2>3, <2>5
  <2>10. ASSUME NEW i \in 1 .. Len(r), NEW j \in 1 .. Len(r), i < j
         PROVE  \E x, y \in 1 .. k : x < y /\ r[i] = ws[x] /\ r[j] = ws[y]
    <3>1. i \in 1 .. n
        BY <2>1, <2>2, <2>10, <1>1 DEF n
    <3>2. CASE j = n + 1
      <4>1. PICK x \in 1 .. k - 1 : s[i] = ws[x]
        BY <3>1, <2>4
      <4> QED BY <4>1, <3>1, <3>2, <2>1, <1>1
    <3>3. CASE j \in 1 .. n
      <4>1. PICK x \in 1 .. k - 1, y \in 1 .. k - 1 : x < y /\ s[i] = ws[x] /\ s[j] = ws[y]
        BY <3>1, <3>3, <2>6, <2>10
      <4> QED BY <4>1, <3>1, <3>3, <2>1, <1>1
    <3> QED BY <3>2, <3>3, <2>2
  <2>11. Kept(S, ws, p, k, r)
    BY <2>1, <2>7, <2>8, <2>9, <2>10 DEF Kept
  <2> QED BY <2>11, <1>3 DEF r, RetainOne
<1> QED BY <1>2, <1>3

LEMMA WithoutIs ==
    ASSUME NEW S, NEW ws \in Seq(S), NEW p
    PROVE  Kept(S, ws, p, Len(ws), Without(ws, p))
<1> DEFINE n == Len(ws)
           h == CHOOSE f : Retains(ws, p, f, n)
<1>1. Without(ws, p) = h[n]
    BY DEF Without, Retains
<1>2. n \in Nat /\ n \in 0 .. n
    OBVIOUS
<1>3. \E f : Retains(ws, p, f, n)
    BY <1>2, RetainsExist
<1>4. Retains(ws, p, h, n)
    BY <1>3
<1> HIDE DEF h
<1>5. \A k \in 0 .. n : h[k] = IF k = 0 THEN <<>> ELSE RetainOne(h[k - 1], ws[k], p)
    BY <1>4 DEF Retains
<1> DEFINE T == {k \in 0 .. n : ~ Kept(S, ws, p, k, h[k])}
<1>6. T = {}
  <2> SUFFICES ASSUME T # {} PROVE FALSE
    OBVIOUS
  <2>1. PICK k \in T : \A j \in T : k <= j
    <3>1. T \subseteq Nat
        OBVIOUS
    <3> HIDE DEF T
    <3> QED BY <3>1, NatHasMin
  <2>2. k \in 0 .. n /\ ~ Kept(S, ws, p, k, h[k])
    OBVIOUS
  <2>3. k # 0
    <3>1. h[0] = <<>>
        BY <1>2, <1>5
    <3>2. Kept(S, ws, p, 0, <<>>)
        BY DEF Kept
    <3> QED BY <3>1, <3>2, <2>2
  <2>4. k - 1 \in 0 .. n /\ k - 1 \notin T /\ k \in 1 .. Len(ws)
    <3> HIDE DEF T
    <3> QED BY <2>1, <2>2, <2>3, <1>2
  <2>5. Kept(S, ws, p, k - 1, h[k - 1])
    BY <2>4
  <2>6. h[k] = RetainOne(h[k - 1], ws[k], p)
    BY <2>2, <2>3, <1>5
  <2> HIDE DEF T, n
  <2> QED BY <2>2, <2>4, <2>5, <2>6, KeepOne
<1>7. Kept(S, ws, p, n, h[n])
    BY <1>2, <1>6
<1> QED BY <1>1, <1>7

-----------------------------------------------------------------------------
(* Queues and owners, for any programs: several threads per process,         *)
(* cancellation and waits on destroyed conditions included.                  *)

Barrier == [count : Nat \ {0}, waiters : Seq(BarrierWaiter)]

NotGone(ws, st) == \A i \in DOMAIN ws : st[ws[i].pid] # "gone"

CondQueue(ws, st) ==
    /\ ws \in Seq(CondWaiter) /\ NotGone(ws, st)
    /\ \A j \in DOMAIN ws : ws[j].signaled => \A i \in 1 .. j : ws[i].signaled

BarrierQueue(k, b, st) ==
    /\ b \in Barrier /\ NotGone(b.waiters, st)
    /\ k = "barrier" => Len(b.waiters) < b.count
    /\ k # "barrier" => b.waiters = <<>>

MutexOwned(mx, st) == mx \in Mutex /\ \A p \in Procs : mx.owner = p => st[p] # "gone"

MutexesOK(ms, st) == ms \in [Ids -> Mutex] /\ \A i \in Ids : MutexOwned(ms[i], st)
CondsOK(cs, st) == cs \in [Ids -> Seq(CondWaiter)] /\ \A i \in Ids : CondQueue(cs[i], st)
BarriersOK(k, bs, st) ==
    bs \in [Ids -> Barrier] /\ \A i \in Ids : BarrierQueue(k[i], bs[i], st)
HistoryOK(as, ss) == as \in [Ids -> Nat] /\ ss \in [Ids -> Nat]

QInv ==
    /\ MutexTypes /\ Fresh /\ WaiterNamesMutex
    /\ MutexesOK(mutexes, status) /\ CondsOK(conds, status)
    /\ BarriersOK(kind, barriers, status) /\ HistoryOK(arrivals, serials)

LEMMA QInvGives == QInv => TypeOK /\ QueuesInOrder /\ GoneLeavesNothing
<1> SUFFICES ASSUME QInv PROVE TypeOK /\ QueuesInOrder /\ GoneLeavesNothing
    OBVIOUS
<1>1. TypeOK
    BY DEF QInv, TypeOK, MutexTypes, CondsOK, BarriersOK, HistoryOK, Barrier
<1>2. SignaledFirst
    BY DEF QInv, SignaledFirst, CondsOK, CondQueue
<1>3. BarrierOpen
    BY DEF QInv, BarrierOpen, BarriersOK, BarrierQueue
<1>4. GoneLeavesNothing
    BY DEF QInv, GoneLeavesNothing, MutexesOK, MutexOwned, CondsOK, CondQueue,
           BarriersOK, BarrierQueue, NotGone, EntriesOf
<1> QED BY <1>1, <1>2, <1>3, <1>4 DEF QueuesInOrder

LEMMA QInvInit == Init => QInv
<1> SUFFICES ASSUME Init PROVE QInv
    OBVIOUS
<1>1. MutexTypes /\ Fresh /\ WaiterNamesMutex
    BY InitEstablishes DEF IInv
<1>2. MutexesOK(mutexes, status)
    BY <1>1, PSharedConstants DEF Init, MutexesOK, MutexOwned, NewMutex, MutexTypes
<1>3. CondsOK(conds, status)
    BY DEF Init, CondsOK, CondQueue, NotGone
<1>4. BarriersOK(kind, barriers, status)
  <2> DEFINE b == [count |-> 1, waiters |-> <<>>]
  <2>1. b \in Barrier /\ b.waiters = <<>>
    BY DEF Barrier
  <2> HIDE DEF b
  <2>2. barriers = [i \in Ids |-> b] /\ \A i \in Ids : kind[i] = "free"
    BY DEF Init, b
  <2> QED BY <2>1, <2>2 DEF BarriersOK, BarrierQueue, NotGone
<1>5. HistoryOK(arrivals, serials)
    BY DEF Init, HistoryOK
<1> QED BY <1>1, <1>2, <1>3, <1>4, <1>5 DEF QInv

-----------------------------------------------------------------------------
(* What happens to one queue *)

(* st2 is st with p gone, or the same. *)
Buried(st, st2, p) == \A q \in Procs \ {p} : st[q] # "gone" => st2[q] # "gone"

LEMMA CondRetain ==
    ASSUME NEW ws, NEW st, NEW st2, NEW p, CondQueue(ws, st), Buried(st, st2, p)
    PROVE  CondQueue(Without(ws, p), st2)
<1> DEFINE r == Without(ws, p)
<1>1. Kept(CondWaiter, ws, p, Len(ws), r)
    BY WithoutIs DEF CondQueue
<1> HIDE DEF r
<1>2. r \in Seq(CondWaiter) /\ DOMAIN r = 1 .. Len(r) /\ DOMAIN ws = 1 .. Len(ws)
    BY <1>1 DEF Kept, CondQueue
<1>3. NotGone(r, st2)
  <2> SUFFICES ASSUME NEW i \in 1 .. Len(r) PROVE st2[r[i].pid] # "gone"
    BY <1>2 DEF NotGone
  <2>1. PICK j \in 1 .. Len(ws) : r[i] = ws[j]
    BY <1>1 DEF Kept
  <2>2. r[i].pid # p /\ st[r[i].pid] # "gone"
    BY <2>1, <1>1, <1>2 DEF Kept, CondQueue, NotGone
  <2>3. r[i] \in CondWaiter
    BY <1>2
  <2>4. r[i].pid \in Procs
    BY <2>3 DEF CondWaiter
  <2> QED BY <2>2, <2>4 DEF Buried
<1>4. ASSUME NEW j \in 1 .. Len(r), r[j].signaled, NEW i \in 1 .. j
      PROVE  r[i].signaled
  <2>1. CASE i = j
    BY <2>1, <1>4
  <2>2. CASE i # j
    <3>1. i \in 1 .. Len(r) /\ i < j
        BY <2>2, <1>2
    <3>2. PICK x \in 1 .. Len(ws), y \in 1 .. Len(ws) :
             x < y /\ r[i] = ws[x] /\ r[j] = ws[y]
        BY <3>1, <1>1 DEF Kept
    <3>3. x \in 1 .. y
        BY <3>2
    <3> QED BY <3>2, <3>3, <1>2, <1>4 DEF CondQueue
  <2> QED BY <2>1, <2>2
<1>5. CondQueue(r, st2)
    BY <1>2, <1>3, <1>4 DEF CondQueue
<1> QED BY <1>5 DEF r

LEMMA BarrierRetain ==
    ASSUME NEW k, NEW b, NEW st, NEW st2, NEW p,
           BarrierQueue(k, b, st), Buried(st, st2, p)
    PROVE  BarrierQueue(k, [b EXCEPT !.waiters = Without(@, p)], st2)
<1> DEFINE r == Without(b.waiters, p)
           ws == b.waiters
           d == [b EXCEPT !.waiters = r]
<1>0. b \in Barrier /\ ws \in Seq(BarrierWaiter)
    BY DEF BarrierQueue, Barrier
<1>1. Kept(BarrierWaiter, ws, p, Len(ws), r)
    BY <1>0, WithoutIs
<1> HIDE DEF r
<1>2. /\ r \in Seq(BarrierWaiter) /\ DOMAIN r = 1 .. Len(r) /\ DOMAIN ws = 1 .. Len(ws)
      /\ Len(r) \in Nat /\ Len(ws) \in Nat /\ Len(r) <= Len(ws)
    BY <1>0, <1>1 DEF Kept
<1>3. NotGone(r, st2)
  <2> SUFFICES ASSUME NEW i \in 1 .. Len(r) PROVE st2[r[i].pid] # "gone"
    BY <1>2 DEF NotGone
  <2>1. PICK j \in 1 .. Len(ws) : r[i] = ws[j]
    BY <1>1 DEF Kept
  <2>2. r[i].pid # p
    BY <1>1 DEF Kept
  <2>5. \A x \in DOMAIN ws : st[ws[x].pid] # "gone"
    BY DEF BarrierQueue, NotGone
  <2>6. st[ws[j].pid] # "gone"
    BY <2>1, <2>5, <1>2
  <2>3. r[i] \in BarrierWaiter
    BY <1>2
  <2>4. r[i].pid \in Procs
    BY <2>3 DEF BarrierWaiter
  <2> HIDE DEF ws
  <2> QED BY <2>1, <2>2, <2>6, <2>4 DEF Buried
<1>4. d \in Barrier /\ d.waiters = r /\ d.count = b.count /\ b.count \in Nat
    BY <1>0, <1>2 DEF Barrier
<1>5. k # "barrier" => r = <<>>
    BY <1>2 DEF BarrierQueue
<1>6. k = "barrier" => Len(r) < b.count
    BY <1>2, <1>4 DEF BarrierQueue
<1> HIDE DEF ws, d
<1>7. BarrierQueue(k, d, st2)
    BY <1>3, <1>4, <1>5, <1>6 DEF BarrierQueue
<1> QED BY <1>7 DEF d, r, ws

LEMMA CondAppend ==
    ASSUME NEW ws, NEW st, CondQueue(ws, st), NEW e \in CondWaiter,
           ~ e.signaled, st[e.pid] # "gone"
    PROVE  CondQueue(Append(ws, e), st)
<1> DEFINE r == Append(ws, e)
           n == Len(ws)
<1>1. /\ ws \in Seq(CondWaiter) /\ n \in Nat /\ DOMAIN ws = 1 .. n
      /\ r \in Seq(CondWaiter) /\ DOMAIN r = 1 .. n + 1
      /\ r[n + 1] = e /\ \A i \in 1 .. n : r[i] = ws[i]
    BY DEF CondQueue
<1>2. \A i \in 1 .. n + 1 : i = n + 1 \/ i \in 1 .. n
    BY <1>1
<1> HIDE DEF r, n
<1>3. NotGone(r, st)
    BY <1>1, <1>2 DEF NotGone, CondQueue
<1>4. ASSUME NEW j \in 1 .. n + 1, r[j].signaled, NEW i \in 1 .. j
      PROVE  r[i].signaled
  <2>1. j \in 1 .. n /\ ws[j].signaled
    BY <1>1, <1>2, <1>4
  <2>2. i \in 1 .. n
    BY <2>1, <1>1
  <2> QED BY <2>1, <2>2, <1>1 DEF CondQueue
<1>5. CondQueue(r, st)
    BY <1>1, <1>3, <1>4 DEF CondQueue
<1> QED BY <1>5 DEF r

(* Marking entries: all of them, or the oldest one that is not marked. *)
LEMMA CondMark ==
    ASSUME NEW ws, NEW st, CondQueue(ws, st), NEW r, DOMAIN r = DOMAIN ws,
           r \in Seq(CondWaiter), \A i \in DOMAIN ws : r[i].pid = ws[i].pid,
           NEW M \in SUBSET DOMAIN ws,
           \A i \in DOMAIN ws : r[i].signaled <=> ws[i].signaled \/ i \in M,
           \A i \in M : \A j \in 1 .. i : ws[j].signaled \/ j \in M
    PROVE  CondQueue(r, st)
<1>1. NotGone(r, st)
    BY DEF NotGone, CondQueue
<1>2. DOMAIN ws = 1 .. Len(ws) /\ Len(ws) \in Nat
    BY DEF CondQueue
<1>3. ASSUME NEW j \in DOMAIN ws, r[j].signaled, NEW i \in 1 .. j
      PROVE  r[i].signaled
    BY <1>2, <1>3 DEF CondQueue
<1> QED BY <1>1, <1>3 DEF CondQueue

-----------------------------------------------------------------------------
(* One object of a table is replaced. *)
LEMMA PutMutex ==
    ASSUME QInv, NEW m \in Ids, NEW mx, MutexOwned(mx, status)
    PROVE  MutexesOK([mutexes EXCEPT ![m] = mx], status)
BY DEF QInv, MutexesOK, MutexOwned

LEMMA PutCond ==
    ASSUME QInv, NEW c \in Ids, NEW ws, CondQueue(ws, status)
    PROVE  CondsOK([conds EXCEPT ![c] = ws], status)
BY DEF QInv, CondsOK, CondQueue

LEMMA PutBarrier ==
    ASSUME QInv, NEW i \in Ids, NEW b, BarrierQueue(kind[i], b, status)
    PROVE  BarriersOK(kind, [barriers EXCEPT ![i] = b], status)
BY DEF QInv, BarriersOK, BarrierQueue

(* A step of one thread, or of none, that leaves the names and the processes *)
(* alone.                                                                    *)
Frame ==
    /\ kind' = kind /\ next_id' = next_id /\ status' = status
    /\ MutexesOK(mutexes', status) /\ CondsOK(conds', status)
    /\ BarriersOK(kind, barriers', status)
    /\ held' \in [Threads -> [Ids -> Nat]] /\ HistoryOK(arrivals', serials')

LEMMA StepKeeps ==
    ASSUME QInv, NEW t \in Threads, NEW new \in Calls, Moved(t, new) \/ pc' = pc,
           new.op = "check" => new.mutex \in Ids, Frame
    PROVE  QInv'
<1>0. pc \in [Threads -> Calls]
    BY DEF QInv, MutexTypes, Calls
<1>a. pc' \in [Threads -> Calls]
    BY <1>0 DEF Moved
<1>1. MutexTypes'
    BY <1>a DEF QInv, MutexTypes, Calls, Frame, MutexesOK
<1>2. Fresh'
    BY DEF QInv, Fresh, Frame
<1>3. DOMAIN pc = Threads
    BY DEF QInv, MutexTypes
<1>4. \A u \in Threads : pc'[u] = pc[u] \/ pc'[u] = new
    BY <1>3 DEF Moved
<1>5. WaiterNamesMutex'
    BY <1>4 DEF QInv, WaiterNamesMutex
<1> QED BY <1>1, <1>2, <1>5 DEF QInv, Frame

(* What stays as it is. *)
LEMMA Unmoved ==
    ASSUME QInv
    PROVE  /\ MutexesOK(mutexes, status) /\ CondsOK(conds, status)
           /\ BarriersOK(kind, barriers, status) /\ HistoryOK(arrivals, serials)
           /\ held \in [Threads -> [Ids -> Nat]]
           /\ \A m \in Ids : mutexes[m] \in Mutex /\ MutexOwned(mutexes[m], status)
           /\ \A i \in Ids : CondQueue(conds[i], status)
           /\ \A i \in Ids : BarrierQueue(kind[i], barriers[i], status)
BY DEF QInv, MutexesOK, CondsOK, BarriersOK, MutexTypes

(* Owners: a live process, or none. *)
LEMMA FreeOwned ==
    ASSUME NEW mx \in Mutex, NEW st PROVE MutexOwned(FreeMutex(mx), st)
BY FreeFields, PSharedConstants DEF MutexOwned

LEMMA GrantOwned ==
    ASSUME QInv, NEW t \in Threads, Live(t), NEW m \in Ids, Grant(t, m)
    PROVE  MutexesOK(mutexes', status) /\ held' \in [Threads -> [Ids -> Nat]]
<1> DEFINE mx == [mutexes[m] EXCEPT !.owner = ProcOf[t], !.recursive_count = 0]
<1>1. mutexes[m] \in Mutex /\ ProcOf[t] \in Procs /\ status[ProcOf[t]] # "gone"
    BY Unmoved, PSharedConstants DEF Live
<1>2. mx \in Mutex /\ mx.owner = ProcOf[t]
    BY <1>1 DEF Mutex
<1>3. mutexes' = [mutexes EXCEPT ![m] = mx]
    BY DEF Grant, QInv, MutexTypes
<1> HIDE DEF mx
<1>4. MutexOwned(mx, status)
    BY <1>1, <1>2 DEF MutexOwned
<1>5. held' \in [Threads -> [Ids -> Nat]]
    BY DEF Grant, QInv, MutexTypes
<1> QED BY <1>3, <1>4, <1>5, PutMutex

-----------------------------------------------------------------------------
(* One step per action *)

LEMMA QLock ==
    ASSUME QInv, NEW t \in Threads, NEW m \in Ids, MutexLock(t, m) PROVE QInv'
<1> DEFINE mx == mutexes[m]
           call == At("lock", m, 0)
<1>1. Live(t) /\ UNCHANGED <<kind, next_id, status, conds, barriers, arrivals, serials>>
    BY DEF MutexLock, May, history
<1>2. call \in Calls /\ call.op = "lock" /\ Idle \in Calls /\ Idle.op = "idle"
    BY CallTypes, PSharedConstants DEF Ids
<1>3. mx \in Mutex /\ MutexOwned(mx, status)
    BY Unmoved
<1>4. Moved(t, call) \/ Moved(t, Idle)
    BY DEF MutexLock, Return, Moved
<1>5. \/ Grant(t, m)
      \/ /\ mutexes' = [mutexes EXCEPT ![m].recursive_count = @ + 1]
         /\ held' = [held EXCEPT ![t][m] = @ + 1]
      \/ UNCHANGED <<mutexes, held>>
    BY DEF MutexLock
<1>6. MutexesOK(mutexes', status) /\ held' \in [Threads -> [Ids -> Nat]]
  <2>1. CASE Grant(t, m)
    BY <1>1, <2>1, GrantOwned
  <2>2. CASE /\ mutexes' = [mutexes EXCEPT ![m].recursive_count = @ + 1]
             /\ held' = [held EXCEPT ![t][m] = @ + 1]
    <3> DEFINE new == [mx EXCEPT !.recursive_count = @ + 1]
    <3>1. new \in Mutex /\ new.owner = mx.owner
        BY <1>3 DEF Mutex
    <3>2. mutexes' = [mutexes EXCEPT ![m] = new]
        BY <2>2 DEF QInv, MutexTypes
    <3>3. held' \in [Threads -> [Ids -> Nat]]
        BY <2>2 DEF QInv, MutexTypes
    <3> HIDE DEF new
    <3>4. MutexOwned(new, status)
        BY <1>3, <3>1 DEF MutexOwned
    <3> QED BY <3>2, <3>3, <3>4, PutMutex
  <2>3. CASE UNCHANGED <<mutexes, held>>
    BY <2>3, Unmoved
  <2> QED BY <1>5, <2>1, <2>2, <2>3
<1>7. Frame
    BY <1>1, <1>6, Unmoved DEF Frame
<1> HIDE DEF call
<1> QED BY <1>2, <1>4, <1>7, StepKeeps

LEMMA QUnlock ==
    ASSUME QInv, NEW t \in Threads, NEW m \in Ids, MutexUnlock(t, m) PROVE QInv'
<1> DEFINE mx == mutexes[m]
           new == Unlocked(mx)
<1>1. /\ UNCHANGED <<kind, next_id, status, conds, barriers, arrivals, serials, pc>>
      /\ held[t][m] > 0
    BY DEF MutexUnlock, history
<1>2. mx \in Mutex /\ MutexOwned(mx, status)
    BY Unmoved
<1>3. mutexes' = [mutexes EXCEPT ![m] = new]
    BY DEF MutexUnlock, QInv, MutexTypes
<1>4. held' \in [Threads -> [Ids -> Nat]]
  <2>1. held' = [held EXCEPT ![t][m] = held[t][m] - 1]
    BY DEF MutexUnlock, QInv, MutexTypes
  <2>2. held[t][m] - 1 \in Nat
    BY <1>1, Unmoved
  <2> QED BY <2>1, <2>2, Unmoved
<1>5. MutexOwned(new, status)
  <2>1. CASE new = FreeMutex(mx)
    BY <1>2, <2>1, FreeOwned
  <2>2. CASE new = [mx EXCEPT !.recursive_count = @ - 1] /\ mx.recursive_count > 0
    <3>1. new \in Mutex /\ new.owner = mx.owner
        BY <1>2, <2>2 DEF Mutex
    <3> HIDE DEF new
    <3> QED BY <1>2, <3>1 DEF MutexOwned
  <2> QED BY <2>1, <2>2 DEF Unlocked
<1> HIDE DEF new
<1>6. Frame
    BY <1>1, <1>3, <1>4, <1>5, PutMutex, Unmoved DEF Frame
<1> QED BY <1>1, <1>6, StepKeeps, CallTypes

LEMMA QBegin ==
    ASSUME QInv, NEW t \in Threads, NEW c \in Ids, NEW m \in Ids, CondWaitBegin(t, c, m)
    PROVE  QInv'
<1> DEFINE p == ProcOf[t]
           entry == [pid |-> p, mutex_id |-> m, signaled |-> FALSE]
           new == FreeMutex(mutexes[m])
           call == At("check", c, m)
<1>1. Live(t) /\ UNCHANGED <<kind, next_id, status, barriers, arrivals, serials>>
    BY DEF CondWaitBegin, history
<1>2. mutexes' = [mutexes EXCEPT ![m] = new]
    BY DEF CondWaitBegin, QInv, MutexTypes
<1>3. MutexesOK(mutexes', status)
    BY <1>2, FreeOwned, PutMutex, Unmoved
<1>4. call \in Calls /\ call.mutex \in Ids /\ Idle \in Calls /\ Idle.op = "idle"
    BY CallTypes, PSharedConstants DEF Ids
<1>5. \/ conds' = conds
      \/ conds' = [conds EXCEPT ![c] = Append(conds[c], entry)]
    BY DEF CondWaitBegin, QInv, CondsOK
<1>6. CondsOK(conds', status)
  <2>1. /\ entry \in CondWaiter /\ ~ entry.signaled /\ entry.pid = p
        /\ status[p] # "gone"
    BY <1>1, PSharedConstants DEF CondWaiter, Live
  <2> HIDE DEF entry
  <2>2. CondQueue(Append(conds[c], entry), status)
    BY <2>1, Unmoved, CondAppend
  <2> QED BY <1>5, <2>2, PutCond, Unmoved
<1>7. held' \in [Threads -> [Ids -> Nat]]
  <2>1. held' = held \/ held' = [held EXCEPT ![t][m] = 0]
    BY DEF CondWaitBegin
  <2> QED BY <2>1, Unmoved
<1>8. Moved(t, call) \/ pc' = pc
    BY DEF CondWaitBegin, Moved
<1>9. Frame
    BY <1>1, <1>3, <1>6, <1>7, Unmoved DEF Frame
<1> HIDE DEF call
<1> QED BY <1>4, <1>8, <1>9, StepKeeps

LEMMA QCheck ==
    ASSUME QInv, NEW t \in Threads, CondWaitCheck(t) PROVE QInv'
<1> DEFINE p == ProcOf[t]
           c == pc[t].obj
           m == pc[t].mutex
           call == At("abort", c, 0)
<1>1. /\ Live(t) /\ pc[t].op = "check"
      /\ UNCHANGED <<kind, next_id, status, barriers, arrivals, serials>>
    BY DEF CondWaitCheck, history
<1>2. m \in Ids /\ c \in 0 .. MaxIds
    BY <1>1 DEF QInv, WaiterNamesMutex, MutexTypes
<1>3. call \in Calls /\ call.op = "abort" /\ Idle \in Calls /\ Idle.op = "idle"
    BY <1>2, CallTypes, PSharedConstants
<1>4. \/ /\ Grant(t, m) /\ conds' = [conds EXCEPT ![c] = Without(conds[c], p)]
         /\ Moved(t, Idle)
      \/ Moved(t, call) /\ UNCHANGED <<mutexes, conds, held>>
    BY DEF CondWaitCheck, Return, Moved, Awake
<1> HIDE DEF c, m, call
<1>5. MutexesOK(mutexes', status) /\ held' \in [Threads -> [Ids -> Nat]]
    BY <1>1, <1>2, <1>4, GrantOwned, Unmoved
<1>6. CondsOK(conds', status)
  <2>1. CASE c \in Ids
    <3>1. CondQueue(Without(conds[c], p), status)
        BY <2>1, Unmoved, CondRetain DEF Buried
    <3> QED BY <1>4, <2>1, <3>1, PutCond, Unmoved
  <2>2. CASE c \notin Ids
    <3>1. conds' = conds
        BY <1>4, <2>2 DEF QInv, CondsOK
    <3> QED BY <3>1, Unmoved
  <2> QED BY <2>1, <2>2
<1>7. Frame
    BY <1>1, <1>5, <1>6, Unmoved DEF Frame
<1> QED BY <1>3, <1>4, <1>7, StepKeeps

LEMMA QAbort ==
    ASSUME QInv, NEW t \in Threads, CondWaitAbort(t) PROVE QInv'
<1> DEFINE p == ProcOf[t]
           c == pc[t].obj
<1>1. /\ UNCHANGED <<kind, next_id, status, mutexes, barriers, held, arrivals, serials>>
      /\ conds' = [conds EXCEPT ![c] = Without(conds[c], p)] /\ Moved(t, Idle)
    BY DEF CondWaitAbort, history, Return, Moved
<1> HIDE DEF c
<1>2. CondsOK(conds', status)
  <2>1. CASE c \in Ids
    <3>1. CondQueue(Without(conds[c], p), status)
        BY <2>1, Unmoved, CondRetain DEF Buried
    <3> QED BY <1>1, <2>1, <3>1, PutCond
  <2>2. CASE c \notin Ids
    <3>1. conds' = conds
        BY <1>1, <2>2 DEF QInv, CondsOK
    <3> QED BY <3>1, Unmoved
  <2> QED BY <2>1, <2>2
<1>3. Frame
    BY <1>1, <1>2, Unmoved DEF Frame
<1> QED BY <1>1, <1>3, StepKeeps, CallTypes

SamePids(ws, r) == DOMAIN r = DOMAIN ws /\ \A i \in DOMAIN ws : r[i].pid = ws[i].pid

Marked(w) == [w EXCEPT !.signaled = TRUE]

(* cond_signal marks the oldest unmarked waiter, cond_broadcast all of them. *)
LEMMA QSignal ==
    ASSUME QInv, NEW c \in Ids, CondSignal(c)
    PROVE  CondsOK(conds', status) /\ \A i \in Ids : SamePids(conds[i], conds'[i])
<1> DEFINE ws == conds[c]
<1>1. PICK i \in NextToWake(ws) : conds' = [conds EXCEPT ![c][i].signaled = TRUE]
    BY DEF CondSignal
<1> DEFINE r == [ws EXCEPT ![i].signaled = TRUE]
<1>2. CondQueue(ws, status)
    BY Unmoved
<1>3. ws \in Seq(CondWaiter) /\ DOMAIN ws = 1 .. Len(ws) /\ Len(ws) \in Nat
    BY <1>2 DEF CondQueue
<1>4. i \in DOMAIN ws /\ \A j \in 1 .. i - 1 : ws[j].signaled
    BY DEF NextToWake
<1>5. conds' = [conds EXCEPT ![c] = r]
    BY <1>1 DEF QInv, CondsOK
<1> HIDE DEF ws
<1>6. \A j \in DOMAIN ws : ws[j] \in CondWaiter
    BY <1>3
<1>7. \A w \in CondWaiter : Marked(w) \in CondWaiter /\ Marked(w).pid = w.pid /\ Marked(w).signaled
    BY DEF CondWaiter, Marked
<1>8. /\ DOMAIN r = DOMAIN ws /\ r[i] = Marked(ws[i])
      /\ \A j \in DOMAIN ws : j # i => r[j] = ws[j]
    BY <1>3, <1>4 DEF Marked
<1> HIDE DEF r
<1>9. \A j \in DOMAIN ws : r[j] \in CondWaiter /\ r[j].pid = ws[j].pid
    BY <1>4, <1>6, <1>7, <1>8
<1>10. r = [j \in 1 .. Len(ws) |-> r[j]]
    BY <1>3, <1>8 DEF r
<1>11. r \in Seq(CondWaiter)
    BY <1>3, <1>9, <1>10
<1> DEFINE M == {i}
<1>12. \A j \in DOMAIN ws : r[j].signaled <=> ws[j].signaled \/ j \in M
    BY <1>4, <1>6, <1>7, <1>8
<1>13. \A k \in M : \A j \in 1 .. k : ws[j].signaled \/ j \in M
  <2>1. \A j \in 1 .. i : j = i \/ j \in 1 .. i - 1
    BY <1>3, <1>4
  <2> QED BY <1>4, <2>1
<1>14. M \in SUBSET DOMAIN ws
    BY <1>4
<1> HIDE DEF M
<1>15. CondQueue(r, status)
    BY <1>2, <1>8, <1>9, <1>11, <1>12, <1>13, <1>14, CondMark
<1>16. SamePids(ws, r)
    BY <1>8, <1>9 DEF SamePids
<1>17. \A k \in Ids : SamePids(conds[k], conds'[k])
    BY <1>5, <1>16 DEF SamePids, QInv, CondsOK, ws
<1> QED BY <1>5, <1>15, <1>17, PutCond

LEMMA QBroadcast ==
    ASSUME QInv, NEW c \in Ids, CondBroadcast(c)
    PROVE  CondsOK(conds', status) /\ \A i \in Ids : SamePids(conds[i], conds'[i])
<1> DEFINE ws == conds[c]
           r == [i \in DOMAIN ws |-> [ws[i] EXCEPT !.signaled = TRUE]]
<1>1. conds' = [conds EXCEPT ![c] = r]
    BY DEF CondBroadcast, QInv, CondsOK
<1>2. CondQueue(ws, status)
    BY Unmoved
<1>3. ws \in Seq(CondWaiter) /\ DOMAIN ws = 1 .. Len(ws) /\ Len(ws) \in Nat
    BY <1>2 DEF CondQueue
<1> HIDE DEF ws
<1>6. \A j \in DOMAIN ws : ws[j] \in CondWaiter
    BY <1>3
<1>7. \A w \in CondWaiter : Marked(w) \in CondWaiter /\ Marked(w).pid = w.pid /\ Marked(w).signaled
    BY DEF CondWaiter, Marked
<1>8. DOMAIN r = DOMAIN ws /\ \A j \in DOMAIN ws : r[j] = Marked(ws[j])
    BY DEF Marked
<1>9. r = [j \in 1 .. Len(ws) |-> r[j]]
    BY <1>3
<1> HIDE DEF r
<1>10. \A j \in DOMAIN ws : r[j] \in CondWaiter /\ r[j].pid = ws[j].pid /\ r[j].signaled
    BY <1>6, <1>7, <1>8
<1>11. r \in Seq(CondWaiter)
    BY <1>3, <1>9, <1>10
<1> DEFINE M == DOMAIN ws
<1>12. \A j \in DOMAIN ws : r[j].signaled <=> ws[j].signaled \/ j \in M
    BY <1>10
<1>13. \A k \in M : \A j \in 1 .. k : ws[j].signaled \/ j \in M
    BY <1>3
<1> HIDE DEF M
<1>14. M \in SUBSET DOMAIN ws
    BY DEF M
<1>15. CondQueue(r, status)
    BY <1>2, <1>8, <1>10, <1>11, <1>12, <1>13, <1>14, CondMark
<1>16. SamePids(ws, r)
    BY <1>8, <1>10 DEF SamePids
<1>17. \A k \in Ids : SamePids(conds[k], conds'[k])
    BY <1>1, <1>16 DEF SamePids, QInv, CondsOK, ws
<1> QED BY <1>1, <1>15, <1>17, PutCond

(* Barriers: an arrival queues, or fills the round and releases it. *)
LEMMA BarrierArrives ==
    ASSUME NEW b, NEW st, BarrierQueue("barrier", b, st), NEW e \in BarrierWaiter,
           st[e.pid] # "gone", Len(b.waiters) + 1 # b.count
    PROVE  BarrierQueue("barrier", [b EXCEPT !.waiters = Append(@, e)], st)
<1> DEFINE ws == b.waiters
           r == Append(ws, e)
           d == [b EXCEPT !.waiters = r]
           n == Len(ws)
<1>1. /\ b \in Barrier /\ ws \in Seq(BarrierWaiter) /\ n \in Nat /\ DOMAIN ws = 1 .. n
      /\ b.count \in Nat /\ n < b.count
    BY DEF BarrierQueue, Barrier
<1>2. /\ r \in Seq(BarrierWaiter) /\ DOMAIN r = 1 .. n + 1 /\ Len(r) = n + 1
      /\ r[n + 1] = e /\ \A i \in 1 .. n : r[i] = ws[i]
  <2> HIDE DEF ws
  <2> QED BY <1>1
<1>3. \A i \in 1 .. n : st[ws[i].pid] # "gone"
    BY <1>1 DEF BarrierQueue, NotGone
<1>4. n + 1 < b.count
    BY <1>1
<1> HIDE DEF r, n
<1>5. d \in Barrier /\ d.waiters = r /\ d.count = b.count
    BY <1>1, <1>2 DEF Barrier
<1> HIDE DEF ws, d
<1>6. NotGone(r, st)
  <2>1. \A i \in 1 .. n + 1 : i = n + 1 \/ i \in 1 .. n
    BY <1>1
  <2> QED BY <1>2, <1>3, <2>1 DEF NotGone
<1>7. BarrierQueue("barrier", d, st)
    BY <1>2, <1>4, <1>5, <1>6 DEF BarrierQueue
<1> QED BY <1>7 DEF d, r, ws

LEMMA BarrierReleases ==
    ASSUME NEW k, NEW b, NEW st, BarrierQueue(k, b, st), NEW p
    PROVE  /\ BarrierQueue(k, [b EXCEPT !.waiters = ReleasedRound(@, p)], st)
           /\ SamePids(b.waiters, ReleasedRound(b.waiters, p))
<1> DEFINE ws == b.waiters
           r == ReleasedRound(ws, p)
           d == [b EXCEPT !.waiters = r]
<1>1. /\ b \in Barrier /\ ws \in Seq(BarrierWaiter) /\ Len(ws) \in Nat
      /\ DOMAIN ws = 1 .. Len(ws)
    BY DEF BarrierQueue, Barrier
<1>2. \A i \in DOMAIN ws : st[ws[i].pid] # "gone"
    BY DEF BarrierQueue, NotGone
<1>3. /\ k = "barrier" => Len(ws) < b.count
      /\ k # "barrier" => ws = <<>>
    BY DEF BarrierQueue
<1>4. \A w \in BarrierWaiter :
         LET v == [w EXCEPT !.released = TRUE] IN v \in BarrierWaiter /\ v.pid = w.pid
    BY DEF BarrierWaiter
<1>5. r = [i \in 1 .. Len(ws) |-> [ws[i] EXCEPT !.released = TRUE]]
    BY <1>1 DEF ReleasedRound
<1> HIDE DEF r
<1>6. /\ r = [i \in 1 .. Len(ws) |-> r[i]]
      /\ \A i \in 1 .. Len(ws) : r[i] = [ws[i] EXCEPT !.released = TRUE]
  <2> HIDE DEF ws
  <2> QED BY <1>5
<1>7. \A i \in 1 .. Len(ws) : r[i] \in BarrierWaiter /\ r[i].pid = ws[i].pid
  <2> HIDE DEF ws
  <2>1. \A i \in 1 .. Len(ws) : ws[i] \in BarrierWaiter
    BY <1>1
  <2> QED BY <2>1, <1>4, <1>6
<1>8. r \in Seq(BarrierWaiter) /\ Len(r) = Len(ws) /\ DOMAIN r = 1 .. Len(ws)
  <2> HIDE DEF ws
  <2> QED BY <1>1, <1>6, <1>7
<1>9. d \in Barrier /\ d.waiters = r /\ d.count = b.count
    BY <1>1, <1>8 DEF Barrier
<1> HIDE DEF ws, d
<1>10. NotGone(r, st)
    BY <1>1, <1>2, <1>7, <1>8 DEF NotGone
<1>11. ws = <<>> => r = <<>>
    BY <1>8
<1>12. BarrierQueue(k, d, st)
    BY <1>3, <1>8, <1>9, <1>10, <1>11 DEF BarrierQueue
<1>13. SamePids(ws, r)
    BY <1>1, <1>7, <1>8 DEF SamePids
<1> QED BY <1>12, <1>13 DEF d, r, ws

LEMMA QBarrier ==
    ASSUME QInv, NEW t \in Threads, NEW i \in Ids, BarrierWait(t, i) PROVE QInv'
<1> DEFINE p == ProcOf[t]
           b == barriers[i]
           call == At("barrier", i, 0)
           entry == [pid |-> p, released |-> FALSE]
<1>1. Live(t) /\ UNCHANGED <<kind, next_id, status, mutexes, conds, held>>
    BY DEF BarrierWait, May
<1>2. call \in Calls /\ call.op = "barrier" /\ Idle \in Calls /\ Idle.op = "idle"
    BY CallTypes, PSharedConstants DEF Ids
<1>3. Moved(t, call) \/ Moved(t, Idle)
    BY DEF BarrierWait, Return, Moved
<1>4. \/ UNCHANGED <<barriers, arrivals, serials>>
      \/ /\ UNCHANGED <<arrivals, serials>>
         /\ barriers' = [barriers EXCEPT ![i].waiters = Without(@, p)]
      \/ /\ kind[i] = "barrier" /\ arrivals' = [arrivals EXCEPT ![i] = @ + 1]
         /\ \/ /\ barriers' = [barriers EXCEPT ![i].waiters = ReleasedRound(@, p)]
               /\ serials' = [serials EXCEPT ![i] = @ + 1]
            \/ /\ Len(b.waiters) + 1 # b.count /\ serials' = serials
               /\ barriers' = [barriers EXCEPT ![i].waiters = Append(@, entry)]
    BY DEF BarrierWait, history
<1>5. HistoryOK(arrivals', serials')
  <2>1. HistoryOK(arrivals, serials)
    BY Unmoved
  <2>2. arrivals' = arrivals \/ arrivals' = [arrivals EXCEPT ![i] = @ + 1]
    BY <1>4
  <2>3. serials' = serials \/ serials' = [serials EXCEPT ![i] = @ + 1]
    BY <1>4
  <2> QED BY <2>1, <2>2, <2>3 DEF HistoryOK
<1>6. BarriersOK(kind, barriers', status)
  <2>0. BarrierQueue(kind[i], b, status) /\ i \in DOMAIN barriers
    BY Unmoved DEF BarriersOK
  <2>1. CASE barriers' = barriers
    BY <2>1, Unmoved
  <2>2. CASE barriers' = [barriers EXCEPT ![i].waiters = Without(@, p)]
    <3> DEFINE d == [b EXCEPT !.waiters = Without(@, p)]
    <3>1. barriers' = [barriers EXCEPT ![i] = d]
        BY <2>2
    <3>2. BarrierQueue(kind[i], d, status)
        BY <2>0, BarrierRetain DEF Buried
    <3> HIDE DEF d
    <3> QED BY <3>1, <3>2, PutBarrier
  <2>3. CASE barriers' = [barriers EXCEPT ![i].waiters = ReleasedRound(@, p)]
    <3> DEFINE d == [b EXCEPT !.waiters = ReleasedRound(@, p)]
    <3>1. barriers' = [barriers EXCEPT ![i] = d]
        BY <2>3
    <3>2. BarrierQueue(kind[i], d, status)
        BY <2>0, BarrierReleases
    <3> HIDE DEF d
    <3> QED BY <3>1, <3>2, PutBarrier
  <2>4. CASE /\ kind[i] = "barrier" /\ Len(b.waiters) + 1 # b.count
             /\ barriers' = [barriers EXCEPT ![i].waiters = Append(@, entry)]
    <3>0. entry \in BarrierWaiter /\ entry.pid = p /\ status[p] # "gone"
        BY <1>1, PSharedConstants DEF BarrierWaiter, Live
    <3> HIDE DEF entry
    <3> DEFINE d == [b EXCEPT !.waiters = Append(@, entry)]
    <3>1. barriers' = [barriers EXCEPT ![i] = d]
        BY <2>4
    <3>2. BarrierQueue("barrier", b, status) /\ Len(b.waiters) + 1 # b.count
        BY <2>0, <2>4
    <3> HIDE DEF b
    <3>3. BarrierQueue("barrier", d, status)
        BY <3>0, <3>2, BarrierArrives
    <3>4. BarrierQueue(kind[i], d, status)
        BY <2>4, <3>3
    <3> HIDE DEF d
    <3> QED BY <3>1, <3>4, PutBarrier
  <2> HIDE DEF entry, b
  <2> QED BY <1>4, <2>1, <2>2, <2>3, <2>4
<1>7. Frame
    BY <1>1, <1>5, <1>6, Unmoved DEF Frame
<1> HIDE DEF call
<1> QED BY <1>2, <1>3, <1>7, StepKeeps

(* Creation: the id is in none of the maps, and its queues are empty. *)
LEMMA QAlloc ==
    ASSUME QInv, NEW k \in {"mutex", "cond", "barrier"}, AllocId(k),
           MutexesOK(mutexes', status), UNCHANGED <<conds, status, pc, held, arrivals, serials>>,
           \/ barriers' = barriers /\ k # "barrier"
           \/ \E n \in Counts : barriers' = [barriers EXCEPT ![next_id].count = n]
    PROVE  QInv'
<1>1. /\ next_id \in Ids /\ kind[next_id] = "free"
      /\ next_id' = next_id + 1 /\ kind' = [kind EXCEPT ![next_id] = k]
    BY PSharedConstants DEF QInv, MutexTypes, Fresh, AllocId, Ids
<1>2. MutexTypes'
  <2>1. next_id' \in 1 .. MaxIds + 1
    BY <1>1, PSharedConstants DEF Ids
  <2> QED BY <1>1, <2>1 DEF QInv, MutexTypes, MutexesOK
<1>3. Fresh' /\ WaiterNamesMutex'
    BY <1>1 DEF QInv, MutexTypes, Fresh, WaiterNamesMutex, Ids
<1>4. ASSUME NEW i \in Ids PROVE BarrierQueue(kind'[i], barriers'[i], status)
  <2>0. BarrierQueue(kind[i], barriers[i], status) /\ barriers[i] \in Barrier
    BY Unmoved DEF BarrierQueue
  <2>1. CASE i # next_id
    <3>1. kind'[i] = kind[i] /\ barriers'[i] = barriers[i]
        BY <1>1, <2>1 DEF QInv, MutexTypes, BarriersOK
    <3> QED BY <2>0, <3>1
  <2>2. CASE i = next_id /\ barriers' = barriers /\ k # "barrier"
    <3>1. kind'[i] = k
        BY <1>1, <2>2 DEF QInv, MutexTypes
    <3> QED BY <1>1, <2>0, <2>2, <3>1 DEF BarrierQueue
  <2>3. ASSUME i = next_id, NEW n \in Counts, barriers' = [barriers EXCEPT ![next_id].count = n]
        PROVE  BarrierQueue(kind'[i], barriers'[i], status)
    <3> DEFINE b == barriers[i]
               d == [b EXCEPT !.count = n]
    <3>1. barriers'[i] = d /\ kind'[i] = k
        BY <1>1, <2>3 DEF QInv, MutexTypes, BarriersOK
    <3>2. b.waiters = <<>> /\ n \in Nat /\ n > 0
        BY <1>1, <2>0, <2>3, PSharedConstants DEF BarrierQueue
    <3>3. d \in Barrier /\ d.waiters = <<>> /\ d.count = n
        BY <2>0, <3>2 DEF Barrier
    <3> HIDE DEF d
    <3>4. Len(d.waiters) < d.count /\ NotGone(d.waiters, status)
        BY <3>2, <3>3 DEF NotGone
    <3> QED BY <3>1, <3>3, <3>4 DEF BarrierQueue
  <2> QED BY <2>1, <2>2, <2>3
<1>5. barriers' \in [Ids -> Barrier]
  <2>1. \A i \in Ids : barriers'[i] \in Barrier
    BY <1>4 DEF BarrierQueue
  <2>2. barriers' = [i \in Ids |-> barriers'[i]]
    BY DEF QInv, BarriersOK
  <2> QED BY <2>1, <2>2
<1>6. BarriersOK(kind', barriers', status')
    BY <1>4, <1>5 DEF BarriersOK
<1> QED BY <1>2, <1>3, <1>6, Unmoved DEF QInv

LEMMA NewOwned ==
    ASSUME QInv, NEW mt \in MTypes, AllocId("mutex"),
           mutexes' = [mutexes EXCEPT ![next_id] = NewMutex(mt)]
    PROVE  MutexesOK(mutexes', status)
<1>1. next_id \in Ids
    BY PSharedConstants DEF QInv, MutexTypes, AllocId, Ids
<1>2. NewMutex(mt) \in Mutex /\ NewMutex(mt).owner = NoPid
    BY PSharedConstants DEF NewMutex, Mutex
<1>3. MutexOwned(NewMutex(mt), status)
    BY <1>2, PSharedConstants DEF MutexOwned
<1> QED BY <1>1, <1>3, PutMutex

LEMMA QDestroy ==
    ASSUME QInv, NEW i \in Ids, Destroy(i) PROVE QInv'
<1>1. /\ kind' = [kind EXCEPT ![i] = "free"] /\ ~ InUse(i)
      /\ UNCHANGED <<next_id, mutexes, conds, barriers, status, pc, held, arrivals, serials>>
    BY DEF Destroy, history
<1>2. MutexTypes' /\ Fresh' /\ WaiterNamesMutex'
    BY <1>1 DEF QInv, MutexTypes, Fresh, WaiterNamesMutex
<1>3. barriers[i].waiters = <<>>
    BY <1>1, Unmoved DEF InUse, BarrierQueue
<1>4. ASSUME NEW j \in Ids PROVE BarrierQueue(kind'[j], barriers[j], status)
  <2>1. CASE j = i
    <3>1. kind'[j] = "free"
        BY <1>1, <2>1 DEF QInv, MutexTypes
    <3> QED BY <1>3, <2>1, <3>1, Unmoved DEF BarrierQueue
  <2>2. CASE j # i
    <3>1. kind'[j] = kind[j]
        BY <1>1, <2>2 DEF QInv, MutexTypes
    <3> QED BY <3>1, Unmoved
  <2> QED BY <2>1, <2>2
<1>5. BarriersOK(kind', barriers', status')
    BY <1>1, <1>4, Unmoved DEF BarriersOK
<1> QED BY <1>1, <1>2, <1>5, Unmoved DEF QInv

(* The end of a process. *)
LEMMA QEnd ==
    ASSUME QInv, NEW p \in Procs, Vanish(p), NEW s \in {"zombie", "gone"},
           status' = [status EXCEPT ![p] = s], UNCHANGED <<kind, next_id, arrivals, serials>>,
           MutexesOK(mutexes', status'), CondsOK(conds', status'),
           BarriersOK(kind, barriers', status')
    PROVE  QInv'
<1>1. pc' \in [Threads -> Calls] /\ held' \in [Threads -> [Ids -> Nat]]
    BY CallTypes DEF QInv, MutexTypes, Vanish, Calls
<1>2. MutexTypes'
    BY <1>1 DEF QInv, MutexTypes, MutexesOK, Calls
<1>3. Fresh' /\ WaiterNamesMutex'
    BY DEF QInv, Fresh, WaiterNamesMutex, Vanish, Idle
<1> QED BY <1>2, <1>3, Unmoved DEF QInv

LEMMA QExit ==
    ASSUME QInv, NEW p \in Procs, Exit(p) PROVE QInv'
<1>1. /\ status[p] = "live" /\ status' = [status EXCEPT ![p] = "zombie"] /\ Vanish(p)
      /\ UNCHANGED <<kind, next_id, mutexes, conds, barriers, arrivals, serials>>
    BY DEF Exit, table, history
<1>2. DOMAIN status = Procs
    BY DEF QInv, MutexTypes
<1>3. \A q : status[q] # "gone" => status'[q] # "gone"
    BY <1>1, <1>2
<1>4. MutexesOK(mutexes', status') /\ CondsOK(conds', status') /\ BarriersOK(kind, barriers', status')
    BY <1>1, <1>3, Unmoved
       DEF MutexesOK, MutexOwned, CondsOK, CondQueue, BarriersOK, BarrierQueue, NotGone
<1> QED BY <1>1, <1>4, QEnd

(* cleanup_process: no mutex, no condition and no barrier is left with it.   *)
LEMMA QCleanup ==
    ASSUME QInv, NEW p \in Procs, Cleanup(p) PROVE QInv'
<1>1. /\ status' = [status EXCEPT ![p] = "gone"] /\ Vanish(p)
      /\ UNCHANGED <<kind, next_id, arrivals, serials>>
      /\ mutexes' = [m \in Ids |->
            IF mutexes[m].owner = p THEN FreeMutex(mutexes[m]) ELSE mutexes[m]]
      /\ conds' = [c \in Ids |-> Without(conds[c], p)]
      /\ barriers' = [b \in Ids |-> [barriers[b] EXCEPT !.waiters = Without(@, p)]]
    BY DEF Cleanup, history, BarriersWithout
<1>2. Buried(status, status', p) /\ \A q \in Procs : q # p => status'[q] = status[q]
    BY <1>1 DEF Buried, QInv, MutexTypes
<1>3. ASSUME NEW m \in Ids PROVE MutexOwned(mutexes'[m], status')
  <2>1. mutexes[m] \in Mutex /\ MutexOwned(mutexes[m], status)
    BY Unmoved
  <2>2. CASE mutexes[m].owner = p
    BY <1>1, <2>1, <2>2, FreeOwned
  <2>3. CASE mutexes[m].owner # p
    BY <1>1, <1>2, <2>1, <2>3 DEF MutexOwned
  <2> QED BY <2>2, <2>3
<1>4. MutexesOK(mutexes', status')
    BY <1>1, <1>3 DEF MutexesOK, MutexOwned
<1>5. ASSUME NEW c \in Ids PROVE CondQueue(Without(conds[c], p), status')
    BY <1>2, Unmoved, CondRetain
<1>6. CondsOK(conds', status')
    BY <1>1, <1>5 DEF CondsOK, CondQueue
<1>7. ASSUME NEW b \in Ids
      PROVE  BarrierQueue(kind[b], [barriers[b] EXCEPT !.waiters = Without(@, p)], status')
    BY <1>2, Unmoved, BarrierRetain
<1>8. BarriersOK(kind, barriers', status')
  <2> DEFINE d(b) == [barriers[b] EXCEPT !.waiters = Without(@, p)]
  <2>1. \A b \in Ids : BarrierQueue(kind[b], d(b), status')
    BY <1>7
  <2>2. barriers' = [b \in Ids |-> d(b)]
    BY <1>1
  <2> HIDE DEF d
  <2> QED BY <2>1, <2>2 DEF BarriersOK, BarrierQueue
<1> QED BY <1>1, <1>4, <1>6, <1>8, QEnd

LEMMA QStill ==
    ASSUME QInv, UNCHANGED <<kind, next_id, mutexes, barriers, status, pc, held, arrivals, serials>>,
           CondsOK(conds', status)
    PROVE  QInv'
BY Unmoved DEF QInv, MutexTypes, Fresh, WaiterNamesMutex

LEMMA QNext == ASSUME QInv, [Next]_vars PROVE QInv'
<1>1. CASE UNCHANGED vars
    BY <1>1, QStill, Unmoved DEF vars, table, history
<1>2. ASSUME NEW mt \in MTypes, MutexInit(mt) PROVE QInv'
    BY <1>2, QAlloc, NewOwned DEF MutexInit, history
<1>3. CASE CondInit
    BY <1>3, QAlloc, Unmoved DEF CondInit, history
<1>4. ASSUME NEW n \in Counts, BarrierInit(n) PROVE QInv'
    BY <1>4, QAlloc, Unmoved DEF BarrierInit, history
<1>5. ASSUME NEW i \in Ids, Destroy(i) PROVE QInv'
    BY <1>5, QDestroy
<1>6. ASSUME NEW i \in Ids, CondSignal(i) PROVE QInv'
    BY <1>6, QSignal, QStill DEF CondSignal, history
<1>7. ASSUME NEW i \in Ids, CondBroadcast(i) PROVE QInv'
    BY <1>7, QBroadcast, QStill DEF CondBroadcast, history
<1>8. ASSUME NEW t \in Threads, NEW i \in Ids, MutexLock(t, i) PROVE QInv'
    BY <1>8, QLock
<1>9. ASSUME NEW t \in Threads, NEW i \in Ids, MutexUnlock(t, i) PROVE QInv'
    BY <1>9, QUnlock
<1>10. ASSUME NEW t \in Threads, NEW i \in Ids, BarrierWait(t, i) PROVE QInv'
    BY <1>10, QBarrier
<1>11. ASSUME NEW t \in Threads, NEW c \in Ids, NEW m \in Ids, CondWaitBegin(t, c, m)
       PROVE  QInv'
    BY <1>11, QBegin
<1>12. ASSUME NEW t \in Threads, CondWaitCheck(t) PROVE QInv'
    BY <1>12, QCheck
<1>13. ASSUME NEW t \in Threads, CondWaitAbort(t) PROVE QInv'
    BY <1>13, QAbort
<1>14. ASSUME NEW t \in Threads, ThreadCancel(t) PROVE QInv'
  <2>1. /\ UNCHANGED <<kind, next_id, mutexes, conds, barriers, status, held, arrivals, serials>>
        /\ Moved(t, Idle) \/ Moved(t, At("abort", pc[t].obj, 0))
    BY <1>14 DEF ThreadCancel, table, history, Moved
  <2>2. pc[t].obj \in 0 .. MaxIds
    BY DEF QInv, MutexTypes
  <2>3. At("abort", pc[t].obj, 0) \in Calls /\ At("abort", pc[t].obj, 0).op = "abort"
    BY <2>2, CallTypes, PSharedConstants
  <2>4. Frame
    BY <2>1, Unmoved DEF Frame
  <2> QED BY <2>1, <2>3, <2>4, StepKeeps, CallTypes
<1>15. ASSUME NEW p \in Procs, Exit(p) PROVE QInv'
    BY <1>15, QExit
<1>16. ASSUME NEW p \in Procs, Cleanup(p) PROVE QInv'
    BY <1>16, QCleanup
<1> QED BY <1>1, <1>2, <1>3, <1>4, <1>5, <1>6, <1>7, <1>8, <1>9, <1>10, <1>11,
           <1>12, <1>13, <1>14, <1>15, <1>16 DEF Next

(* Whoever waits longer on a condition is signaled first, and a barrier      *)
(* always has room for one more arrival (cond_signal, cond_wait_begin,       *)
(* cond_wait_abort, barrier_wait and cleanup_process of PSharedTable),       *)
(* whatever the programs do.                                                 *)
THEOREM QueuesNeverJam == Spec => []QueuesInOrder
<1>1. Init => QInv
    BY QInvInit
<1>2. QInv /\ [Next]_vars => QInv'
    BY QNext
<1>3. QInv => QueuesInOrder
    BY QInvGives
<1> QED BY <1>1, <1>2, <1>3, PTL DEF Spec

(* A process that cleanup_process removed owns no mutex and has no entry in  *)
(* any queue, then or later.                                                 *)
THEOREM RemovedMeansRemoved == Spec => []GoneLeavesNothing
<1>1. Init => QInv
    BY QInvInit
<1>2. QInv /\ [Next]_vars => QInv'
    BY QNext
<1>3. QInv => GoneLeavesNothing
    BY QInvGives
<1> QED BY <1>1, <1>2, <1>3, PTL DEF Spec

-----------------------------------------------------------------------------
(* Who is in the queues, with one thread per process.                        *)

Has(ws, p) == EntriesOf(ws, p) # {}

LEMMA HasSame ==
    ASSUME NEW ws, NEW r, SamePids(ws, r), NEW p PROVE Has(r, p) <=> Has(ws, p)
BY DEF Has, EntriesOf, SamePids

LEMMA HasWithout ==
    ASSUME NEW S, NEW ws \in Seq(S), NEW p
    PROVE  ~ Has(Without(ws, p), p)
           /\ \A q : q # p => (Has(Without(ws, p), q) <=> Has(ws, q))
<1> DEFINE r == Without(ws, p)
<1>1. Kept(S, ws, p, Len(ws), r)
    BY WithoutIs
<1> HIDE DEF r
<1>2. DOMAIN r = 1 .. Len(r) /\ DOMAIN ws = 1 .. Len(ws)
    BY <1>1 DEF Kept
<1>a. /\ \A i \in 1 .. Len(r) : r[i].pid # p /\ \E j \in 1 .. Len(ws) : r[i] = ws[j]
      /\ \A j \in 1 .. Len(ws) : ws[j].pid # p => \E i \in 1 .. Len(r) : r[i] = ws[j]
    BY <1>1 DEF Kept
<1>3. \A i \in DOMAIN r : r[i].pid # p /\ \E j \in DOMAIN ws : r[i] = ws[j]
    BY <1>a, <1>2
<1>4. \A j \in DOMAIN ws : ws[j].pid # p => \E i \in DOMAIN r : r[i] = ws[j]
    BY <1>a, <1>2
<1>5. ~ Has(r, p)
    BY <1>3 DEF Has, EntriesOf
<1>6. ASSUME NEW q, q # p PROVE Has(r, q) <=> Has(ws, q)
  <2>1. ASSUME Has(r, q) PROVE Has(ws, q)
    <3>1. PICK i \in DOMAIN r : r[i].pid = q
        BY <2>1 DEF Has, EntriesOf
    <3>2. PICK j \in DOMAIN ws : r[i] = ws[j]
        BY <1>3
    <3> QED BY <3>1, <3>2 DEF Has, EntriesOf
  <2>2. ASSUME Has(ws, q) PROVE Has(r, q)
    <3>1. PICK j \in DOMAIN ws : ws[j].pid = q
        BY <2>2 DEF Has, EntriesOf
    <3>2. PICK i \in DOMAIN r : r[i] = ws[j]
        BY <1>4, <1>6, <3>1
    <3> QED BY <3>1, <3>2 DEF Has, EntriesOf
  <2> QED BY <2>1, <2>2
<1> QED BY <1>5, <1>6 DEF r

LEMMA HasAppend ==
    ASSUME NEW S, NEW ws \in Seq(S), NEW e \in S
    PROVE  Has(Append(ws, e), e.pid)
           /\ \A q : q # e.pid => (Has(Append(ws, e), q) <=> Has(ws, q))
<1> DEFINE r == Append(ws, e)
           n == Len(ws)
<1>1. /\ n \in Nat /\ DOMAIN ws = 1 .. n /\ DOMAIN r = 1 .. n + 1
      /\ r[n + 1] = e /\ \A i \in 1 .. n : r[i] = ws[i]
    OBVIOUS
<1>2. n + 1 \in 1 .. n + 1 /\ \A i \in 1 .. n : i \in 1 .. n + 1
    BY <1>1
<1>3. \A i \in 1 .. n + 1 : i = n + 1 \/ i \in 1 .. n
    BY <1>1
<1> HIDE DEF r, n
<1>4. Has(r, e.pid)
    BY <1>1, <1>2 DEF Has, EntriesOf
<1>5. ASSUME NEW q, q # e.pid PROVE Has(r, q) <=> Has(ws, q)
  <2>1. EntriesOf(r, q) = EntriesOf(ws, q)
    BY <1>1, <1>2, <1>3, <1>5 DEF EntriesOf
  <2> QED BY <2>1 DEF Has
<1> QED BY <1>4, <1>5 DEF r

(* A call waits on a condition, or at a barrier. *)
InCond(call, i) == call.op \in {"check", "abort"} /\ call.obj = i
InBarrier(call, i, k) == call.op = "barrier" /\ call.obj = i /\ k = "barrier"

(* A waiting call names an object that was created. *)
Names(call, n) ==
    /\ call.op \in {"check", "abort"} => call.obj \in Ids
    /\ call.op = "barrier" => call.obj \in Ids /\ call.obj < n
CallsName == \A t \in Threads : Names(pc[t], next_id)

Known(t) == \A i \in Ids :
    /\ Has(conds[i], ProcOf[t]) <=> InCond(pc[t], i)
    /\ Has(barriers[i].waiters, ProcOf[t]) <=> InBarrier(pc[t], i, kind[i])

WInv == QInv /\ CallsName /\ \A t \in Threads : Live(t) => Known(t)

LEMMA WInvGives == WInv => QueuesSound
<1> SUFFICES ASSUME WInv PROVE QueuesSound
    OBVIOUS
<1>1. TypeOK
    BY QInvGives DEF WInv
<1>2. WaitersKnown
    BY DEF WInv, WaitersKnown, Known, Has, InCond, InBarrier
<1> QED BY <1>1, <1>2 DEF QueuesSound

LEMMA WInvInit == Init => WInv
<1> SUFFICES ASSUME Init PROVE WInv
    OBVIOUS
<1>1. QInv
    BY QInvInit
<1>2. \A t \in Threads : pc[t] = Idle
    BY DEF Init
<1>3. CallsName
    BY <1>2 DEF CallsName, Names, Idle
<1>4. \A i \in Ids : conds[i] = <<>> /\ barriers[i].waiters = <<>>
    BY DEF Init
<1>5. \A p : ~ Has(<<>>, p)
    BY DEF Has, EntriesOf
<1>6. \A t \in Threads : Known(t)
    BY <1>2, <1>4, <1>5 DEF Known, InCond, InBarrier, Idle
<1> QED BY <1>1, <1>3, <1>6 DEF WInv

(* A step that changes no other process's entries, and after which this one  *)
(* has the entries of its new call.                                          *)
OthersStay(p) == \A q \in Procs, i \in Ids : q # p =>
    /\ Has(conds'[i], q) <=> Has(conds[i], q)
    /\ Has(barriers'[i].waiters, q) <=> Has(barriers[i].waiters, q)
OwnFits(p, new) == \A i \in Ids :
    /\ Has(conds'[i], p) <=> InCond(new, i)
    /\ Has(barriers'[i].waiters, p) <=> InBarrier(new, i, kind[i])

LEMMA WStep ==
    ASSUME OneThreadEach, WInv, QInv', NEW t \in Threads, NEW new, Moved(t, new),
           Names(new, next_id), UNCHANGED <<kind, next_id, status>>,
           OthersStay(ProcOf[t]), OwnFits(ProcOf[t], new)
    PROVE  WInv'
<1>1. DOMAIN pc = Threads
    BY DEF WInv, QInv, MutexTypes
<1>2. pc'[t] = new /\ \A u \in Threads \ {t} : pc'[u] = pc[u]
    BY <1>1 DEF Moved
<1>3. CallsName'
    BY <1>2 DEF CallsName, WInv
<1>4. ASSUME NEW u \in Threads, Live(u)' PROVE Known(u)'
  <2>1. Live(u)
    BY <1>4 DEF Live
  <2>2. CASE u = t
    BY <1>2, <2>2 DEF Known, OwnFits
  <2>3. CASE u # t
    <3>1. ProcOf[u] \in Procs /\ ProcOf[u] # ProcOf[t] /\ pc'[u] = pc[u]
        BY <1>2, <2>3, PSharedConstants DEF OneThreadEach
    <3>2. Known(u)
        BY <2>1 DEF WInv
    <3> QED BY <3>1, <3>2 DEF Known, OthersStay
  <2> QED BY <2>2, <2>3
<1> QED BY <1>3, <1>4 DEF WInv

LEMMA IdleFacts ==
    /\ \A i, k : ~ InCond(Idle, i) /\ ~ InBarrier(Idle, i, k)
    /\ \A i \in Ids : /\ \A j, k : ~ InCond(At("lock", i, 0), j) /\ ~ InBarrier(At("lock", i, 0), j, k)
                      /\ Names(At("lock", i, 0), next_id)
    /\ Names(Idle, next_id)
BY DEF InCond, InBarrier, Idle, At, Names

(* A step that leaves the queues alone and lets t go from a call without an  *)
(* entry to another one.                                                     *)
LEMMA WQuiet ==
    ASSUME OneThreadEach, WInv, QInv', NEW t \in Threads, Live(t), NEW new, Moved(t, new),
           Names(new, next_id), UNCHANGED <<kind, next_id, status, conds, barriers>>,
           \A i \in Ids : /\ InCond(new, i) <=> InCond(pc[t], i)
                          /\ InBarrier(new, i, kind[i]) <=> InBarrier(pc[t], i, kind[i])
    PROVE  WInv'
<1>1. OthersStay(ProcOf[t])
    BY DEF OthersStay
<1>2. Known(t)
    BY DEF WInv
<1>3. OwnFits(ProcOf[t], new)
    BY <1>2 DEF OwnFits, Known
<1> QED BY <1>1, <1>3, WStep

LEMMA WLock ==
    ASSUME OneThreadEach, WInv, QInv', NEW t \in Threads, NEW m \in Ids, MutexLock(t, m)
    PROVE  WInv'
<1> DEFINE call == At("lock", m, 0)
<1>1. /\ Live(t) /\ pc[t] \in {Idle, call}
      /\ UNCHANGED <<kind, next_id, status, conds, barriers>>
    BY DEF MutexLock, May
<1>2. Moved(t, call) \/ Moved(t, Idle)
    BY DEF MutexLock, Return, Moved
<1>3. \A c \in {Idle, call} :
         Names(c, next_id) /\ \A i \in Ids : ~ InCond(c, i) /\ ~ InBarrier(c, i, kind[i])
    BY IdleFacts
<1> HIDE DEF call
<1> QED BY <1>1, <1>2, <1>3, WQuiet

LEMMA WUnlock ==
    ASSUME OneThreadEach, WInv, QInv', NEW t \in Threads, NEW m \in Ids, MutexUnlock(t, m)
    PROVE  WInv'
<1>1. /\ Live(t) /\ pc[t] = Idle /\ pc' = pc
      /\ UNCHANGED <<kind, next_id, status, conds, barriers>>
    BY DEF MutexUnlock
<1>2. Moved(t, Idle)
    BY <1>1 DEF Moved, WInv, QInv, MutexTypes
<1> QED BY <1>1, <1>2, IdleFacts, WQuiet

(* A queue of a condition gets or loses the entry of t. *)
LEMMA WBegin ==
    ASSUME OneThreadEach, WInv, QInv', NEW t \in Threads, NEW c \in Ids, NEW m \in Ids,
           CondWaitBegin(t, c, m)
    PROVE  WInv'
<1> DEFINE p == ProcOf[t]
           entry == [pid |-> p, mutex_id |-> m, signaled |-> FALSE]
           call == At("check", c, m)
<1>1. /\ Live(t) /\ pc[t] = Idle /\ Moved(t, call)
      /\ UNCHANGED <<kind, next_id, status, barriers>>
      /\ conds' = IF Has(conds[c], p) THEN conds
                  ELSE [conds EXCEPT ![c] = Append(@, entry)]
    BY DEF CondWaitBegin, OneThreadEach, Moved, Has
<1>2. \A i \in Ids : ~ Has(conds[i], p) /\ ~ Has(barriers[i].waiters, p)
    BY <1>1, IdleFacts DEF WInv, Known
<1>3. conds' = [conds EXCEPT ![c] = Append(conds[c], entry)] /\ DOMAIN conds = Ids
    BY <1>1, <1>2 DEF WInv, QInv, CondsOK
<1>4. conds[c] \in Seq(CondWaiter) /\ entry \in CondWaiter /\ entry.pid = p
    BY PSharedConstants DEF WInv, QInv, CondsOK, CondWaiter
<1> HIDE DEF entry
<1>5. Has(conds'[c], p) /\ \A q : q # p => (Has(conds'[c], q) <=> Has(conds[c], q))
    BY <1>3, <1>4, HasAppend
<1>6. \A i \in Ids : i # c => conds'[i] = conds[i]
    BY <1>3
<1>7. OthersStay(p)
    BY <1>1, <1>5, <1>6 DEF OthersStay
<1>8. \A i, k : (InCond(call, i) <=> i = c) /\ ~ InBarrier(call, i, k)
    BY DEF InCond, InBarrier, At
<1>9. Names(call, next_id)
    BY DEF Names, At
<1> HIDE DEF call
<1>10. OwnFits(p, call)
    BY <1>1, <1>2, <1>5, <1>6, <1>8 DEF OwnFits
<1> QED BY <1>1, <1>7, <1>9, <1>10, WStep

LEMMA WAwake ==
    ASSUME OneThreadEach, WInv, QInv', NEW t \in Threads, Live(t),
           NEW c \in Ids, InCond(pc[t], c), Moved(t, Idle),
           conds' = [conds EXCEPT ![c] = Without(conds[c], ProcOf[t])],
           UNCHANGED <<kind, next_id, status, barriers>>
    PROVE  WInv'
<1> DEFINE p == ProcOf[t]
<1>1. conds[c] \in Seq(CondWaiter) /\ DOMAIN conds = Ids
    BY DEF WInv, QInv, CondsOK
<1>2. /\ conds'[c] = Without(conds[c], p)
      /\ \A i \in Ids : i # c => conds'[i] = conds[i]
    BY <1>1
<1>3. ~ Has(conds'[c], p) /\ \A q : q # p => (Has(conds'[c], q) <=> Has(conds[c], q))
    BY <1>1, <1>2, HasWithout
<1>4. OthersStay(p)
    BY <1>2, <1>3 DEF OthersStay
<1>5. \A i \in Ids : i # c => ~ InCond(pc[t], i)
    BY DEF InCond
<1>6. \A i \in Ids : ~ InBarrier(pc[t], i, kind[i])
    BY DEF InBarrier, InCond
<1>7. \A i \in Ids : (i # c => ~ Has(conds[i], p)) /\ ~ Has(barriers[i].waiters, p)
    BY <1>5, <1>6 DEF WInv, Known
<1>8. OwnFits(p, Idle)
    BY <1>2, <1>3, <1>7, IdleFacts DEF OwnFits
<1> QED BY <1>4, <1>8, IdleFacts, WStep

LEMMA WCheck ==
    ASSUME OneThreadEach, WInv, QInv', NEW t \in Threads, CondWaitCheck(t)
    PROVE  WInv'
<1> DEFINE p == ProcOf[t]
           c == pc[t].obj
           call == At("abort", c, 0)
<1>1. Live(t) /\ pc[t].op = "check" /\ UNCHANGED <<kind, next_id, status, barriers>>
    BY DEF CondWaitCheck
<1>2. c \in Ids /\ InCond(pc[t], c)
    BY <1>1 DEF WInv, CallsName, Names, InCond
<1>3. \/ conds' = [conds EXCEPT ![c] = Without(conds[c], p)] /\ Moved(t, Idle)
      \/ Moved(t, call) /\ conds' = conds
    BY DEF CondWaitCheck, Return, Moved, Awake
<1>4. Names(call, next_id)
    BY <1>2 DEF Names, At
<1>5. \A i \in Ids : /\ InCond(call, i) <=> InCond(pc[t], i)
                     /\ InBarrier(call, i, kind[i]) <=> InBarrier(pc[t], i, kind[i])
    BY <1>1 DEF InCond, InBarrier, At
<1> HIDE DEF c, call
<1> QED BY <1>1, <1>2, <1>3, <1>4, <1>5, WAwake, WQuiet

LEMMA WAbort ==
    ASSUME OneThreadEach, WInv, QInv', NEW t \in Threads, CondWaitAbort(t)
    PROVE  WInv'
<1> DEFINE c == pc[t].obj
<1>1. /\ Live(t) /\ pc[t].op = "abort" /\ UNCHANGED <<kind, next_id, status, barriers>>
      /\ conds' = [conds EXCEPT ![c] = Without(conds[c], ProcOf[t])] /\ Moved(t, Idle)
    BY DEF CondWaitAbort, Return, Moved
<1>2. c \in Ids /\ InCond(pc[t], c)
    BY <1>1 DEF WInv, CallsName, Names, InCond
<1> HIDE DEF c
<1> QED BY <1>1, <1>2, WAwake

LEMMA WBarrier ==
    ASSUME OneThreadEach, WInv, QInv', NEW t \in Threads, NEW b \in Ids, b < next_id,
           BarrierWait(t, b)
    PROVE  WInv'
<1> DEFINE p == ProcOf[t]
           ws == barriers[b].waiters
           call == At("barrier", b, 0)
           entry == [pid |-> p, released |-> FALSE]
<1>1. /\ Live(t) /\ pc[t] \in {Idle, call}
      /\ UNCHANGED <<kind, next_id, status, conds>>
    BY DEF BarrierWait, May
<1>2. /\ Names(call, next_id) /\ \A i : ~ InCond(call, i)
      /\ \A i, k : InBarrier(call, i, k) <=> i = b /\ k = "barrier"
    BY DEF Names, At, InCond, InBarrier
<1>3. \/ /\ kind[b] = "barrier" /\ barriers' = [barriers EXCEPT ![b].waiters = Without(@, p)]
         /\ Moved(t, Idle)
      \/ /\ kind[b] = "barrier" /\ Has(ws, p) /\ barriers' = barriers /\ Moved(t, call)
      \/ /\ kind[b] = "barrier" /\ ~ Has(ws, p)
         /\ \/ /\ barriers' = [barriers EXCEPT ![b].waiters = ReleasedRound(@, p)]
               /\ Moved(t, Idle)
            \/ /\ barriers' = [barriers EXCEPT ![b].waiters = Append(@, entry)]
               /\ Moved(t, call)
      \/ kind[b] # "barrier" /\ barriers' = barriers /\ Moved(t, Idle)
    BY DEF BarrierWait, Return, Moved, Has
<1>4. /\ DOMAIN barriers = Ids /\ barriers[b] \in Barrier /\ ws \in Seq(BarrierWaiter)
      /\ BarrierQueue(kind[b], barriers[b], status)
    BY DEF WInv, QInv, BarriersOK, Barrier
<1>5. entry \in BarrierWaiter /\ entry.pid = p /\ p \in Procs
    BY PSharedConstants DEF BarrierWaiter
<1> HIDE DEF call, entry
<1>6. /\ \A i \in Ids : ~ Has(conds[i], p)
      /\ \A i \in Ids : i # b => ~ Has(barriers[i].waiters, p)
      /\ kind[b] # "barrier" => ~ Has(ws, p)
    BY <1>1, <1>2, IdleFacts DEF WInv, Known
<1>7. ASSUME NEW r, NEW new \in {Idle, call}, Moved(t, new),
             barriers' = [barriers EXCEPT ![b].waiters = r],
             \A q : q # p => (Has(r, q) <=> Has(ws, q)),
             Has(r, p) <=> (new = call /\ kind[b] = "barrier")
      PROVE  WInv'
  <2>1. /\ barriers'[b].waiters = r
        /\ \A i \in Ids : i # b => barriers'[i] = barriers[i]
    BY <1>4, <1>7 DEF Barrier
  <2>2. OthersStay(p)
    BY <1>1, <1>7, <2>1 DEF OthersStay
  <2>3. \A i \in Ids : ~ InCond(new, i)
                      /\ (InBarrier(new, i, kind[i]) <=> new = call /\ i = b /\ kind[i] = "barrier")
    BY <1>2, IdleFacts
  <2>4. OwnFits(p, new)
    <3> SUFFICES ASSUME NEW i \in Ids
                 PROVE  /\ Has(conds'[i], p) <=> InCond(new, i)
                        /\ Has(barriers'[i].waiters, p) <=> InBarrier(new, i, kind[i])
        BY DEF OwnFits
    <3>1. CASE i = b
        BY <1>1, <1>6, <1>7, <2>1, <2>3, <3>1
    <3>2. CASE i # b
        BY <1>1, <1>6, <2>1, <2>3, <3>2
    <3> QED BY <3>1, <3>2
  <2>5. Names(new, next_id)
    BY <1>2, IdleFacts
  <2> QED BY <1>1, <1>7, <2>2, <2>4, <2>5, WStep
<1>8. Idle # call
    BY DEF Idle, call, At
<1>9. CASE /\ kind[b] = "barrier" /\ Moved(t, Idle)
           /\ barriers' = [barriers EXCEPT ![b].waiters = Without(@, p)]
  <2> DEFINE r == Without(ws, p)
  <2>1. ~ Has(r, p) /\ \A q : q # p => (Has(r, q) <=> Has(ws, q))
    BY <1>4, HasWithout
  <2>2. barriers' = [barriers EXCEPT ![b].waiters = r]
    BY <1>9
  <2> HIDE DEF r
  <2> QED BY <1>7, <1>8, <1>9, <2>1, <2>2
<1>10. CASE /\ kind[b] = "barrier" /\ Has(ws, p) /\ barriers' = barriers /\ Moved(t, call)
  <2>1. pc[t] = call
    <3>1. pc[t] # Idle
        BY <1>1, <1>10, IdleFacts DEF WInv, Known
    <3> QED BY <1>1, <3>1
  <2> QED BY <1>1, <1>2, <1>10, <2>1, WQuiet
<1>11. CASE /\ kind[b] = "barrier" /\ ~ Has(ws, p) /\ Moved(t, Idle)
            /\ barriers' = [barriers EXCEPT ![b].waiters = ReleasedRound(@, p)]
  <2> DEFINE r == ReleasedRound(ws, p)
  <2>1. SamePids(ws, r)
    BY <1>4, BarrierReleases
  <2>2. barriers' = [barriers EXCEPT ![b].waiters = r]
    BY <1>11
  <2> HIDE DEF r, ws
  <2>3. \A q : Has(r, q) <=> Has(ws, q)
    BY <2>1, HasSame
  <2> QED BY <1>7, <1>8, <1>11, <2>2, <2>3
<1>12. CASE /\ kind[b] = "barrier" /\ ~ Has(ws, p) /\ Moved(t, call)
            /\ barriers' = [barriers EXCEPT ![b].waiters = Append(@, entry)]
  <2> DEFINE r == Append(ws, entry)
  <2>1. Has(r, p) /\ \A q : q # p => (Has(r, q) <=> Has(ws, q))
    BY <1>4, <1>5, HasAppend
  <2>2. barriers' = [barriers EXCEPT ![b].waiters = r]
    BY <1>12
  <2> HIDE DEF r
  <2> QED BY <1>7, <1>12, <2>1, <2>2
<1>13. CASE kind[b] # "barrier" /\ barriers' = barriers /\ Moved(t, Idle)
  <2>1. \A i \in Ids : ~ InCond(pc[t], i) /\ ~ InBarrier(pc[t], i, kind[i])
    BY <1>1, <1>2, <1>13, IdleFacts
  <2>2. Names(Idle, next_id) /\ \A i \in Ids : ~ InCond(Idle, i) /\ ~ InBarrier(Idle, i, kind[i])
    BY IdleFacts
  <2> HIDE DEF ws
  <2> QED BY <1>1, <1>13, <2>1, <2>2, WQuiet
<1> HIDE DEF ws
<1> QED BY <1>3, <1>9, <1>10, <1>11, <1>12, <1>13

(* Steps of no thread, or of a process that ends. *)
LEMMA WNames ==
    ASSUME WInv, QInv', next_id' \in {next_id, next_id + 1}, NEW p \in Procs \cup {NoPid},
           \A t \in Threads : IF ProcOf[t] = p THEN pc'[t] = Idle ELSE pc'[t] = pc[t],
           \A q \in Procs \ {p}, i \in Ids :
              /\ Has(conds'[i], q) <=> Has(conds[i], q)
              /\ Has(barriers'[i].waiters, q) <=> Has(barriers[i].waiters, q),
           \A q \in Procs \ {p} : status'[q] = status[q],
           p \in Procs => status'[p] # "live",
           \A t \in Threads : Live(t) =>
              \A i \in Ids : InBarrier(pc[t], i, kind'[i]) <=> InBarrier(pc[t], i, kind[i])
    PROVE  WInv'
<1>1. next_id \in Int
    BY DEF WInv, QInv, MutexTypes
<1>2. CallsName'
  <2> SUFFICES ASSUME NEW t \in Threads PROVE Names(pc'[t], next_id')
    BY DEF CallsName
  <2>1. CASE ProcOf[t] = p
    BY <2>1 DEF Names, Idle
  <2>2. CASE ProcOf[t] # p
    <3>1. Names(pc[t], next_id) /\ pc'[t] = pc[t]
        BY <2>2 DEF WInv, CallsName
    <3> QED BY <1>1, <3>1 DEF Names, Ids
  <2> QED BY <2>1, <2>2
<1>3. ASSUME NEW t \in Threads, Live(t)' PROVE Known(t)'
  <2>1. ProcOf[t] \in Procs \ {p} /\ pc'[t] = pc[t]
    BY <1>3, PSharedConstants DEF Live
  <2>2. Live(t) /\ Known(t)
    BY <1>3, <2>1 DEF WInv, Live
  <2> QED BY <2>1, <2>2 DEF Known
<1> QED BY <1>2, <1>3 DEF WInv

(* Steps that change the names, the marks or nothing. *)
LEMMA WWorld ==
    ASSUME WInv, QInv', next_id' \in {next_id, next_id + 1}, pc' = pc, status' = status,
           \A i \in Ids : conds'[i] = conds[i] \/ SamePids(conds[i], conds'[i]),
           \A i \in Ids : barriers'[i].waiters = barriers[i].waiters,
           \A t \in Threads : Live(t) =>
              \A i \in Ids : InBarrier(pc[t], i, kind'[i]) <=> InBarrier(pc[t], i, kind[i])
    PROVE  WInv'
<1>1. \A q : \A i \in Ids : Has(conds'[i], q) <=> Has(conds[i], q)
    BY HasSame
<1>2. NoPid \notin Procs /\ \A t \in Threads : ProcOf[t] \in Procs
    BY PSharedConstants
<1>3. \A t \in Threads : IF ProcOf[t] = NoPid THEN pc'[t] = Idle ELSE pc'[t] = pc[t]
    BY <1>2
<1>4. \A q \in Procs \ {NoPid}, i \in Ids :
         /\ Has(conds'[i], q) <=> Has(conds[i], q)
         /\ Has(barriers'[i].waiters, q) <=> Has(barriers[i].waiters, q)
    BY <1>1
<1>5. \A q \in Procs \ {NoPid} : status'[q] = status[q]
    OBVIOUS
<1> QED BY <1>2, <1>3, <1>4, <1>5, WNames

LEMMA WAlloc ==
    ASSUME WInv, QInv', NEW k, AllocId(k), UNCHANGED <<conds, status, pc>>,
           \/ barriers' = barriers
           \/ \E n \in Counts : barriers' = [barriers EXCEPT ![next_id].count = n]
    PROVE  WInv'
<1>1. next_id' = next_id + 1 /\ kind' = [kind EXCEPT ![next_id] = k] /\ DOMAIN kind = Ids
    BY DEF AllocId, WInv, QInv, MutexTypes
<1>2. ASSUME NEW i \in Ids PROVE barriers'[i].waiters = barriers[i].waiters
  <2>1. DOMAIN barriers = Ids /\ barriers[i] \in Barrier
    BY DEF WInv, QInv, BarriersOK
  <2>2. CASE barriers' = barriers
    BY <2>2
  <2>3. ASSUME NEW n \in Counts, barriers' = [barriers EXCEPT ![next_id].count = n]
        PROVE  barriers'[i].waiters = barriers[i].waiters
    <3>1. barriers'[i] = barriers[i] \/ barriers'[i] = [barriers[i] EXCEPT !.count = n]
        BY <2>1, <2>3
    <3>2. [barriers[i] EXCEPT !.count = n].waiters = barriers[i].waiters
        BY <2>1 DEF Barrier
    <3> QED BY <3>1, <3>2
  <2> QED BY <2>2, <2>3
<1>3. ASSUME NEW t \in Threads, NEW i \in Ids
      PROVE  InBarrier(pc[t], i, kind'[i]) <=> InBarrier(pc[t], i, kind[i])
  <2>1. CASE i = next_id
    <3>1. pc[t].op = "barrier" => pc[t].obj \in Ids /\ pc[t].obj < next_id
        BY DEF WInv, CallsName, Names
    <3> QED BY <2>1, <3>1 DEF InBarrier, Ids
  <2>2. CASE i # next_id
    BY <1>1, <2>2
  <2> QED BY <2>1, <2>2
<1> QED BY <1>1, <1>2, <1>3, WWorld

LEMMA WDestroy ==
    ASSUME WInv, QInv', NEW i \in Ids, Destroy(i) PROVE WInv'
<1>1. /\ kind' = [kind EXCEPT ![i] = "free"] /\ ~ InUse(i) /\ DOMAIN kind = Ids
      /\ UNCHANGED <<next_id, conds, barriers, status, pc>>
    BY DEF Destroy, WInv, QInv, MutexTypes
<1>2. ASSUME NEW t \in Threads, Live(t), NEW j \in Ids
      PROVE  InBarrier(pc[t], j, kind'[j]) <=> InBarrier(pc[t], j, kind[j])
  <2>1. CASE j = i
    <3>1. barriers[j].waiters = <<>>
        BY <1>1, <2>1, Unmoved DEF WInv, InUse, BarrierQueue
    <3>2. ~ Has(barriers[j].waiters, ProcOf[t])
        BY <3>1 DEF Has, EntriesOf
    <3>3. ~ InBarrier(pc[t], j, kind[j])
        BY <1>2, <3>2 DEF WInv, Known
    <3>4. kind'[j] = "free"
        BY <1>1, <2>1
    <3> QED BY <3>3, <3>4 DEF InBarrier
  <2>2. CASE j # i
    BY <1>1, <2>2
  <2> QED BY <2>1, <2>2
<1> QED BY <1>1, <1>2, WWorld

LEMMA WEnd ==
    ASSUME OneThreadEach, WInv, QInv', NEW p \in Procs, Exit(p) \/ Cleanup(p) PROVE WInv'
<1>1. /\ Vanish(p) /\ UNCHANGED <<kind, next_id>>
      /\ \E s \in {"zombie", "gone"} : status' = [status EXCEPT ![p] = s]
    BY DEF Exit, Cleanup, table
<1>2. /\ \A q \in Procs \ {p} : status'[q] = status[q]
      /\ status'[p] # "live"
    BY <1>1 DEF WInv, QInv, MutexTypes
<1>3. \A t \in Threads : IF ProcOf[t] = p THEN pc'[t] = Idle ELSE pc'[t] = pc[t]
    BY <1>1 DEF Vanish
<1>4. ASSUME NEW q \in Procs \ {p}, NEW i \in Ids
      PROVE  /\ Has(conds'[i], q) <=> Has(conds[i], q)
             /\ Has(barriers'[i].waiters, q) <=> Has(barriers[i].waiters, q)
  <2>1. CASE Exit(p)
    BY <2>1 DEF Exit, table
  <2>2. CASE Cleanup(p)
    <3>1. /\ conds[i] \in Seq(CondWaiter) /\ barriers[i] \in Barrier
          /\ barriers[i].waiters \in Seq(BarrierWaiter)
        BY DEF WInv, QInv, CondsOK, BarriersOK, Barrier
    <3>2. /\ conds'[i] = Without(conds[i], p)
          /\ barriers'[i].waiters = Without(barriers[i].waiters, p)
        BY <2>2, <3>1 DEF Cleanup, BarriersWithout, Barrier
    <3> QED BY <3>1, <3>2, HasWithout
  <2> QED BY <2>1, <2>2
<1> QED BY <1>1, <1>2, <1>3, <1>4, WNames

LEMMA WNext == ASSUME OneThreadEach, WInv, [Next]_vars PROVE WInv'
<1>0. QInv'
    BY QNext DEF WInv
<1>1. CASE UNCHANGED vars
    BY <1>0, <1>1, WWorld DEF vars, table
<1>2. ASSUME NEW mt \in MTypes, MutexInit(mt) PROVE WInv'
    BY <1>0, <1>2, WAlloc DEF MutexInit
<1>3. CASE CondInit
    BY <1>0, <1>3, WAlloc DEF CondInit
<1>4. ASSUME NEW n \in Counts, BarrierInit(n) PROVE WInv'
    BY <1>0, <1>4, WAlloc DEF BarrierInit
<1>5. ASSUME NEW i \in Ids, Destroy(i) PROVE WInv'
    BY <1>0, <1>5, WDestroy
<1>6. ASSUME NEW i \in Ids, CondSignal(i) PROVE WInv'
  <2>1. \A j \in Ids : SamePids(conds[j], conds'[j])
    BY <1>6, QSignal DEF WInv
  <2> QED BY <1>0, <1>6, <2>1, WWorld DEF CondSignal
<1>7. ASSUME NEW i \in Ids, CondBroadcast(i) PROVE WInv'
  <2>1. \A j \in Ids : SamePids(conds[j], conds'[j])
    BY <1>7, QBroadcast DEF WInv
  <2> QED BY <1>0, <1>7, <2>1, WWorld DEF CondBroadcast
<1>8. ASSUME NEW t \in Threads, NEW i \in Ids, MutexLock(t, i) PROVE WInv'
    BY <1>0, <1>8, WLock
<1>9. ASSUME NEW t \in Threads, NEW i \in Ids, MutexUnlock(t, i) PROVE WInv'
    BY <1>0, <1>9, WUnlock
<1>10. ASSUME NEW t \in Threads, NEW i \in Ids, i < next_id, BarrierWait(t, i) PROVE WInv'
    BY <1>0, <1>10, WBarrier
<1>11. ASSUME NEW t \in Threads, NEW c \in Ids, NEW m \in Ids, CondWaitBegin(t, c, m)
       PROVE  WInv'
    BY <1>0, <1>11, WBegin
<1>12. ASSUME NEW t \in Threads, CondWaitCheck(t) PROVE WInv'
    BY <1>0, <1>12, WCheck
<1>13. ASSUME NEW t \in Threads, CondWaitAbort(t) PROVE WInv'
    BY <1>0, <1>13, WAbort
<1>14. ASSUME NEW t \in Threads, ThreadCancel(t) PROVE WInv'
    BY <1>14 DEF ThreadCancel, OneThreadEach
<1>15. ASSUME NEW p \in Procs, Exit(p) \/ Cleanup(p) PROVE WInv'
    BY <1>0, <1>15, WEnd
<1> QED BY <1>1, <1>2, <1>3, <1>4, <1>5, <1>6, <1>7, <1>8, <1>9, <1>10, <1>11,
           <1>12, <1>13, <1>14, <1>15 DEF Next

(* With one thread per process, a live process has an entry in a queue of    *)
(* PSharedTable exactly while it is inside the wait that made it, and the    *)
(* tables are well-formed: no wait is forgotten, none is left behind.        *)
THEOREM WaitersAreKnown ==
    ASSUME OneThreadEach PROVE Spec => []QueuesSound
<1>1. Init => WInv
    BY WInvInit
<1>2. WInv /\ [Next]_vars => WInv'
    BY WNext
<1>3. WInv => QueuesSound
    BY WInvGives
<1> QED BY <1>1, <1>2, <1>3, PTL DEF Spec

=============================================================================
