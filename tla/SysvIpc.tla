------------------------------ MODULE SysvIpc ------------------------------
(***************************************************************************)
(* System V semaphore sets and message queues: the IpcTable of              *)
(* crates/kernel/src/ipc.rs and the processes that call it.  A semop or     *)
(* msgsnd that cannot proceed returns EAGAIN, with or without IPC_NOWAIT,   *)
(* and the host runs the same handler again every 10 ms until it returns    *)
(* something else; a msgrcv with IPC_NOWAIT returns ENOMSG.                 *)
(*                                                                          *)
(* Calls that change nothing (GETVAL, IPC_STAT, IPC_SET, finding an object  *)
(* by its key, every error but EAGAIN) are stuttering steps.  Attached      *)
(* segments have their own module, SharedMemory.                            *)
(***************************************************************************)
EXTENDS Integers, Sequences, FiniteSets, SequencesExt

CONSTANTS
    Procs,
    Uid, Gid,       \* process -> effective ids; 0 is the superuser
    Keys,           \* keys programs use
    IPC_PRIVATE,    \* the key that finds nothing
    Modes,          \* modes objects are created with: class -> permissions
    NSems,          \* sizes of the sets created
    SopArrays,      \* arrays given to semop: sequences of [num, op]
    SetVals,        \* values given to SETVAL and SETALL
    MTypes, Sizes,  \* types and lengths of the messages sent
    Receives,       \* [type, except, noerror, max]: what receivers ask for
    MSGMNB,         \* qbytes of every queue
    MaxIds,         \* bound: objects ever created
    MaxSends,       \* bound: messages ever sent
    MaxSupply,      \* bound: tokens of one semaphore
    MaxParked       \* bound: calls parked at once

ASSUME SysvIpcConstants ==
    /\ Uid \in [Procs -> Nat] /\ Gid \in [Procs -> Nat]
    /\ MTypes \subseteq Nat \ {0} /\ Sizes \subseteq Nat
    /\ {MSGMNB, MaxIds, MaxSends, MaxSupply, MaxParked} \subseteq Nat

U16Max == 65535         \* u16::MAX
U16 == 0 .. U16Max      \* values of a semaphore

ASSUME SemaphoreSizes ==
    /\ NSems \subseteq 1 .. 32 /\ NSems # {}     \* SEMMSL
    /\ SetVals \subseteq U16

ASSUME SysvIpcArguments ==
    /\ Modes \subseteq [{"user", "group", "other"} -> SUBSET {"R", "W"}]
    /\ SopArrays \subseteq Seq([num : Nat, op : Int])
    /\ Receives \subseteq [type : Int, except : BOOLEAN, noerror : BOOLEAN, max : Nat]

VARIABLES
    msg_queues, sem_sets,   \* id -> object, as the BTreeMaps
    next_id,
    pc,             \* process -> the call it is parked in, or Idle
    live,           \* processes that have not exited
    born,           \* history: objects created
    held,           \* history: id, semaphore -> tokens taken and not given back
    supply,         \* history: id, semaphore -> tokens that exist
    sent,           \* history: messages accepted
    outbox          \* history: id -> serials accepted and not delivered

history == <<held, supply, sent, outbox>>
vars == <<msg_queues, sem_sets, next_id, pc, live, born, history>>

Ids == 0 .. MaxIds - 1
Sems == 0 .. (CHOOSE m \in NSems : \A n \in NSems : n <= m) - 1
Idle == [call |-> [fn |-> "none", id |-> -1], born |-> -1]

-----------------------------------------------------------------------------
(* Permissions, ids, and parking *)

NewQueue(p, key, mode) ==
    [key |-> key, uid |-> Uid[p], gid |-> Gid[p], mode |-> mode, born |-> born,
     messages |-> <<>>, cbytes |-> 0]
NewSet(p, key, mode, nsems) ==
    [key |-> key, uid |-> Uid[p], gid |-> Gid[p], mode |-> mode, born |-> born,
     val |-> [n \in 0 .. nsems - 1 |-> 0]]

ClassOf(p, o) ==
    IF Uid[p] = o.uid THEN "user" ELSE IF Gid[p] = o.gid THEN "group" ELSE "other"

ipc_has_perm(p, o, perm) == Uid[p] = 0 \/ perm \subseteq o.mode[ClassOf(p, o)]
ipc_check_owner(p, o) == Uid[p] \in {0, o.uid}      \* uid = cuid always

(* As if the smallest id not in use was given out. *)
reused_id ==
    CHOOSE i \in Ids : /\ i \notin DOMAIN msg_queues \cup DOMAIN sem_sets
                       /\ 0 .. i - 1 \subseteq DOMAIN msg_queues \cup DOMAIN sem_sets

alloc_id == next_id

With(f, k, v) == [x \in DOMAIN f \cup {k} |-> IF x = k THEN v ELSE f[x]]
Minus(f, k) == [x \in DOMAIN f \ {k} |-> f[x]]

(* The caller runs, or its parked call is run again with the same arguments. *)
Enters(p, call) == p \in live /\ (pc[p] = Idle \/ pc[p].call = call)
Calls(p) == p \in live /\ pc[p] = Idle
Return(p) == pc' = [pc EXCEPT ![p] = Idle]
Park(p, call, o) ==
    /\ pc[p] # Idle \/ Cardinality({q \in Procs : pc[q] # Idle}) < MaxParked
    /\ pc' = [pc EXCEPT ![p] =
                IF @ = Idle THEN [call |-> call, born |-> o.born] ELSE @]

(* A key finds the object that has it; IPC_PRIVATE always makes a new one. *)
Creates(table, key) == key = IPC_PRIVATE \/ \A i \in DOMAIN table : table[i].key # key

NewId ==
    /\ born < MaxIds
    /\ next_id' = IF next_id = 2147483647 THEN 0 ELSE next_id + 1
    /\ born' = born + 1

-----------------------------------------------------------------------------
(* Semaphores *)

semget(p, key, nsems, mode) ==
    /\ Calls(p) /\ Creates(sem_sets, key) /\ NewId
    /\ sem_sets' = With(sem_sets, alloc_id, NewSet(p, key, mode, nsems))
    /\ UNCHANGED <<msg_queues, pc, live, history>>

(* The first pass: each operation against the value before the call. *)
Blocks(s, sop) ==
    /\ sop.num \in DOMAIN s.val
    /\ \/ sop.op < 0 /\ s.val[sop.num] + sop.op < 0
       \/ sop.op = 0 /\ s.val[sop.num] # 0
Stops(s, sops) ==
    {i \in DOMAIN sops : Blocks(s, sops[i]) \/ sops[i].num \notin DOMAIN s.val}

SemVerdict(s, sops) ==
    CASE Stops(s, sops) = {} -> "ok"
      [] Stops(s, sops) # {} /\ Blocks(s, sops[Min(Stops(s, sops))]) -> "EAGAIN"
      [] OTHER -> "EFBIG"

(* One operation, in the u16 of the semaphore; and all of them in turn. *)
ApplyOne(val, sop) == [val EXCEPT ![sop.num] = (@ + sop.op) % (U16Max + 1)]
Apply(val, sops) ==
    LET done[k \in 0 .. Len(sops)] ==
          IF k = 0 THEN val ELSE ApplyOne(done[k - 1], sops[k])
    IN  done[Len(sops)]

(* As if each operation was applied as soon as it was seen to be possible. *)
AppliedUntilBlocked(s, sops) ==
    Apply(s.val, IF Stops(s, sops) = {} THEN sops
                 ELSE SubSeq(sops, 1, Min(Stops(s, sops)) - 1))

(* The second pass: nothing is applied unless every operation passed. *)
Applied(s, sops) == IF Stops(s, sops) = {} THEN Apply(s.val, sops) ELSE s.val

(* Tokens the array takes from a semaphore. *)
Takes(sops, n) ==
    LET taken[k \in 0 .. Len(sops)] ==
          IF k = 0 THEN 0
          ELSE IF sops[k].num = n THEN taken[k - 1] - sops[k].op ELSE taken[k - 1]
    IN  taken[Len(sops)]

(* Programs give back only what was taken, not always the one that took it. *)
Disciplined(id, sops) ==
    \A i \in DOMAIN sops : sops[i].op > 0 => held[id][sops[i].num] >= sops[i].op

SemPerms(sops) == {IF sops[i].op = 0 THEN "R" ELSE "W" : i \in DOMAIN sops}

semop(p, id, sops) ==
    LET call == [fn |-> "semop", id |-> id, sops |-> sops]
        s == sem_sets[id]
        verdict == SemVerdict(s, sops)
    IN  /\ Enters(p, call)
        /\ id \in DOMAIN sem_sets /\ Disciplined(id, sops)
        /\ ipc_has_perm(p, s, SemPerms(sops))
        /\ sem_sets' = [sem_sets EXCEPT ![id].val = Applied(s, sops)]
        /\ \/ verdict = "ok" /\ Return(p)
              /\ held' = [held EXCEPT ![id] = [n \in Sems |-> @[n] + Takes(sops, n)]]
           \/ verdict = "EAGAIN" /\ Park(p, call, s) /\ UNCHANGED held
           \/ verdict = "EFBIG" /\ pc[p] # Idle /\ Return(p) /\ UNCHANGED held
        /\ UNCHANGED <<msg_queues, next_id, live, born, supply, sent, outbox>>

(* SETVAL, and SETALL, which reads the size with IPC_STAT first. *)
SetValues(p, id, vals, perm) ==
    /\ Calls(p) /\ id \in DOMAIN sem_sets
    /\ ipc_has_perm(p, sem_sets[id], perm)
    /\ DOMAIN vals \subseteq DOMAIN sem_sets[id].val
    /\ \A n \in DOMAIN vals : vals[n] + held[id][n] <= MaxSupply
    /\ sem_sets' = [sem_sets EXCEPT ![id].val =
          [n \in DOMAIN @ |-> IF n \in DOMAIN vals THEN vals[n] ELSE @[n]]]
    /\ supply' = [supply EXCEPT ![id] =
          [n \in Sems |-> IF n \in DOMAIN vals THEN vals[n] + held[id][n] ELSE @[n]]]
    /\ UNCHANGED <<msg_queues, next_id, pc, live, born, held, sent, outbox>>

semctl_setval(p, id, semnum, v) == SetValues(p, id, [n \in {semnum} |-> v], {"W"})
semctl_set_all(p, id, v) ==
    /\ id \in DOMAIN sem_sets
    /\ SetValues(p, id, [n \in DOMAIN sem_sets[id].val |-> v], {"R", "W"})

semctl_rmid(p, id) ==
    /\ Calls(p) /\ id \in DOMAIN sem_sets /\ ipc_check_owner(p, sem_sets[id])
    /\ sem_sets' = Minus(sem_sets, id)
    /\ supply' = [supply EXCEPT ![id] = [n \in Sems |-> 0]]
    /\ held' = [held EXCEPT ![id] = [n \in Sems |-> 0]]
    /\ UNCHANGED <<msg_queues, next_id, pc, live, born, sent, outbox>>

-----------------------------------------------------------------------------
(* Message queues *)

msgget(p, key, mode) ==
    /\ Calls(p) /\ Creates(msg_queues, key) /\ NewId
    /\ msg_queues' = With(msg_queues, alloc_id, NewQueue(p, key, mode))
    /\ UNCHANGED <<sem_sets, pc, live, history>>

Fits(q, size) == q.cbytes + size <= MSGMNB

msgsnd(p, id, mtype, size) ==
    LET call == [fn |-> "msgsnd", id |-> id, mtype |-> mtype, size |-> size]
        q == msg_queues[id]
        m == [mtype |-> mtype, size |-> size, serial |-> sent]
    IN  /\ Enters(p, call)
        /\ id \in DOMAIN msg_queues /\ ipc_has_perm(p, q, {"W"})
        /\ \/ /\ Fits(q, size) /\ sent < MaxSends
              /\ msg_queues' = [msg_queues EXCEPT ![id].cbytes = @ + size,
                                                  ![id].messages = Append(@, m)]
              /\ sent' = sent + 1 /\ outbox' = [outbox EXCEPT ![id] = @ \cup {sent}]
              /\ Return(p)
           \/ /\ ~ Fits(q, size)
              /\ Park(p, call, q) /\ UNCHANGED <<msg_queues, sent, outbox>>
        /\ UNCHANGED <<sem_sets, next_id, live, born, held, supply>>

Matches(m, type, except) ==
    CASE type = 0 -> TRUE
      [] type > 0 -> (m.mtype = type) # except
      [] type < 0 -> m.mtype <= - type

(* As if only the head of the queue was looked at. *)
MatchingHead(q, r) ==
    {i \in DOMAIN q.messages : i = 1 /\ Matches(q.messages[i], r.type, r.except)}

Matching(q, r) == {i \in DOMAIN q.messages : Matches(q.messages[i], r.type, r.except)}

(* As if the queue was searched from its end. *)
LastMatch(q, r) == Max(Matching(q, r))

FirstMatch(q, r) == Min(Matching(q, r))

(* saturating_sub of what was copied: a truncated message leaves the rest    *)
(* of its bytes counted.                                                     *)
Less(q, m, r) ==
    LET copied == IF m.size <= r.max THEN m.size ELSE r.max
    IN  IF q.cbytes > copied THEN q.cbytes - copied ELSE 0

(* As if the message was taken out before its length was looked at. *)
DropsTooBig(m, r) == TRUE

(* E2BIG leaves the message where it is. *)
Delivers(m, r) == m.size <= r.max \/ r.noerror
Removes(m, r) == Delivers(m, r)

msgrcv(p, id, r) ==
    LET call == [fn |-> "msgrcv", id |-> id, r |-> r]
        q == msg_queues[id]
        i == FirstMatch(q, r)
        m == q.messages[i]
    IN  /\ Enters(p, call)
        /\ id \in DOMAIN msg_queues /\ ipc_has_perm(p, q, {"R"})
        /\ \/ /\ Matching(q, r) # {} /\ Removes(m, r)
              /\ msg_queues' = [msg_queues EXCEPT ![id].messages = RemoveAt(@, i),
                                                  ![id].cbytes = Less(q, m, r)]
              /\ outbox' = IF Delivers(m, r)
                           THEN [outbox EXCEPT ![id] = @ \ {m.serial}] ELSE outbox
              /\ Return(p)
           \/ /\ Matching(q, r) # {} /\ ~ Removes(m, r)
              /\ pc[p] # Idle /\ Return(p) /\ UNCHANGED <<msg_queues, outbox>>
           \/ /\ Matching(q, r) = {}
              /\ Park(p, call, q) /\ UNCHANGED <<msg_queues, outbox>>
        /\ UNCHANGED <<sem_sets, next_id, live, born, held, supply, sent>>

msgctl_rmid(p, id) ==
    /\ Calls(p) /\ id \in DOMAIN msg_queues /\ ipc_check_owner(p, msg_queues[id])
    /\ msg_queues' = Minus(msg_queues, id)
    /\ outbox' = [outbox EXCEPT ![id] = {}]
    /\ UNCHANGED <<sem_sets, next_id, pc, live, born, held, supply, sent>>

-----------------------------------------------------------------------------
(* The end of a parked call other than by its own success *)

(* A retry finds the object gone: EINVAL. *)
RetryRemoved(p) ==
    /\ p \in live /\ pc[p] # Idle
    /\ pc[p].call.id \notin DOMAIN msg_queues \cup DOMAIN sem_sets
    /\ Return(p)
    /\ UNCHANGED <<msg_queues, sem_sets, next_id, live, born, history>>

(* pthread_cancel, or a signal caught while the process was stopped, ends the *)
(* call with EINTR; a signal to a running process waits for its answer.      *)
Interrupt(p) ==
    /\ p \in live /\ pc[p] # Idle /\ Return(p)
    /\ UNCHANGED <<msg_queues, sem_sets, next_id, live, born, history>>

(* Exit: the kernel keeps nothing of a process here, so nothing is undone. *)
Exit(p) ==
    /\ p \in live /\ live' = live \ {p} /\ Return(p)
    /\ UNCHANGED <<msg_queues, sem_sets, next_id, born, history>>

-----------------------------------------------------------------------------
Init ==
    /\ msg_queues = <<>> /\ sem_sets = <<>> /\ next_id = 0 /\ born = 0
    /\ pc = [p \in Procs |-> Idle] /\ live = Procs
    /\ held = [i \in Ids |-> [n \in Sems |-> 0]] /\ supply = held
    /\ sent = 0 /\ outbox = [i \in Ids |-> {}]

Create(p) ==
    \E key \in Keys, mode \in Modes :
        msgget(p, key, mode) \/ \E n \in NSems : semget(p, key, n, mode)

Control(p) ==
    \E id \in Ids :
        \/ semctl_rmid(p, id) \/ msgctl_rmid(p, id)
        \/ \E v \in SetVals :
              semctl_set_all(p, id, v) \/ \E n \in Sems : semctl_setval(p, id, n, v)

Operate(p) ==
    \E id \in Ids :
        \/ \E sops \in SopArrays : semop(p, id, sops)
        \/ \E mtype \in MTypes, size \in Sizes : msgsnd(p, id, mtype, size)
        \/ \E r \in Receives : msgrcv(p, id, r)

(* The host's 10 ms timer. *)
Retry(p) == pc[p] # Idle /\ (Operate(p) \/ RetryRemoved(p))

Next ==
    \E p \in Procs :
        Create(p) \/ Control(p) \/ Operate(p) \/ RetryRemoved(p) \/ Interrupt(p) \/ Exit(p)

Spec == Init /\ [][Next]_vars /\ \A p \in Procs : WF_vars(Retry(p))

-----------------------------------------------------------------------------
(* Types of the table, of the parked calls and of the histories. *)
TypeOK ==
    /\ DOMAIN msg_queues \subseteq Ids /\ DOMAIN sem_sets \subseteq Ids
    /\ \A i \in DOMAIN msg_queues :
          /\ msg_queues[i].cbytes \in 0 .. MSGMNB
          /\ \A m \in Range(msg_queues[i].messages) :
                m \in [mtype : MTypes, size : Sizes, serial : 0 .. MaxSends - 1]
    /\ \A i \in DOMAIN sem_sets : \A n \in DOMAIN sem_sets[i].val :
          n \in Sems /\ sem_sets[i].val[n] \in U16
    /\ next_id \in 0 .. MaxIds /\ born \in 0 .. MaxIds /\ live \subseteq Procs
    /\ \A p \in Procs : pc[p] = Idle \/ (p \in live /\ pc[p].call.id \in Ids)
    /\ sent \in 0 .. MaxSends /\ outbox \in [Ids -> SUBSET (0 .. MaxSends - 1)]

(* semop is all or nothing, however often the host retries it: the value of  *)
(* a semaphore and the tokens processes were granted always add up to what   *)
(* SETVAL put there, so no parked array has kept part of what it asked for.  *)
TokensConserved ==
    \A i \in DOMAIN sem_sets : \A n \in DOMAIN sem_sets[i].val :
        sem_sets[i].val[n] + held[i][n] = supply[i][n]

(* The bytes of the messages. *)
Bytes(ms) ==
    LET upto[k \in 0 .. Len(ms)] == IF k = 0 THEN 0 ELSE upto[k - 1] + ms[k].size
    IN  upto[Len(ms)]

(* A queue's byte count never falls below what its messages hold, so that    *)
(* msgsnd cannot overfill it, whatever receivers truncated before.           *)
QueueWithinLimit ==
    \A i \in DOMAIN msg_queues :
        LET q == msg_queues[i]
        IN  Bytes(q.messages) <= q.cbytes

(* Every message accepted is in its queue until a receiver gets it: E2BIG,   *)
(* retries and interrupted receivers lose none and duplicate none.           *)
NothingLost ==
    \A i \in DOMAIN msg_queues :
        LET ms == msg_queues[i].messages
        IN  /\ {m.serial : m \in Range(ms)} = outbox[i]
            /\ Len(ms) = Cardinality(outbox[i])

(* A message queue holds what was sent and not received, and knows how much  *)
(* that is.                                                                  *)
QueuesSound == TypeOK /\ QueueWithinLimit /\ NothingLost

(* No step takes a message while an older one of its type stays. *)
OldestFirst ==
    \A i \in DOMAIN msg_queues :
       i \in DOMAIN msg_queues' =>
         \A m, k \in Range(msg_queues[i].messages) :
            (m.mtype = k.mtype /\ k.serial < m.serial
               /\ k \in Range(msg_queues'[i].messages))
              => m \in Range(msg_queues'[i].messages)

(* Messages of one type are received in the order they were sent.            *)
FirstOfItsType == [][OldestFirst]_vars

(* A parked call is retried with an id: it never acts on an object that is   *)
(* not the one it was made for, because ids of removed objects do not come   *)
(* back.                                                                     *)
SameObject ==
    \A p \in Procs : pc[p] # Idle =>
        LET i == pc[p].call.id
        IN  /\ i \in DOMAIN msg_queues => msg_queues[i].born = pc[p].born
            /\ i \in DOMAIN sem_sets => sem_sets[i].born = pc[p].born

(* What a parked call waits for is there, or the object is gone. *)
Answerable(p) ==
    /\ pc[p] # Idle
    /\ LET c == pc[p].call
       IN  \/ c.id \notin DOMAIN msg_queues \cup DOMAIN sem_sets
           \/ /\ c.fn = "semop"
              /\ \A n \in Sems : Takes(c.sops, n) <= sem_sets[c.id].val[n]
           \/ c.fn = "msgsnd" /\ Fits(msg_queues[c.id], c.size) /\ sent < MaxSends
           \/ /\ c.fn = "msgrcv"
              /\ \E m \in Range(msg_queues[c.id].messages) :
                    Matches(m, c.r.type, c.r.except)

(* A parked call that can be answered, and stays so, returns. *)
AnsweredCallsReturn ==
    \A p \in Procs : Answerable(p) ~> ~ Answerable(p)
=============================================================================
