------------------------------- MODULE Pipes -------------------------------
(***************************************************************************)
(* Blocking reads, writes and polls of pipes and stream sockets: the ring   *)
(* buffers of crates/kernel/src/pipe.rs, the wake-up events they push       *)
(* (wakeup.rs) and the host that parks blocked calls and runs them again    *)
(* (host/src/kernel-worker.ts).                                             *)
(*                                                                          *)
(* The kernel never blocks: a call that cannot proceed returns EAGAIN and   *)
(* the host parks its channel.  A parked read or write has no timer of its  *)
(* own: only a wake-up runs it again.  The host is one JavaScript thread    *)
(* and its handlers call each other: a completed call drains the events,    *)
(* which run parked calls, which complete and drain again, and only then    *)
(* publishes its answer.  `todo' is that call stack: its head is what the   *)
(* host does next, and a new call, a timer or the deferred broad wake is    *)
(* taken only when it is empty.                                             *)
(*                                                                          *)
(* A descriptor is a process and an end of a pipe.  One direction of a      *)
(* stream socket is a pipe whose writes may be partial at any length and    *)
(* whose calls may carry a time-out (SO_RCVTIMEO, SO_SNDTIMEO).             *)
(***************************************************************************)
EXTENDS Integers, Sequences, FiniteSets, SequencesExt

CONSTANTS
    Pipes,          \* indices of the pipe table
    Threads,
    ProcOf,         \* thread -> its process
    First,          \* the process that starts; the others are forked
    Capacity,       \* DEFAULT_PIPE_CAPACITY
    PIPE_BUF,
    MAX_EVENTS,     \* events the host takes from the kernel in one batch
    Kinds,          \* subset of {"pipe", "socket"}: what a new index may be
    Timed,          \* subset of {"read", "write"}: socket calls with a time-out
    ReadSizes, WriteSizes,  \* lengths of reads and writes
    Uses            \* thread -> the blocking calls it makes

Procs == {ProcOf[t] : t \in Threads}

ASSUME PipesConstants ==
    /\ IsFiniteSet(Pipes)
    /\ {Capacity, PIPE_BUF, MAX_EVENTS} \subseteq Nat \ {0} /\ PIPE_BUF <= Capacity
    /\ Kinds \subseteq {"pipe", "socket"} /\ Timed \subseteq {"read", "write"}
    /\ ReadSizes \subseteq Nat \ {0} /\ WriteSizes \subseteq Nat \ {0}
    /\ Uses \in [Threads -> SUBSET {"read", "write", "poll"}]

VARIABLES
    pipe,           \* index -> PipeBuffer, its ends as sets of processes
    sent, got,      \* index -> number of the next byte to be written, to be read
    wakes,          \* WAKEUP_BUFFER: sequence of [p, w]
    chan,           \* thread -> its channel: state and call
    readers,        \* pendingPipeReaders: index -> threads in order
    writers,        \* pendingPipeWriters
    polls,          \* pendingPollRetries, in insertion order
    timers,         \* socketTimeoutTimers
    wakeScheduled,  \* a broad wake is scheduled
    todo            \* the host's call stack

kernel == <<pipe, sent, got, wakes>>
host == <<readers, writers, polls, timers, wakeScheduled>>
vars == <<kernel, chan, host, todo>>

(* Bytes are numbered, modulo more than a buffer holds.  A cell whose byte   *)
(* has been read is Junk: its old value is never to be seen again.          *)
Numbers == 0 .. Capacity
Junk == -1
Next1(n, k) == (n + k) % (Capacity + 1)

NoCall == [op |-> "none"]
CallSet ==
    [op : {"read"}, p : Pipes, n : ReadSizes]
        \cup [op : {"write"}, p : Pipes, n : WriteSizes]
        \cup [op : {"poll"}, p : Pipes, side : {"in", "out"}]

(***************************************************************************)
(* The ring buffer                                                          *)
(***************************************************************************)
Freed == [kind |-> "free", buf |-> [i \in 0 .. Capacity - 1 |-> Junk],
          head |-> 0, tail |-> 0, len |-> 0, rd |-> {}, wr |-> {}]

free_space(b) == Capacity - b.len

(* As if the part behind the end of the buffer was lost. *)
StoredFlat(b, n, first) ==
    [i \in 0 .. Capacity - 1 |->
        IF i \in b.tail .. b.tail + n - 1 THEN Next1(first, i - b.tail) ELSE b.buf[i]]

(* The cells `write' fills: from the tail, around the end of the buffer *)
Stored(b, n, first) ==
    [i \in 0 .. Capacity - 1 |->
        LET k == (i - b.tail + Capacity) % Capacity
        IN  IF k < n THEN Next1(first, k) ELSE b.buf[i]]

Written(b, n, first) ==
    [b EXCEPT !.buf = Stored(b, n, first),
              !.tail = (@ + n) % Capacity, !.len = @ + n]

Consumed(b, n) ==
    [b EXCEPT !.buf = [i \in 0 .. Capacity - 1 |->
                          IF (i - b.head + Capacity) % Capacity < n THEN Junk ELSE @[i]],
              !.head = (@ + n) % Capacity, !.len = @ - n]

Contents(b) == [k \in 1 .. b.len |-> b.buf[(b.head + k - 1) % Capacity]]

(* The last reader takes the unread bytes with it. *)
WithoutReader(b, q) ==
    LET c == [b EXCEPT !.rd = @ \ {q}]
    IN  IF c.rd = {} THEN [c EXCEPT !.buf = Freed.buf, !.head = 0, !.tail = 0, !.len = 0] ELSE c

WithoutWriter(b, q) == [b EXCEPT !.wr = @ \ {q}]

FreeIfClosed(b) == IF b.rd = {} /\ b.wr = {} THEN Freed ELSE b

-----------------------------------------------------------------------------
(* What a call returns: EAGAIN when it Blocks *)

WriteLen(b, n) ==
    IF b.kind = "pipe" /\ n <= PIPE_BUF /\ free_space(b) < n
    THEN 0 ELSE IF n <= free_space(b) THEN n ELSE free_space(b)

(* As if a pipe without writers was not at its end. *)
ReadableData(b) == b.len > 0

Readable(b) == b.len > 0 \/ b.wr = {}
Writable(b) == free_space(b) > 0 \/ b.rd = {}

(* The calling process still has the descriptor. *)
FdOpen(t, c) ==
    ProcOf[t] \in IF c.op = "read" \/ (c.op = "poll" /\ c.side = "in")
                  THEN pipe[c.p].rd ELSE pipe[c.p].wr

Blocks(t, c) ==
    LET b == pipe[c.p]
    IN  /\ FdOpen(t, c)
        /\ \/ c.op = "read" /\ ~Readable(b)
           \/ c.op = "write" /\ b.rd # {} /\ WriteLen(b, c.n) = 0
           \/ c.op = "poll" /\ c.side = "in" /\ ~Readable(b)
           \/ c.op = "poll" /\ c.side = "out" /\ ~Writable(b)

Wake(p, w) == [p |-> p, w |-> w]

(* Bytes moved by a call that does not block *)
Moved(t, c) ==
    IF ~FdOpen(t, c) THEN 0
    ELSE IF c.op = "read" THEN IF c.n <= pipe[c.p].len THEN c.n ELSE pipe[c.p].len
    ELSE IF c.op = "write" /\ pipe[c.p].rd # {} THEN WriteLen(pipe[c.p], c.n)
    ELSE 0

KernelCall(t, c) ==
    LET n == Moved(t, c)
    IN  IF n = 0 THEN UNCHANGED kernel
        ELSE IF c.op = "read"
        THEN /\ pipe' = [pipe EXCEPT ![c.p] = Consumed(@, n)]
             /\ got' = [got EXCEPT ![c.p] = Next1(@, n)]
             /\ wakes' = Append(wakes, Wake(c.p, "writable"))
             /\ UNCHANGED sent
        ELSE /\ pipe' = [pipe EXCEPT ![c.p] = Written(@, n, sent[c.p])]
             /\ sent' = [sent EXCEPT ![c.p] = Next1(@, n)]
             /\ wakes' = Append(wakes, Wake(c.p, "readable"))
             /\ UNCHANGED got

(***************************************************************************)
(* The host's handlers                                                      *)
(***************************************************************************)
Run(t) == [k |-> "run", t |-> t]
Publish(t) == [k |-> "publish", t |-> t]
Cancel(t) == [k |-> "cancel", t |-> t]
Drain(events) == [k |-> "drain", events |-> events]
Process(e) == [k |-> "process", e |-> e]
Frame(k) == [k |-> k]

Runs(ts) == [i \in DOMAIN ts |-> Run(ts[i])]

(* completeChannel: drain what the call woke, then publish the answer. *)
Completion(t) == <<Drain(<<>>), Publish(t)>>

Add(ts, t) == IF t \in Range(ts) THEN ts ELSE Append(ts, t)

(* The list without t, one entry after the other *)
KeepOne(kept, u, t) == IF u = t THEN kept ELSE Append(kept, u)
Drop(ts, t) ==
    LET kept[n \in 0 .. Len(ts)] ==
            IF n = 0 THEN <<>> ELSE KeepOne(kept[n - 1], ts[n], t)
    IN  kept[Len(ts)]

DropAll(lists, t) == [p \in Pipes |-> Drop(lists[p], t)]

Parked == polls # <<>> \/ \E p \in Pipes : readers[p] # <<>> \/ writers[p] # <<>>

(* handleBlockingRetry, for a call that returned EAGAIN *)
Park(t, c) ==
    /\ \/ c.op = "poll" /\ polls' = Add(polls, t) /\ UNCHANGED <<readers, writers>>
       \/ /\ c.op = "read" /\ readers' = [readers EXCEPT ![c.p] = Add(@, t)]
          /\ UNCHANGED <<polls, writers>>
       \/ /\ c.op = "write" /\ writers' = [writers EXCEPT ![c.p] = Add(@, t)]
          /\ UNCHANGED <<polls, readers>>
    /\ timers' = IF pipe[c.p].kind = "socket" /\ c.op \in Timed
                 THEN timers \cup {t} ELSE timers

(* handleSyscall on whatever call the channel holds *)
HandleSyscall(t, rest) ==
    LET c == chan[t].call
    IN  \/ /\ Blocks(t, c)
           /\ Park(t, c)
           /\ todo' = rest
           /\ UNCHANGED <<kernel, chan, wakeScheduled>>
        \/ /\ ~Blocks(t, c)
           /\ KernelCall(t, c)
           /\ timers' = timers \ {t} /\ polls' = Drop(polls, t)
           /\ todo' = Completion(t) \o rest
           /\ UNCHANGED <<chan, readers, writers, wakeScheduled>>

(* scheduleWakeBlockedRetries *)
ScheduleBroad(rest) ==
    /\ wakeScheduled' = (wakeScheduled \/ Parked)
    /\ todo' = rest
    /\ UNCHANGED <<kernel, chan, readers, writers, polls, timers>>

(* As if the batch was not repeated until the buffer is empty. *)
TakeBatchOnce(rest) ==
    LET events == SubSeq(wakes, 1, IF Len(wakes) < MAX_EVENTS THEN Len(wakes) ELSE MAX_EVENTS)
    IN  /\ wakes' = SubSeq(wakes, Len(events) + 1, Len(wakes))
        /\ todo' = IF events = <<>> THEN rest
                   ELSE [i \in DOMAIN events |-> Process(events[i])]
                            \o <<Frame("schedule")>> \o rest
        /\ UNCHANGED <<pipe, sent, got, chan, host>>

(* One round of the loop that empties the kernel's event buffer *)
TakeBatch(rest) ==
    LET taken == SubSeq(wakes, 1, IF Len(wakes) < MAX_EVENTS THEN Len(wakes) ELSE MAX_EVENTS)
        events == Head(todo).events \o taken
    IN  /\ wakes' = SubSeq(wakes, Len(taken) + 1, Len(wakes))
        /\ todo' = IF Len(taken) = MAX_EVENTS THEN <<Drain(events)>> \o rest
                   ELSE IF events = <<>> THEN rest
                   ELSE [i \in DOMAIN events |-> Process(events[i])]
                            \o <<Frame("schedule")>> \o rest
        /\ UNCHANGED <<pipe, sent, got, chan, host>>

(* Run the calls parked for one event. *)
ProcessEvent(e, rest) ==
    /\ IF e.w = "readable"
       THEN /\ todo' = Runs(readers[e.p]) \o rest
            /\ readers' = [readers EXCEPT ![e.p] = <<>>] /\ UNCHANGED writers
       ELSE /\ todo' = Runs(writers[e.p]) \o rest
            /\ writers' = [writers EXCEPT ![e.p] = <<>>] /\ UNCHANGED readers
    /\ UNCHANGED <<kernel, chan, polls, timers, wakeScheduled>>

InOrder(lists) == FlattenSeq([i \in 1 .. Cardinality(Pipes) |-> lists[SetToSeq(Pipes)[i]]])

(* wakeAllBlockedRetries, after the polls: all readers, then all writers *)
WakeAll(k, rest) ==
    /\ IF k = "readers"
       THEN /\ todo' = Runs(InOrder(readers)) \o rest
            /\ readers' = [p \in Pipes |-> <<>>] /\ UNCHANGED writers
       ELSE /\ todo' = Runs(InOrder(writers)) \o rest
            /\ writers' = [p \in Pipes |-> <<>>] /\ UNCHANGED readers
    /\ UNCHANGED <<kernel, chan, polls, timers, wakeScheduled>>

(* The channel is the guest's again; that the words of the old call are      *)
(* still in it is left out, as nothing may run them (RunOnlyUnanswered).    *)
PublishAnswer(t, rest) ==
    /\ chan' = [chan EXCEPT ![t] = [st |-> "guest", call |-> NoCall]]
    /\ todo' = rest
    /\ UNCHANGED <<kernel, host>>

(* A cancelled call is answered with EINTR where it is parked. *)
CancelParked(u, rest) ==
    LET found == \/ u \in Range(polls)
                 \/ \E p \in Pipes : u \in Range(readers[p]) \cup Range(writers[p])
    IN  /\ polls' = Drop(polls, u)
        /\ readers' = DropAll(readers, u) /\ writers' = DropAll(writers, u)
        /\ timers' = IF found THEN timers \ {u} ELSE timers
        /\ todo' = IF found THEN Completion(u) \o rest ELSE rest
        /\ UNCHANGED <<kernel, chan, wakeScheduled>>

HostStep ==
    /\ todo # <<>>
    /\ LET f == Head(todo)
       IN  \/ f.k = "run" /\ HandleSyscall(f.t, Tail(todo))
           \/ f.k = "drain" /\ TakeBatch(Tail(todo))
           \/ f.k = "process" /\ ProcessEvent(f.e, Tail(todo))
           \/ f.k = "schedule" /\ ScheduleBroad(Tail(todo))
           \/ f.k \in {"readers", "writers"} /\ WakeAll(f.k, Tail(todo))
           \/ f.k = "publish" /\ PublishAnswer(f.t, Tail(todo))
           \/ f.k = "cancel" /\ CancelParked(f.t, Tail(todo))

(* The setImmediate callback of a scheduled broad wake *)
BroadWake ==
    /\ todo = <<>> /\ wakeScheduled
    /\ wakeScheduled' = FALSE
    /\ todo' = Runs(polls) \o <<Frame("readers"), Frame("writers")>>
    /\ polls' = <<>>
    /\ UNCHANGED <<kernel, chan, readers, writers, timers>>

(* The retry timer of a parked poll *)
PollTimer(t) ==
    /\ todo = <<>> /\ t \in Range(polls)
    /\ polls' = Drop(polls, t)
    /\ todo' = <<Run(t)>>
    /\ UNCHANGED <<kernel, chan, readers, writers, timers, wakeScheduled>>

(* The deadline of a parked poll: one last look, which answers either way *)
PollDeadline(t) ==
    /\ todo = <<>> /\ t \in Range(polls)
    /\ polls' = Drop(polls, t)
    /\ todo' = Completion(t)
    /\ UNCHANGED <<kernel, chan, readers, writers, timers, wakeScheduled>>

(* As if a reader that timed out stayed registered. *)
SocketTimeoutForgets(t) ==
    /\ todo = <<>> /\ t \in timers
    /\ timers' = timers \ {t}
    /\ todo' = Completion(t)
    /\ UNCHANGED <<kernel, chan, readers, writers, polls, wakeScheduled>>

(* The time-out of a socket call: ETIMEDOUT *)
SocketTimeout(t) ==
    /\ todo = <<>> /\ t \in timers
    /\ timers' = timers \ {t}
    /\ readers' = DropAll(readers, t)
    /\ todo' = Completion(t)
    /\ UNCHANGED <<kernel, chan, writers, polls, wakeScheduled>>

(***************************************************************************)
(* Programs                                                                 *)
(***************************************************************************)
(* The guest writes a call into its channel; the host has not seen it yet.  *)
(* It may do so while the host is busy; as nothing on the host's stack      *)
(* concerns a channel the guest owns (RunOnlyUnanswered), it is enough to   *)
(* let it happen when the stack is empty.                                   *)
Submit(t, c) ==
    /\ todo = <<>> /\ chan[t].st = "guest" /\ c.op \in Uses[t] /\ FdOpen(t, c)
    /\ chan' = [chan EXCEPT ![t] = [st |-> "submitted", call |-> c]]
    /\ UNCHANGED <<kernel, host, todo>>

(* The listener of the channel takes it up. *)
Listen(t) ==
    /\ todo = <<>> /\ chan[t].st = "submitted"
    /\ chan' = [chan EXCEPT ![t].st = "host"]
    /\ todo' = <<Run(t)>>
    /\ UNCHANGED <<kernel, host>>

(* A call that never blocks is taken up at once; its answer waits for the   *)
(* events it pushed.                                                        *)
Immediate(t, events) ==
    /\ todo = <<>> /\ chan[t].st = "guest"
    /\ chan' = [chan EXCEPT ![t] = [st |-> "host", call |-> NoCall]]
    /\ wakes' = wakes \o events
    /\ todo' = Completion(t)

sys_pipe(t, p, kind) ==
    /\ pipe[p] = Freed
    /\ Immediate(t, <<>>)
    /\ pipe' = [pipe EXCEPT ![p] = [Freed EXCEPT !.kind = kind, !.rd = {ProcOf[t]},
                                                 !.wr = {ProcOf[t]}]]
    /\ sent' = [sent EXCEPT ![p] = 0] /\ got' = [got EXCEPT ![p] = 0]
    /\ UNCHANGED host

CloseRead(t, p) ==
    /\ ProcOf[t] \in pipe[p].rd
    /\ Immediate(t, <<Wake(p, "writable")>>)
    /\ pipe' = [pipe EXCEPT ![p] = FreeIfClosed(WithoutReader(@, ProcOf[t]))]
    /\ got' = [got EXCEPT ![p] = IF pipe[p].rd = {ProcOf[t]} THEN sent[p] ELSE @]
    /\ UNCHANGED <<sent, host>>

CloseWrite(t, p) ==
    /\ ProcOf[t] \in pipe[p].wr
    /\ Immediate(t, <<Wake(p, "readable")>>)
    /\ pipe' = [pipe EXCEPT ![p] = FreeIfClosed(WithoutWriter(@, ProcOf[t]))]
    /\ UNCHANGED <<sent, got, host>>

(* The events of dropping or duplicating all ends that process q has *)
EventsOf(q) ==
    FlattenSeq([i \in 1 .. Cardinality(Pipes) |->
        LET p == SetToSeq(Pipes)[i]
        IN  (IF q \in pipe[p].rd THEN <<Wake(p, "writable")>> ELSE <<>>)
                \o (IF q \in pipe[p].wr THEN <<Wake(p, "readable")>> ELSE <<>>)])

CloseAll(q) ==
    /\ pipe' = [p \in Pipes |->
                   FreeIfClosed(WithoutWriter(WithoutReader(pipe[p], q), q))]
    /\ got' = [p \in Pipes |-> IF pipe[p].rd = {q} THEN sent[p] ELSE got[p]]
    /\ UNCHANGED sent

(* fork: the child's ends exist at once, its thread when its worker runs.   *)
(* The events stay in the buffer until some call completes.                 *)
Fork(t, u) ==
    LET q == ProcOf[u] IN
    /\ todo = <<>> /\ chan[t].st = "guest"
    /\ ProcOf[t] # q /\ \A v \in Threads : ProcOf[v] = q => chan[v].st = "none"
    /\ chan' = [chan EXCEPT ![t] = [st |-> "forking", call |-> NoCall],
                            ![u] = [st |-> "launching", call |-> NoCall]]
    /\ pipe' = [p \in Pipes |->
            [pipe[p] EXCEPT !.rd = IF ProcOf[t] \in @ THEN @ \cup {q} ELSE @,
                            !.wr = IF ProcOf[t] \in @ THEN @ \cup {q} ELSE @]]
    /\ wakes' = wakes \o EventsOf(ProcOf[t])
    /\ UNCHANGED <<sent, got, host, todo>>

(* The worker of the child runs and fork returns in the parent ... *)
Launched(t, u) ==
    /\ todo = <<>> /\ chan[t].st = "forking" /\ chan[u].st = "launching"
    /\ chan' = [chan EXCEPT ![t].st = "host", ![u].st = "guest"]
    /\ todo' = Completion(t)
    /\ UNCHANGED <<kernel, host>>

(* ... or it cannot be started and the child is taken back. *)
rollbackFork(t, u) ==
    /\ todo = <<>> /\ chan[t].st = "forking" /\ chan[u].st = "launching"
    /\ chan' = [chan EXCEPT ![t].st = "host", ![u].st = "none"]
    /\ CloseAll(ProcOf[u])
    /\ wakes' = wakes \o EventsOf(ProcOf[u])
    /\ todo' = <<Drain(<<>>)>> \o Completion(t)
    /\ UNCHANGED host

(* exit of a process whose only thread is t *)
Exit(t) ==
    /\ todo = <<>> /\ chan[t].st = "guest"
    /\ \A u \in Threads \ {t} : ProcOf[u] # ProcOf[t]
    /\ \E u \in Threads \ {t} : chan[u].st # "none"
    /\ chan' = [chan EXCEPT ![t] = [st |-> "none", call |-> NoCall]]
    /\ CloseAll(ProcOf[t])
    /\ wakes' = wakes \o EventsOf(ProcOf[t])
    /\ todo' = <<Drain(<<>>), Frame("schedule")>>
    /\ UNCHANGED host

(* t cancels its sibling u, which is in a call (if not, nothing happens);    *)
(* pthread_cancel returns before u is looked for.                           *)
handleThreadCancel(t, u) ==
    /\ todo = <<>> /\ t # u /\ ProcOf[t] = ProcOf[u]
    /\ chan[t].st = "guest" /\ chan[u].st \in {"submitted", "host"}
    /\ chan' = [chan EXCEPT ![t] = [st |-> "host", call |-> NoCall]]
    /\ todo' = Append(Completion(t), Cancel(u))
    /\ UNCHANGED <<kernel, host>>

Init ==
    /\ pipe = [p \in Pipes |-> Freed]
    /\ sent = [p \in Pipes |-> 0] /\ got = [p \in Pipes |-> 0]
    /\ wakes = <<>>
    /\ chan = [t \in Threads |->
            [st |-> IF ProcOf[t] = First THEN "guest" ELSE "none", call |-> NoCall]]
    /\ readers = [p \in Pipes |-> <<>>] /\ writers = [p \in Pipes |-> <<>>]
    /\ polls = <<>> /\ timers = {} /\ wakeScheduled = FALSE
    /\ todo = <<>>

Next ==
    \/ HostStep \/ BroadWake
    \/ \E t \in Threads :
        \/ PollTimer(t) \/ PollDeadline(t) \/ SocketTimeout(t) \/ Listen(t) \/ Exit(t)
        \/ \E c \in CallSet : Submit(t, c)
        \/ \E p \in Pipes : CloseRead(t, p) \/ CloseWrite(t, p)
                            \/ \E kind \in Kinds : sys_pipe(t, p, kind)
        \/ \E u \in Threads : \/ Fork(t, u) \/ Launched(t, u) \/ rollbackFork(t, u)
                              \/ handleThreadCancel(t, u)

(* The host is an event loop: what is on its stack runs, and a callback      *)
(* that a channel or setImmediate has queued gets its turn, however many    *)
(* timers fire in between.                                                  *)
Fairness ==
    /\ WF_vars(HostStep) /\ SF_vars(BroadWake)
    /\ \A t \in Threads : SF_vars(Listen(t))

Spec == Init /\ [][Next]_vars /\ Fairness

(***************************************************************************)
(* Properties                                                               *)
(***************************************************************************)
(* Types; head, tail and length stay inside the ring although a long write   *)
(* is cut to the free space.                                                 *)
TypeOK ==
    /\ \A p \in Pipes :
        /\ pipe[p].kind \in {"free"} \cup Kinds
        /\ pipe[p].buf \in [0 .. Capacity - 1 -> Numbers \cup {Junk}]
        /\ pipe[p].head \in 0 .. Capacity - 1 /\ pipe[p].tail \in 0 .. Capacity - 1
        /\ pipe[p].len \in 0 .. Capacity
        /\ pipe[p].rd \subseteq Procs /\ pipe[p].wr \subseteq Procs
    /\ sent \in [Pipes -> Numbers] /\ got \in [Pipes -> Numbers]
    /\ wakes \in Seq([p : Pipes, w : {"readable", "writable"}])
    /\ \A t \in Threads :
        /\ chan[t].st \in {"none", "guest", "submitted", "host", "forking", "launching"}
        /\ chan[t].call \in CallSet \cup {NoCall}
    /\ timers \subseteq Threads /\ wakeScheduled \in BOOLEAN

(* The ring holds exactly the bytes written and not yet read, in order,     *)
(* wherever it wraps around.                                                *)
RingIsQueue ==
    \A p \in Pipes :
        /\ Contents(pipe[p]) = [k \in 1 .. pipe[p].len |-> Next1(got[p], k - 1)]
        /\ Next1(got[p], pipe[p].len) = sent[p]

(* The state is well-formed, the ring never overfull, and it is a queue. *)
RingSound == TypeOK /\ RingIsQueue

(* When the host is at rest, a call parked on a descriptor that is still    *)
(* open is really blocked: whatever could have let it proceed has run it    *)
(* again.  Reads and writes have no timer, so this is all that ends them.   *)
ParkedMeansBlocked ==
    todo = <<>> =>
        \A p \in Pipes : \A t \in Range(readers[p]) \cup Range(writers[p]) :
            chan[t].st = "host" /\ FdOpen(t, chan[t].call) => Blocks(t, chan[t].call)

(* Every parked call that would now return, polls and calls on a closed     *)
(* descriptor included, is about to be run by a scheduled broad wake: the   *)
(* 10 ms timers are a fallback only.                                        *)
BroadWakeComes ==
    todo = <<>> /\ ~wakeScheduled =>
        \A t \in Range(polls) \cup UNION {Range(readers[p]) \cup Range(writers[p]) : p \in Pipes} :
            chan[t].st = "host" => Blocks(t, chan[t].call)

(* No wake-up is missed: what can proceed has been run or is about to be. *)
NoMissedWake == ParkedMeansBlocked /\ BroadWakeComes

(* The host runs or answers a call only while the guest waits for it: no    *)
(* call is executed twice and no answer is written over a newer call.       *)
RunOnlyUnanswered ==
    \A i \in DOMAIN todo :
        todo[i].k \in {"run", "publish"} => chan[todo[i].t].st = "host"

(* A read whose pipe has no writer left, or a write with no reader left *)
Orphaned(t) ==
    /\ chan[t].st \in {"submitted", "host"} /\ chan[t].call.op \in {"read", "write"}
    /\ FdOpen(t, chan[t].call)
    /\ \/ chan[t].call.op = "read" /\ pipe[chan[t].call.p].wr = {}
       \/ chan[t].call.op = "write" /\ pipe[chan[t].call.p].rd = {}

(* Such a call does not wait for ever, unless a sibling closes its          *)
(* descriptor: the last close of the other end wakes it (close_read_end,    *)
(* close_write_end and the host's drain).                                   *)
OrphansReturn == \A t \in Threads : Orphaned(t) ~> ~Orphaned(t)
=============================================================================
