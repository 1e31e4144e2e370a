----------------------------- MODULE NamedFifo -----------------------------
(***************************************************************************)
(* One named pipe: the PipeBuffer behind it (pipe.rs), the blocking         *)
(* rendezvous of open() (try_open_fifo, resume_fifo_open in syscalls.rs),   *)
(* its end-of-file and hang-up state, and its life in the namespace         *)
(* (fifo.rs).  The kernel runs one system call at a time; the hard part is  *)
(* that an open() which has to wait keeps a reserved endpoint between two   *)
(* calls, while others open, close, fork, unlink and cancel.                *)
(***************************************************************************)
EXTENDS Integers, FiniteSets, Functions

CONSTANTS
    Threads,        \* threads that open the FIFO (owner = pid and tid)
    Capacity,       \* bytes the buffer holds
    MaxNames        \* bound: hard links of the FIFO

ASSUME NamedFifoConstants ==
    /\ IsFiniteSet(Threads)
    /\ Capacity \in Nat \ {0} /\ MaxNames \in Nat \ {0}

VARIABLES
    pipe,           \* the PipeBuffer
    desc,           \* thread -> what its descriptor of the FIFO refers to
    sawWriter,      \* history: readers, open or opening, that met an open writer
    metEnd,         \* history: the reader cohort met a write end, open or reserved
    writerOpened    \* history: an open() for writing has succeeded

vars == <<pipe, desc, sawWriter, metEnd, writerOpened>>

Sides == {"Reader", "Writer"}
Modes == {"Read", "Write", "ReadWrite"}     \* O_RDONLY, O_WRONLY, O_RDWR
Kinds == Modes \cup {"Path"}                \* InFlightPipeRefKind

SideOf(mode) == IF mode = "Read" THEN "Reader" ELSE "Writer"
ModeOf(side) == IF side = "Reader" THEN "Read" ELSE "Write"

-----------------------------------------------------------------------------
(* PipeBuffer methods, from buffer to buffer *)

ReadyReader(b) == \E t \in DOMAIN b.waiters :
    b.waiters[t].side = "Reader" /\ b.waiters[t].ready

AddReader(b) == [b EXCEPT !.reads = @ + 1]
AddWriter(b) == [b EXCEPT !.writes = @ + 1]

(* The last reader takes the unread data with it. *)
CloseReadEnd(b) ==
    LET left == b.reads - 1
    IN  [b EXCEPT !.reads = left, !.len = IF left = 0 THEN 0 ELSE @]

(* As if the last writer only counted for readers that are already open. *)
CloseWriteEndForgets(b) ==
    LET left == b.writes - 1
        hup  == b.everOpened /\ b.readOnly > 0
    IN  IF left > 0 THEN [b EXCEPT !.writes = left]
        ELSE [b EXCEPT !.writes = 0, !.hangup = hup, !.everOpened = @ /\ hup]

(* The last writer leaves a hang-up to the readers that are there; without   *)
(* any, and without one about to return from open(), the cohort starts anew. *)
CloseWriteEnd(b) ==
    LET left == b.writes - 1
    IN  IF left > 0 THEN [b EXCEPT !.writes = left]
        ELSE IF b.everOpened /\ b.readOnly > 0
        THEN [b EXCEPT !.writes = 0, !.hangup = TRUE]
        ELSE IF ~ ReadyReader(b)
        THEN [b EXCEPT !.writes = 0, !.everOpened = FALSE, !.hangup = FALSE]
        ELSE [b EXCEPT !.writes = 0]

(* The end of a reader cohort clears its hang-up. *)
ResetCohort(b) ==
    IF b.readOnly = 0 /\ ~ ReadyReader(b)
    THEN [b EXCEPT !.hangup = FALSE, !.everOpened = @ /\ b.writes > 0]
    ELSE b

CloseReadOnly(b) == ResetCohort(CloseReadEnd([b EXCEPT !.readOnly = @ - 1]))

(* As if an inherited read-only reference did not join the reader cohort. *)
AddReferenceNoCohort(b, kind) ==
    IF kind = "Path" THEN [b EXCEPT !.paths = @ + 1]
    ELSE IF kind = "Read" THEN AddReader(b)
    ELSE IF kind = "Write" THEN AddWriter(b)
    ELSE AddWriter(AddReader(b))

(* add_reference and close_reference *)
AddReference(b, kind) ==
    IF kind = "Path" THEN [b EXCEPT !.paths = @ + 1]
    ELSE IF kind = "Read" THEN [AddReader(b) EXCEPT !.readOnly = @ + 1]
    ELSE IF kind = "Write" THEN AddWriter(b)
    ELSE AddWriter(AddReader(b))

CloseReference(b, kind) ==
    IF kind = "Path" THEN [b EXCEPT !.paths = @ - 1]
    ELSE IF kind = "Read" THEN CloseReadOnly(b)
    ELSE IF kind = "Write" THEN CloseWriteEnd(b)
    ELSE CloseWriteEnd(CloseReadEnd(b))

AddEndpoint(b, side) == IF side = "Reader" THEN AddReader(b) ELSE AddWriter(b)

(* reserve_fifo_open: the endpoint counts, and its opener is a waiter. *)
Reserve(b, t, side) ==
    AddEndpoint([b EXCEPT !.waiters = [u \in DOMAIN @ \cup {t} |->
                    IF u = t THEN [side |-> side, ready |-> FALSE] ELSE @[u]]], side)

MakeReady(b, sides) ==
    [b EXCEPT !.waiters = [t \in DOMAIN @ |->
        IF @[t].side \in sides THEN [@[t] EXCEPT !.ready = TRUE] ELSE @[t]]]

(* As if a reader that finishes its open did not tell the waiting writers. *)
PublishSilent(b, mode) ==
    IF mode = "Read"
    THEN [b EXCEPT !.readOnly = @ + 1,
                   !.everOpened = @ \/ b.writes > 0,
                   !.hangup = IF b.writes > 0 THEN FALSE ELSE @ \/ b.everOpened]
    ELSE MakeReady([b EXCEPT !.everOpened = TRUE, !.hangup = FALSE], {"Reader"})

(* publish_fifo_open and publish_fifo_read_write_open: the endpoint has a    *)
(* descriptor now, and whoever waited for that side may return.              *)
Publish(b, mode) ==
    IF mode = "Read"
    THEN MakeReady([b EXCEPT !.readOnly = @ + 1,
                             !.everOpened = @ \/ b.writes > 0,
                             !.hangup = IF b.writes > 0 THEN FALSE
                                        ELSE @ \/ b.everOpened],
                   {"Writer"})
    ELSE MakeReady([b EXCEPT !.everOpened = TRUE, !.hangup = FALSE],
                   IF mode = "Write" THEN {"Reader"} ELSE Sides)

(* cancel_fifo_open *)
CancelWaiter(b, t) ==
    LET gone == [b EXCEPT !.waiters = Restrict(@, DOMAIN @ \ {t})]
    IN  IF b.waiters[t].side = "Reader" THEN ResetCohort(CloseReadEnd(gone))
        ELSE CloseWriteEnd(gone)

(* is_fully_closed *)
FullyClosed(b) == b.reads = 0 /\ b.writes = 0 /\ b.names = 0 /\ b.paths = 0

(* free_if_closed *)
FreeIfClosed(b) == [b EXCEPT !.freed = @ \/ FullyClosed(b)]

-----------------------------------------------------------------------------
(* System calls *)

Opening(t) == t \in DOMAIN pipe.waiters
Free(t) == desc[t] = "None" /\ ~ Opening(t)
Holders(kinds) == {t \in Threads : desc[t] \in kinds}
WaitersOf(side) == {t \in DOMAIN pipe.waiters : pipe.waiters[t].side = side}

(* The readers a hang-up is for: the read-only descriptors, and the openers   *)
(* that are about to get one.                                                *)
ReaderCohort(b, d) == (\E t \in Threads : d[t] = "Read") \/ ReadyReader(b)

(* Who can tell that a writer is or was there, *)
SawWriter(b, d) ==
    LET readers == {t \in Threads : d[t] = "Read"}
                      \cup {t \in DOMAIN b.waiters : b.waiters[t].side = "Reader"}
    IN  IF \E t \in Threads : d[t] \in {"Write", "ReadWrite"}
        THEN readers ELSE sawWriter \cap readers

(* and whether there was a write end at all while these readers were. *)
MetEnd(b, d) == ReaderCohort(b, d) /\ (metEnd \/ b.writes > 0)

Become(b) ==
    /\ pipe' = b
    /\ sawWriter' = SawWriter(b, desc')
    /\ metEnd' = MetEnd(b, desc')

(* What an open() in this mode waits for. *)
OppositeOpen(mode) ==
    CASE mode = "Read" -> pipe.writes > 0
      [] mode = "Write" -> pipe.reads > 0
      [] OTHER -> TRUE

(* try_open_fifo when the open need not wait: the endpoint is counted first  *)
(* and published once the descriptor exists.                                 *)
Open(t, mode, nonblock) ==
    /\ pipe.names > 0 /\ Free(t)
    /\ OppositeOpen(mode) \/ (nonblock /\ mode = "Read")
    /\ desc' = [desc EXCEPT ![t] = mode]
    /\ writerOpened' = (writerOpened \/ mode # "Read")
    /\ LET b == IF mode = "ReadWrite" THEN AddWriter(AddReader(pipe))
                ELSE AddEndpoint(pipe, SideOf(mode))
       IN  Become(Publish(b, mode))

(* The same without a free descriptor (EMFILE): the endpoint is closed       *)
(* again.                                                                    *)
OpenEmfile(t, mode, nonblock) ==
    /\ pipe.names > 0 /\ Free(t)
    /\ OppositeOpen(mode) \/ (nonblock /\ mode = "Read")
    /\ UNCHANGED <<desc, writerOpened>>
    /\ LET b == IF mode = "ReadWrite" THEN CloseReference(AddReference(pipe, mode), mode)
                ELSE IF mode = "Read" THEN CloseReadEnd(AddReader(pipe))
                ELSE CloseWriteEnd(AddWriter(pipe))
       IN  Become(FreeIfClosed(b))

(* As if an opener looked only at the descriptors of the other side, not at  *)
(* the endpoints that waiting openers have reserved.                         *)
OpenWaitsBlind(t, mode) ==
    /\ pipe.names > 0 /\ Free(t)
    /\ Holders({"ReadWrite", ModeOf(IF mode = "Read" THEN "Writer" ELSE "Reader")}) = {}
    /\ UNCHANGED <<desc, writerOpened>>
    /\ Become(Reserve(pipe, t, SideOf(mode)))

(* try_open_fifo when it must wait: the endpoint is reserved, so that the    *)
(* other side does not return into an empty pipe.                            *)
OpenWaits(t, mode) ==
    /\ pipe.names > 0 /\ Free(t)
    /\ ~ OppositeOpen(mode)
    /\ UNCHANGED <<desc, writerOpened>>
    /\ Become(Reserve(pipe, t, SideOf(mode)))

(* resume_fifo_open: the retried call finds its reservation ready.  The      *)
(* descriptor was reserved with it, so this cannot fail.                     *)
Resume(t) ==
    /\ Opening(t) /\ pipe.waiters[t].ready
    /\ LET mode == ModeOf(pipe.waiters[t].side)
       IN  /\ desc' = [desc EXCEPT ![t] = mode]
           /\ writerOpened' = (writerOpened \/ mode = "Write")
           /\ Become(Publish([pipe EXCEPT !.waiters = Restrict(@, DOMAIN @ \ {t})], mode))

(* A signal (EINTR), pthread_cancel, thread exit, exec or process exit ends  *)
(* the wait, ready or not.                                                   *)
Cancel(t) ==
    /\ Opening(t)
    /\ UNCHANGED <<desc, writerOpened>>
    /\ Become(FreeIfClosed(CancelWaiter(pipe, t)))

(* open() with O_PATH *)
OpenPath(t) ==
    /\ pipe.names > 0 /\ Free(t)
    /\ desc' = [desc EXCEPT ![t] = "Path"]
    /\ Become(AddReference(pipe, "Path"))
    /\ UNCHANGED writerOpened

(* fork, spawn or SCM_RIGHTS hands another thread a reference of the kind. *)
Share(t, u) ==
    /\ desc[t] # "None" /\ Free(u)
    /\ desc' = [desc EXCEPT ![u] = desc[t]]
    /\ Become(AddReference(pipe, desc[t]))
    /\ UNCHANGED writerOpened

(* As if the name of the FIFO kept it alive and descriptors did not. *)
CloseFrees(t) ==
    /\ desc[t] # "None"
    /\ desc' = [desc EXCEPT ![t] = "None"]
    /\ Become(CloseReference([pipe EXCEPT !.freed = @ \/ pipe.names = 0], desc[t]))
    /\ UNCHANGED writerOpened

(* The last close of the open file description, or crash of its process. *)
Close(t) ==
    /\ desc[t] # "None"
    /\ desc' = [desc EXCEPT ![t] = "None"]
    /\ Become(FreeIfClosed(CloseReference(pipe, desc[t])))
    /\ UNCHANGED writerOpened

Link ==
    /\ pipe.names \in 1 .. MaxNames - 1
    /\ UNCHANGED <<desc, writerOpened>>
    /\ Become([pipe EXCEPT !.names = @ + 1])

Unlink ==
    /\ pipe.names > 0
    /\ UNCHANGED <<desc, writerOpened>>
    /\ Become(FreeIfClosed([pipe EXCEPT !.names = @ - 1]))

(* sys_write: all of a small request or nothing; EPIPE without a reader. *)
Write(t, n) ==
    /\ desc[t] \in {"Write", "ReadWrite"}
    /\ pipe.reads > 0 /\ n <= Capacity - pipe.len
    /\ UNCHANGED <<desc, writerOpened>>
    /\ Become([pipe EXCEPT !.len = @ + n])

(* sys_read of up to n bytes; empty means EOF or wait. *)
Read(t, n) ==
    /\ desc[t] \in {"Read", "ReadWrite"}
    /\ n \in 1 .. pipe.len
    /\ UNCHANGED <<desc, writerOpened>>
    /\ Become([pipe EXCEPT !.len = @ - n])

(* mknod: new_fifo, with one name and no endpoint. *)
Init ==
    /\ pipe = [reads |-> 0, writes |-> 0, readOnly |-> 0, everOpened |-> FALSE,
               hangup |-> FALSE, names |-> 1, paths |-> 0, len |-> 0,
               waiters |-> << >>, freed |-> FALSE]
    /\ desc = [t \in Threads |-> "None"]
    /\ sawWriter = {} /\ metEnd = FALSE /\ writerOpened = FALSE

Next ==
    \/ \E t \in Threads, mode \in Modes, nonblock \in BOOLEAN :
          Open(t, mode, nonblock) \/ OpenEmfile(t, mode, nonblock)
    \/ \E t \in Threads, mode \in {"Read", "Write"} : OpenWaits(t, mode)
    \/ \E t \in Threads : Resume(t) \/ Cancel(t) \/ OpenPath(t) \/ Close(t)
    \/ \E t, u \in Threads : Share(t, u)
    \/ Link \/ Unlink
    \/ \E t \in Threads, n \in 1 .. Capacity : Write(t, n) \/ Read(t, n)

Spec == Init /\ [][Next]_vars

(* The host retries every waiting open() from a timer: handleBlockingRetry   *)
(* re-arms it each time the kernel says EAGAIN again.                        *)
FairSpec == Spec /\ \A t \in Threads : WF_vars(Resume(t))

-----------------------------------------------------------------------------
(* Properties *)

TypeOK ==
    /\ pipe.reads \in Nat /\ pipe.writes \in Nat /\ pipe.readOnly \in Nat
    /\ pipe.paths \in Nat /\ pipe.names \in 0 .. MaxNames
    /\ pipe.len \in 0 .. Capacity
    /\ {pipe.everOpened, pipe.hangup, pipe.freed} \subseteq BOOLEAN
    /\ DOMAIN pipe.waiters \subseteq Threads
    /\ Range(pipe.waiters) \subseteq [side : Sides, ready : BOOLEAN]
    /\ desc \in [Threads -> Kinds \cup {"None"}]
    /\ sawWriter \subseteq Threads /\ {metEnd, writerOpened} \subseteq BOOLEAN

(* The endpoint counts that decide EOF, EPIPE and readiness are those of the *)
(* descriptors plus the openers' reservations, after any mixture of failed   *)
(* opens, cancelled opens, forks and closes.                                 *)
CountsExact ==
    /\ pipe.reads = Cardinality(Holders({"Read", "ReadWrite"}))
                      + Cardinality(WaitersOf("Reader"))
    /\ pipe.writes = Cardinality(Holders({"Write", "ReadWrite"}))
                      + Cardinality(WaitersOf("Writer"))
    /\ pipe.readOnly = Cardinality(Holders({"Read"}))
    /\ pipe.paths = Cardinality(Holders({"Path"}))

(* The state of the FIFO is well-formed, its ring not overfull, and its      *)
(* counts are exact.                                                         *)
EndsCounted == TypeOK /\ CountsExact

(* An open() that still has to wait has nobody on the other side, neither    *)
(* open nor waiting: a reader and a writer never wait for each other.        *)
Rendezvous ==
    \A t \in DOMAIN pipe.waiters : ~ pipe.waiters[t].ready =>
        IF pipe.waiters[t].side = "Reader" THEN pipe.writes = 0 ELSE pipe.reads = 0

(* open() returns: while the other side has an endpoint, open or opening, a  *)
(* waiting open() comes to its end.                                          *)
OpenReturns ==
    \A t \in Threads :
        /\ Opening(t) /\ t \in WaitersOf("Reader") ~> ~ Opening(t) \/ pipe.writes = 0
        /\ Opening(t) /\ t \in WaitersOf("Writer") ~> ~ Opening(t) \/ pipe.reads = 0

(* The buffer goes exactly when no name, descriptor or waiting open() refers *)
(* to it: an unlinked FIFO lives on for its users and is not leaked.         *)
FreedWhenUnused ==
    pipe.freed <=> /\ pipe.names = 0
                   /\ Holders(Kinds) = {}
                   /\ DOMAIN pipe.waiters = {}

(* A reader that met a writer's descriptor, if only while its own open() was *)
(* waiting, is told when no writer is left.                                  *)
HangupReported ==
    \A t \in Holders({"Read"}) \cap sawWriter : pipe.writes = 0 => pipe.hangup

(* No reader is told that the writers left while one is there; a hang-up     *)
(* does not outlive the readers it is for; and these, or some of them, were  *)
(* there at the same time as a write end.  A reserved write end is enough:   *)
(* the code also counts a writer whose open() was cancelled.                 *)
HangupTrue == pipe.hangup => pipe.writes = 0 /\ ReaderCohort(pipe, desc) /\ metEnd

(* poll() reports the end of the writers to every reader that met an open    *)
(* one, and only to a cohort of readers that met a write end.                *)
HangupRight == HangupReported /\ HangupTrue

(* pipe.rs:484: POLLHUP "becomes sticky for the current reader cohort only   *)
(* after a successfully opened writer disappears".                           *)
HangupAfterWriter == pipe.hangup => writerOpened
=============================================================================
