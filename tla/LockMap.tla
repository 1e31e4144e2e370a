------------------------------ MODULE LockMap ------------------------------
(***************************************************************************)
(* What advisory locking promises, byte by byte: held[f][o][b] is the lock  *)
(* that owner o has on byte b of file f.  There are no records, ranges are  *)
(* only sets of bytes, and nothing is ever merged or split.  Byte MaxOffset *)
(* stands for itself and for everything after it: only a lock to end of     *)
(* file covers it.                                                          *)
(***************************************************************************)
EXTENDS Integers

CONSTANTS Files, Owners, MaxOffset, SameSpace(_, _)

VARIABLES
    held,           \* the lock map
    wake            \* a retry of the parked waiters has been requested

mapVars == <<held, wake>>

Bytes == 0 .. MaxOffset
Modes == {"None", "Read", "Write"}

MapInit ==
    /\ held = [f \in Files |-> [o \in Owners |-> [b \in Bytes |-> "None"]]]
    /\ wake = FALSE

(* Two modes exclude each other on one byte. *)
Excludes(m1, m2) == m1 # "None" /\ m2 # "None" /\ (m1 = "Write" \/ m2 = "Write")

(* Weakening a mode is what can let somebody else in. *)
Weaker(m1, m2) == (m1 # "None" /\ m2 = "None") \/ (m1 = "Write" /\ m2 = "Read")

Weakened(h1, h2) ==
    \E f \in Files, o \in Owners, b \in Bytes : Weaker(h1[f][o][b], h2[f][o][b])

(* A wake-up may be spurious, but a weakening never goes unannounced. *)
Announce ==
    /\ wake' \in BOOLEAN
    /\ wake => wake'
    /\ Weakened(held, held') => wake'

(* Owner o changes the bytes lo .. hi of f to mode m, and nothing else. *)
Change(f, o, m, lo, hi) ==
    /\ \A p \in Owners, b \in lo .. hi :
          p # o /\ SameSpace(o, p) => ~ Excludes(m, held[f][p][b])
    /\ held' = [g \in Files |-> [p \in Owners |-> [b \in Bytes |->
                   IF g = f /\ p = o /\ b \in lo .. hi THEN m ELSE held[g][p][b]]]]
    /\ Announce

(* Everything the owners O hold on the files F goes away. *)
Drop(F, O) ==
    /\ held' = [f \in Files |-> [o \in Owners |-> [b \in Bytes |->
                   IF f \in F /\ o \in O THEN "None" ELSE held[f][o][b]]]]
    /\ Announce

Deliver == wake /\ wake' = FALSE /\ UNCHANGED held

MapNext ==
    \/ \E f \in Files, o \in Owners, m \in Modes, lo, hi \in Bytes :
          Change(f, o, m, lo, hi)
    \/ \E F \in SUBSET Files, O \in SUBSET Owners : Drop(F, O)
    \/ Deliver

MapSpec == MapInit /\ [][MapNext]_mapVars
=============================================================================
