---------------------------- MODULE MCPShared -----------------------------
(* Instances of PShared for TLC. *)
EXTENDS PShared

OneEach == [t \in Threads |-> t]                   \* Threads = Procs
ElderSibling == CHOOSE p \in Procs : p \in Threads  \* has a second thread
TwoFirst == [t \in Threads |-> IF t \in Procs THEN t ELSE ElderSibling]

Sym == Permutations(Procs)
=============================================================================
