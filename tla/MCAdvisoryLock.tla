--------------------------- MODULE MCAdvisoryLock ---------------------------
(* Instances of AdvisoryLock for TLC. *)
EXTENDS AdvisoryLock, TLC

Sym == Permutations(Procs) \cup Permutations(Ofds) \cup Permutations(Files)
=============================================================================
