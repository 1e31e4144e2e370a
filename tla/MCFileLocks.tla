---------------------------- MODULE MCFileLocks ----------------------------
(* Instances of FileLocks for TLC. *)
EXTENDS FileLocks, TLC

NoFlags == {{}}
CloseOnExecAndFork == {{}, {"CLOEXEC", "CLOFORK"}}

Sym == Permutations(Procs) \cup Permutations(Ofds)
=============================================================================
