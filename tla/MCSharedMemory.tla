--------------------------- MODULE MCSharedMemory ---------------------------
EXTENDS SharedMemory, TLC

Sym == Permutations(Procs \ {First}) \cup Permutations(Cells)
=============================================================================
