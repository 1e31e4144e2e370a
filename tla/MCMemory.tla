------------------------------ MODULE MCMemory ------------------------------
(* Address spaces of a few pages of two units, in the layout the hosts use   *)
(* and in the older one with control pages between heap and mappings.        *)
EXTENDS Memory

Compact ==
    [initial_brk |-> 2, max_addr |-> 10, brk_limit |-> 12, mmap_base |-> 2,
     reserved_until |-> 2]
Legacy ==
    [initial_brk |-> 2, max_addr |-> 12, brk_limit |-> 4, mmap_base |-> 6,
     reserved_until |-> 0]
Both == {Compact, Legacy}
OnlyCompact == {Compact}
=============================================================================
