------------------------------ MODULE MCPipes ------------------------------
EXTENDS Pipes
(* Two threads of one process and one of another *)
Family == [t \in Threads |-> IF t = 3 THEN "child" ELSE "parent"]
(* A filter: one thread reads or polls, one writes; the child writes too. *)
Roles == <<{"read", "poll"}, {"write"}, {"write"}>>
=============================================================================
