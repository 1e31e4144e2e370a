---------------------------- MODULE MCProcessLife ----------------------------
(* Kinds of program: a shell with one thread that does job control on two    *)
(* children; a parent and a child that signal each other, whatever the parent *)
(* wants to know of SIGCHLD; a parent whose two threads wait for its children; *)
(* a parent one thread of which kills a whole group of children, of which it  *)
(* wants no zombies, while the other waits.                                   *)
EXTENDS ProcessLife

AnyChild == [kind |-> "any"]
OwnGroup == [kind |-> "own"]
Child(c) == [kind |-> "pid", id |-> c]
Group(g) == [kind |-> "pgid", id |-> g]

Shell ==
    [threads |-> <<{1}, {}, {}>>, disps |-> {},
     signals |-> {"TERM", "STOP", "CONT"}, groups |-> Pids, processes |-> 3,
     targets |-> {OwnGroup, Group(2)}, masks |-> {{"exited"}},
     peeks |-> FALSE, launchFails |-> FALSE]
Pair ==
    [threads |-> <<{1}, {1}, {}>>, disps |-> Dispositions,
     signals |-> Signals, groups |-> Pids, processes |-> 2,
     targets |-> {Child(2)},
     masks |-> {{"exited"}, {"stopped", "continued"}},
     peeks |-> TRUE, launchFails |-> TRUE]
Threaded ==
    [threads |-> <<{1, 2}, {}, {}>>, disps |-> {"caught"},
     signals |-> {"KILL"}, groups |-> {}, processes |-> 3,
     targets |-> {AnyChild}, masks |-> {{"exited"}},
     peeks |-> FALSE, launchFails |-> FALSE]
Grouped ==
    [threads |-> <<{1, 2}, {}, {}>>, disps |-> {"ignored"},
     signals |-> {"KILL"}, groups |-> {2}, processes |-> 3,
     targets |-> {AnyChild}, masks |-> {{"exited"}},
     peeks |-> FALSE, launchFails |-> FALSE]

AllPrograms == {Shell, Pair, Threaded, Grouped}
=============================================================================
