----------------------------- MODULE MCSysvIpc -----------------------------
EXTENDS SysvIpc

(* Two users of one group; the group may do what the owner may. *)
OwnUid == [p \in Procs |-> IF p = CHOOSE q \in Procs : TRUE THEN 7 ELSE 8]
OneGid == [p \in Procs |-> 7]
Shared == {[user |-> {"R", "W"}, group |-> {"R", "W"}, other |-> {}]}

(* Take both semaphores, give both back, take one, name one that is not there *)
Op(n, k) == [num |-> n, op |-> k]
Arrays == {<<Op(0, -1), Op(1, -1)>>, <<Op(1, 1), Op(0, 1)>>, <<Op(1, -1)>>,
           <<Op(0, -1), Op(2, 0)>>}
(* The same semaphore twice *)
Doubled == {<<Op(0, -1), Op(0, -1)>>}

Ask(type, except, noerror, max) ==
    [type |-> type, except |-> except, noerror |-> noerror, max |-> max]
Asked == {Ask(0, FALSE, TRUE, 1), Ask(1, FALSE, FALSE, 1), Ask(1, TRUE, FALSE, 2),
          Ask(-1, FALSE, FALSE, 2)}
=============================================================================
