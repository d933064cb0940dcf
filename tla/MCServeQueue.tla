---------------------------- MODULE MCServeQueue ---------------------------
(* Small instances of ServeQueue: two workers over two tasks.                 *)
EXTENDS ServeQueue

CONSTANTS w1, w2, t1, t2

(* Every worker passes the same lease_seconds: the deployment the docs assume. *)
MCSameLease == [w \in Workers |-> 1]

(* w2 has no handler for t2's operation. *)
MCHandles == [w \in Workers |-> IF w = w2 THEN {t1} ELSE {t1, t2}]
=============================================================================
