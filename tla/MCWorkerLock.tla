----------------------------- MODULE MCWorkerLock -----------------------------
(* The lock on a small instance: three worker processes, or two.           *)
EXTENDS WorkerLock

CONSTANTS p1, p2, p3
MCThree == {p1, p2, p3}
MCTwo == {p1, p2}
=============================================================================
