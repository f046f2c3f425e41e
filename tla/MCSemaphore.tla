------------------------------ MODULE MCSemaphore ------------------------------
(* Small instances of the semaphores. *)
EXTENDS Semaphore
CONSTANTS t1, t2, s1, s2

OneSem  == {s1}
TwoSems == {s1, s2}
Limit == [s \in Sem |-> 1]   \* all of them are binary
Falling == (Idle :> 0) @@ (Main :> 3) @@ (t1 :> 2) @@ (t2 :> 1)
Pair == (Idle :> 0) @@ (Main :> 1) @@ (t1 :> 2)
=============================================================================
