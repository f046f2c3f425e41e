------------------------------- MODULE MCKernel -------------------------------
(* Small instances of the scheduler. *)
EXTENDS KernelInvariant
CONSTANTS t1, t2

\* Main and t1 share a priority below the highest.
ThreePriority == (Idle :> 0) @@ (Main :> 1) @@ (t1 :> 1)
\* Main, t1 and t2 share a priority: round robin.
SamePriority == (Idle :> 0) @@ (Main :> 1) @@ (t1 :> 1) @@ (t2 :> 1)
=============================================================================
