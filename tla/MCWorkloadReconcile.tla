------------------------ MODULE MCWorkloadReconcile ------------------------
(***************************************************************************)
(* TLC instances of WorkloadReconcile.                                     *)
(***************************************************************************)
EXTENDS WorkloadReconcile
=============================================================================
