------------------------- MODULE MCWatchSupervisor -------------------------
(***************************************************************************)
(* TLC instances of WatchSupervisor.                                       *)
(***************************************************************************)
EXTENDS WatchSupervisor
=============================================================================
