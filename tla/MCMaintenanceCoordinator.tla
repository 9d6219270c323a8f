---------------------- MODULE MCMaintenanceCoordinator ----------------------
(***************************************************************************)
(* Instances of MaintenanceCoordinator for TLC.  Two writers, one advancing *)
(* thread besides the operation's own and two consecutive operations are    *)
(* what its races need; the configurations choose the mode.                 *)
(***************************************************************************)
EXTENDS MaintenanceCoordinator
=============================================================================
