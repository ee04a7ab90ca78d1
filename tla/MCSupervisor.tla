---------------------------- MODULE MCSupervisor ----------------------------
(* Supervisor with a few children; its bounds are in the configurations.     *)
EXTENDS Supervisor

=============================================================================
