------------------------------ MODULE MCSupervisor ------------------------------
(* Instances of Supervisor for TLC: see the .cfg files. *)
EXTENDS SupervisorProps, TLC

=============================================================================
