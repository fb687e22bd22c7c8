---------------------------- MODULE MCSupervisor ----------------------------
(* Bounded instance of Supervisor: the watchdog and one rescan.              *)
EXTENDS Supervisor
=============================================================================
