---------------------------- MODULE MCSupervisor ----------------------------
(* Small instances of Supervisor for TLC.                                   *)
EXTENDS Supervisor

\* Distinct orders, one per slot.
Ascending == [s \in Slot |-> s - 1]
=============================================================================
