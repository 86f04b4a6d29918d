----------------------------- MODULE Cancellation -----------------------------
(***************************************************************************)
(* _CancellationSignal (service.py): what every adapter of a scan reads as *)
(* its cancel_event.  It is set for good once the user stops the scan or   *)
(* the service closes.                                                     *)
(***************************************************************************)
VARIABLES
  requested,  \* the run's own event, set by cancel_scan
  closed      \* the service's event, set by close

signal == <<requested, closed>>

Cancelled == requested \/ closed

SignalInit == requested = FALSE /\ closed = FALSE

Request == ~requested /\ requested' = TRUE /\ UNCHANGED closed
Close   == ~closed /\ closed' = TRUE /\ UNCHANGED requested
===============================================================================
