----------------------------- MODULE MCMonitor -----------------------------
(* A parent and a few children. *)
EXTENDS Monitor
============================================================================
