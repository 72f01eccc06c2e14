---------------------------- MODULE MCMonitorStream ----------------------------
(***************************************************************************)
(* A start, two facts and an end with a delta between them; batches of     *)
(* two, pages of one; breaks, restarts and cuts at any time.               *)
(***************************************************************************)
EXTENDS MonitorStream

=============================================================================
