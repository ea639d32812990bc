----------------------------- MODULE MCWakeRun -----------------------------
(* WakeRun with the recipients and bounds its configurations give. *)
EXTENDS WakeRun
=============================================================================
