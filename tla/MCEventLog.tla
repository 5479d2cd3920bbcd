----------------------------- MODULE MCEventLog -----------------------------
(* Three subscribers, so that one may clear the flag between the wakeups of  *)
(* two others; no symmetry, since liveness is checked.                       *)
EXTENDS EventLog
=============================================================================
