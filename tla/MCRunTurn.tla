----------------------------- MODULE MCRunTurn -----------------------------
(* One run of one process, long enough for a follow-up or a second batch of  *)
(* tool calls to be interrupted; no symmetry, so that liveness can be        *)
(* checked.                                                                  *)
EXTENDS RunLifecycle, TLC
CONSTANTS c1, c2, c3
MCCallId == {c1, c2, c3}
MCCallLists == {<<>>, <<c1>>, <<c1, c2>>, <<c2, c3>>}
=============================================================================
