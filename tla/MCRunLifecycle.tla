--------------------------- MODULE MCRunLifecycle ---------------------------
(* Two processes, two runs, a session and its fork; turns with up to two     *)
(* tool calls.                                                               *)
EXTENDS RunLifecycle, TLC
CONSTANTS c1, c2
MCCallId == {c1, c2}
MCCallLists == {<<>>, <<c1>>, <<c1, c2>>}
MCSymmetry == Permutations(Session) \cup Permutations(Run) \cup Permutations(Process)
=============================================================================
