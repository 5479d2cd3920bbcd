---------------------------- MODULE MCBashProcess ----------------------------
(* The shell and two more processes: a child of it and a grandchild, or two  *)
(* children with different habits.  No symmetry, since liveness is checked.  *)
EXTENDS BashProcess
=============================================================================
