------------------------------ MODULE MCStore ------------------------------
(* Store on three sessions (a source, a fork and a fork of the fork) and     *)
(* three runs, with deltas of zero, one and two items.                       *)
EXTENDS Store, TLC
CONSTANTS a, b
MCItem == {a, b}
MCDelta == {<<>>, <<a, b>>}
MCSymmetry == Permutations(Session) \cup Permutations(Run)
=============================================================================
