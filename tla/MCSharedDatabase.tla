--------------------------- MODULE MCSharedDatabase ---------------------------
(* Two processes and a database with three sessions and two runs: enough for *)
(* every pair of openings and calls to race, for a second turn to be         *)
(* numbered after the first, and for a fork of a non-empty history.          *)
EXTENDS SharedDatabase, TLC
CONSTANTS a, b
MCItem == {a, b}
MCDelta == {<<a, b>>}
MCSymmetry == Permutations(Session) \cup Permutations(Run) \cup Permutations(Opener)
=============================================================================
