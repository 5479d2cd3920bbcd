---------------------------- MODULE MCStoreTimes ----------------------------
(* Three sessions and two runs under a clock with three readings.            *)
EXTENDS StoreTimes, TLC
MCSymmetry == Permutations(Run)
=============================================================================
