-------------------------- MODULE MCStreamAssembler --------------------------
(* Two output items of any kinds, in one order or interleaved, with up to    *)
(* two parts and two deltas each.                                            *)
EXTENDS StreamAssembler
=============================================================================
