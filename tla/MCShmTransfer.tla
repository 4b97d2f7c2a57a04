---------------------------- MODULE MCShmTransfer ----------------------------
(* Instances of ShmTransfer for TLC. *)
EXTENDS ShmTransfer, TLC

CONSTANTS w1, w2, r1, r2

Symmetry == Permutations(Writers) \cup Permutations(Readers)
=============================================================================
