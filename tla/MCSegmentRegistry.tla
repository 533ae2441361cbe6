---- MODULE MCSegmentRegistry ----
(* SegmentRegistry for TLC: the names of threads and objects do not matter. *)
EXTENDS SegmentRegistry, TLC

Symmetry == Permutations(Threads) \cup Permutations(Ptr)

====
