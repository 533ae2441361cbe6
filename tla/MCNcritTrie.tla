---- MODULE MCNcritTrie ----
(* NcritTrie for TLC: the names of threads, values and nodes do not matter. *)
EXTENDS NcritTrie, TLC

Symmetry ==
  Permutations(Threads) \cup Permutations(Values)
    \cup Permutations(Node \ {Root})

====
