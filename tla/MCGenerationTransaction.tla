------------------------ MODULE MCGenerationTransaction ------------------------
(* Small instances of GenerationTransaction. *)
EXTENDS GenerationTransaction, TLC

CONSTANTS g1, g2, g3, w1, w2, f1, f2

Three == {g1, g2, g3}
Two   == {g1, g2}
Files == {f1, f2}
One   == {w1}
Both  == {w1, w2}

Kinds == {"persist", "revise", "inspect", "route"}

Symmetry == Permutations(Three) \cup Permutations(Files)
Pairs    == Permutations(Two) \cup Permutations(Both) \cup Permutations(Files)

===============================================================================
