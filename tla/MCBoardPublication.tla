-------------------------- MODULE MCBoardPublication --------------------------
(* One worker of the job and two processes that complete inspections. *)
EXTENDS BoardPublication, TLC

CONSTANTS g1, g2, g3, w1, c1, c2, f1, f2, r1, r2

Three      == {g1, g2, g3}
Everybody  == {w1, c1, c2}
Builders   == {w1}
Files      == {f1, f2}
Routes     == {r1, r2}

Kinds == {"persist", "revise", "inspect", "route"}

Symmetry == Permutations(Three) \cup Permutations({c1, c2}) \cup Permutations(Files)
            \cup Permutations(Routes)

===============================================================================
