-------------------------- MODULE MCConfiguration --------------------------
(* Instances of Configuration for TLC. *)
EXTENDS Configuration

CONSTANTS t1, t2, t3, u1, g1, g2, g3, r1, r2

MCTS == {t1, t2, t3, u1}
MCSecond == {u1}
MCGateway == {g1, g2, g3}
MCRequests == {r1, r2}
Symmetry == Permutations({t1, t2, t3}) \cup Permutations(MCGateway) \cup Permutations(MCRequests)
=============================================================================
