------------------------------- MODULE MCCore -------------------------------
(* Instances of Core for TLC. *)
EXTENDS Core

\* A gateway at work, and one whose link goes down again and again.
MCLoads == {[sus |-> 1, reads |-> 1, ticks |-> 2, faults |-> 0, logged |-> FALSE],
            [sus |-> 0, reads |-> 0, ticks |-> 1, faults |-> 1, logged |-> TRUE]}
=============================================================================
