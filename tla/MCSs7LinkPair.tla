--------------------------- MODULE MCSs7LinkPair ---------------------------
(***************************************************************************)
(* Two sides of a link for TLC, with their clocks unrelated.               *)
(***************************************************************************)
EXTENDS Ss7LinkPair

CONSTANTS a, b, none

MCLinks   == {a, b}
MCMsu     == 1 .. MaxSent

Side(x, y) == [n \in MCLinks |-> IF n = a THEN x ELSE y]
Scenario(aligned, quota, f) == [aligned |-> aligned, quota |-> quota, faults |-> f]

\* One side sends, or both.
DataScenarios   == {Scenario(TRUE, Side(MaxSent, 0), MaxFaults),
                    Scenario(TRUE, Side(2, 2), MaxFaults)}
WindowScenarios == {Scenario(TRUE, Side(MaxSent, 0), 0)}
\* From the start of both sides with a fault, and a flow without one.
PacedScenarios  == {Scenario(FALSE, Side(2, 0), MaxFaults),
                    Scenario(TRUE, Side(MaxSent, MaxSent), 0)}
=============================================================================
