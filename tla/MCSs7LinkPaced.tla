--------------------------- MODULE MCSs7LinkPaced ---------------------------
(***************************************************************************)
(* Two sides of a link for TLC, with 50 ms ticks at both sides.            *)
(***************************************************************************)
EXTENDS MCSs7LinkPair, Ss7LinkPaced
=============================================================================
