----------------------------- MODULE MCLev1Shm -----------------------------
(***************************************************************************)
(* The shared memory of a link for TLC.                                    *)
(***************************************************************************)
EXTENDS Lev1Shm

CONSTANTS s1, s2, s0, none

MCSU == {s1, s2, s0}
\* The rings share no data: it is enough to tell the SUs of one of them apart.
\* s0 has no length: one that is received stops the link process's reading.
OneRing == {[rx |-> {s1, s2}, tx |-> {s1}], [rx |-> {s1, s0}, tx |-> {s1}], [rx |-> {s1}, tx |-> {s1, s2}]}
=============================================================================
