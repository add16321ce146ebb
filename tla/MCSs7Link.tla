---------------------------- MODULE MCSs7Link ----------------------------
(***************************************************************************)
(* Small instances of Ss7Link for TLC: one link against a far end that may *)
(* send any of a few SUs at any moment, sensible or not.                   *)
(*   link          every LSSU, FISUs, and MSUs in both directions;         *)
(*   link_proving  LSSUs and FISUs only, longer timers.                    *)
(***************************************************************************)
EXTENDS Ss7Link

CONSTANTS n1, m1, none

MCLinks == {n1}
OneMsu  == {m1}
NoMsus  == {}

\* Three headers tell the branches of timer() apart: the header of a fresh
\* session, a negative acknowledgement, and an SU out of sequence.
H(bsn, bib, fsn) == [bsn |-> bsn, bib |-> bib, fsn |-> fsn, fib |-> 1]
Lssus(kinds)   == {Lssu(k, Ones) : k \in kinds}
Fisus(hdrs)    == {Fisu(h) : h \in hdrs}
Msus(hdrs)     == {[kind |-> "MSU", hdr |-> h, msu |-> m1] : h \in hdrs}

TimersPeer == Lssus(LssuKind \ {"SIN", "SIB"}) \cup Fisus({Ones, H(0, 0, 0)})
DataPeer   == TimersPeer \cup Msus({H(1, 1, 0), H(0, 0, 1)})
=============================================================================
