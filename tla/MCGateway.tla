----------------------------- MODULE MCGateway -----------------------------
(***************************************************************************)
(* The gateway with two links for TLC.                                     *)
(***************************************************************************)
EXTENDS Gateway

NetworkMessages == {[kind |-> "SLTM", sls |-> 0], [kind |-> "COO", sls |-> 1],
                    [kind |-> "USER", sls |-> 0]}
ClientMessages  == {[kind |-> "DATA", sls |-> 1], [kind |-> "ASPUP", sls |-> 0]}
=============================================================================
