---------------------------- MODULE Ss7LinkPaced ----------------------------
(***************************************************************************)
(* The pair of link processes under the timing of the real system: timer() *)
(* runs every 50 ms at either side and takes microseconds, an SU takes     *)
(* about a millisecond on the line.  Hence both sides tick in turn, and    *)
(* the line carries what a tick has sent before the next tick.             *)
(***************************************************************************)
EXTENDS Ss7LinkPair

VARIABLE turn      \* the side whose timer() runs next

pacedVars == <<pairVars, turn>>

Quiet == \A n \in Links : pc[n] = "idle" /\ toMtp[n] = <<>>

PacedTick(n) ==
  /\ turn = n
  /\ pc[n] = "idle" => \A k \in Links : tx[k] = <<>>
  /\ Step(n)
  /\ turn' = IF pc'[n] = "idle" THEN Other(n) ELSE n

PacedCarry(n) == Quiet /\ Carry(n) /\ UNCHANGED turn

PacedHandle(n) == pc[n] = "idle" /\ Handle(n) /\ UNCHANGED turn

PacedCall(n) ==
  /\ Quiet
  /\ Give(n) \/ Reset(n) \/ Crash(n)
  /\ UNCHANGED turn

Run(n) == PacedTick(n) \/ PacedCarry(n) \/ PacedHandle(n)

PacedInit == PairInit /\ turn \in Links
PacedNext == \E n \in Links : Run(n) \/ PacedCall(n)

PacedSpec == PacedInit /\ [][PacedNext]_pacedVars

\* Both gateways keep running, and the line keeps carrying.
FairPacedSpec == PacedSpec /\ WF_pacedVars(\E n \in Links : Run(n))

-----------------------------------------------------------------------------
\* The types; and a side whose timer() has begun has its turn until it ends.
PacedTypeOK ==
  /\ PairTypeOK
  /\ turn \in Links
  /\ \A n \in Links : pc[n] # "idle" => turn = n

BothInService == \A n \in Links : state[n] = "IS"

\* Once calls and noise have ended, both sides get into service and stay.
AlignsForGood == <>[]BothInService

\* Once MTP3 has nothing more to send, everything given in the present
\* service period has been delivered, both sides know it from the
\* acknowledgements, and no buffer counts as full any more, provided that the
\* line loses nothing and nobody restarts.
AllDelivered == [](faults = 0) => <>[](BothInService /\ \A n \in Links :
  /\ delivered[Other(n)] = given[n] \/ given[n] + 1 \in firsts[n]
  /\ tx_last_ackd[n] = tx_last_placed[n])

\* Where nothing is lost, nobody asks for a retransmission.
NoNeedlessNack == faults = 0 => \A n \in Links :
  pc[n] = "rx" /\ rx[n] # <<>> => ~ Nack(n)
=============================================================================
